------------------------------ MODULE MainLoop ------------------------------
(***************************************************************************)
(* The probe's main script (bin/ripe-atlas.in), the registration script    *)
(* it calls (bin/reginit.sh.in), and the daemons it starts and watches.     *)
(*                                                                          *)
(* Every three minutes the loop looks whether the KEEP session (the ssh     *)
(* tunnel to the controller) is alive, whether the controller has ended it  *)
(* with a message, registers again when there is no session, and restarts   *)
(* the measurement daemons that died.  All it knows of the past is in       *)
(* status files: reginit.vol (the lock of a registration, and the mark that *)
(* a session is expected), force_reg.txt, con_init_conf.txt (what the       *)
(* registration server answered), con_keep_conf.txt (what the controller    *)
(* answered), con_keep_reply.vol (what the KEEP session printed), and the   *)
(* files with process ids.                                                  *)
(*                                                                          *)
(* A file that holds a process id is modelled by who has that id now:       *)
(*   "none"   there is no file          "empty"   nothing is in it          *)
(*   "it"     the process that wrote it                                     *)
(*   "nobody" that process is dead      "other"   dead, and the id reused   *)
(* The times in the two answers are modelled by whether they have passed.   *)
(***************************************************************************)
EXTENDS Integers, FiniteSets

CONSTANTS
  Daemons,      \* perd, eperd and eooqd: the daemons the loop watches
  MaxFaults,    \* bound on failures, refusals, deaths and reused ids
  MaxRestarts   \* bound on restarts of the script (or of the machine)

ASSUME MainLoopAssumption ==
  MaxFaults \in Nat /\ MaxRestarts \in Nat

VARIABLES
  pc,         \* where the loop, or the registration script it calls, is
  stateFile,  \* reginit.vol exists
  forceReg,   \* force_reg.txt exists
  regConf,    \* con_init_conf.txt
  keepConf,   \* con_keep_conf.txt
  keepReply,  \* con_keep_reply.vol
  keepPid,    \* con_keep_pid.vol
  pidfile,    \* a daemon's pid file
  start,      \* how far a daemon that is being started has got
  run,        \* how many instances of a daemon are at work
  regWait,    \* the registration server said wait and the time is not over
  conWait,    \* the controller said wait and the time is not over
  renewed,    \* and the registration server has answered since
  faults, restarts

loop == <<pc, stateFile>>
conf == <<forceReg, regConf, keepConf, regWait, conWait, renewed>>
session == <<keepReply, keepPid>>
daemons == <<pidfile, start, run>>
bounds == <<faults, restarts>>
vars == <<loop, conf, session, daemons, bounds>>

RegConf == {"none", "empty", "wait", "over", "valid", "expired"}
KeepConf == {"none", "empty", "wait", "over", "port"}
PidFile == {"none", "empty", "it", "nobody", "other"}

Init ==
  /\ pc = "ssh" /\ stateFile = FALSE
  /\ forceReg = FALSE /\ regConf = "none" /\ keepConf = "none"
  /\ keepReply = "none" /\ keepPid = "none"
  /\ pidfile = [d \in Daemons |-> "none"]
  /\ start = [d \in Daemons |-> "check"]
  /\ run = [d \in Daemons |-> 0]
  /\ regWait = FALSE /\ conWait = FALSE /\ renewed = FALSE
  /\ faults = 0 /\ restarts = 0

Fault == faults < MaxFaults /\ faults' = faults + 1 /\ UNCHANGED restarts

(***************************************************************************)
(* The top of the loop.                                                    *)
(***************************************************************************)

\* Mutant: takes the pid file for a sign of life
FindpidFile == keepPid # "none"

\* findpid_ssh: the file exists and kill -0 reaches the process it names
FindpidSsh == keepPid \in {"it", "other"}

\* kill_ssh: kill -9 the process the file names, whoever it is now
KillSsh == keepPid' = "none"

\* no session although one is expected: forget that one is expected
CheckSsh ==
  /\ pc = "ssh"
  /\ pc' = "kick"
  /\ stateFile' = (stateFile /\ FindpidSsh)
  /\ UNCHANGED <<conf, session, daemons, bounds>>

\* the KEEP session printed something: the controller ended it
CheckKick ==
  /\ pc = "kick"
  /\ pc' = "reg"
  /\ \/ keepReply # "text" /\ UNCHANGED <<keepPid, forceReg, stateFile>>
     \/ keepReply = "text" /\ KillSsh /\ forceReg' = TRUE /\ stateFile' = FALSE
  /\ UNCHANGED <<keepReply, regConf, keepConf, regWait, conWait, renewed, daemons, bounds>>

\* without reginit.vol call reginit.sh, which creates it
CheckReg ==
  /\ pc = "reg"
  /\ \/ stateFile /\ pc' = "sleep" /\ UNCHANGED <<stateFile, keepPid>>
     \/ ~stateFile /\ pc' = "read" /\ stateFile' = TRUE /\ KillSsh
  /\ UNCHANGED <<keepReply, conf, daemons, bounds>>

(***************************************************************************)
(* reginit.sh.  It ends in two ways: it removes its state file, or it      *)
(* leaves it behind for CheckSsh to remove.                                *)
(***************************************************************************)
Exit == pc' = "sleep" /\ stateFile' = FALSE
ExitLeaving == pc' = "sleep" /\ UNCHANGED stateFile
Go(where) == pc' = where /\ UNCHANGED stateFile

\* Mutant: reads the time to wait until as if it were always over
ReadConfHasty ==
  /\ pc = "read"
  /\ \/ /\ forceReg
        /\ regConf' = "none" /\ keepConf' = "none" /\ Go("request")
     \/ /\ ~forceReg /\ regConf # "valid"
        /\ keepConf' = "none" /\ Go("request") /\ UNCHANGED regConf
     \/ /\ ~forceReg /\ regConf = "valid"
        /\ Go("firmware") /\ UNCHANGED <<regConf, keepConf>>
  /\ UNCHANGED <<forceReg, regWait, conWait, renewed, session, daemons, bounds>>

\* is a new registration due?
ReadConf ==
  /\ pc = "read"
  /\ \/ /\ forceReg
        /\ regConf' = "none" /\ keepConf' = "none" /\ Go("request")
     \/ /\ ~forceReg /\ regConf \in {"none", "empty", "over", "expired"}
        /\ keepConf' = "none" /\ Go("request") /\ UNCHANGED regConf
     \/ /\ ~forceReg /\ regConf = "wait"
        /\ ExitLeaving /\ UNCHANGED <<regConf, keepConf>>
     \/ /\ ~forceReg /\ regConf = "valid"
        /\ Go("firmware") /\ UNCHANGED <<regConf, keepConf>>
  /\ UNCHANGED <<forceReg, regWait, conWait, renewed, session, daemons, bounds>>

\* buddyinfo: too little memory; reboot_probe does nothing on a software
\* probe (on others a Restart follows)
LowMemory ==
  /\ pc \in {"request", "firmware", "conrequest", "keep"}
  /\ Fault /\ ExitLeaving
  /\ UNCHANGED <<conf, session, daemons>>

\* INIT to the registration server: ssh fails
RegFails ==
  /\ pc = "request"
  /\ Fault /\ Exit
  /\ UNCHANGED <<conf, session, daemons>>

\* INIT answered: the shell truncates con_init_conf.txt for atlasinit -r
RegAnswers ==
  /\ pc = "request"
  /\ forceReg' = FALSE /\ regConf' = "empty"
  /\ regWait' = FALSE /\ renewed' = conWait
  /\ Go("regconf")
  /\ UNCHANGED <<keepConf, conWait, session, daemons, bounds>>

\* atlasinit -r has written the file: a controller and a time to register
\* again, a time to wait until, or neither; a new network configuration ends
\* the script and may remove the file
RegStores ==
  /\ pc = "regconf"
  /\ \/ regConf' = "valid" /\ Go("firmware") /\ UNCHANGED <<regWait, bounds>>
     \/ Fault /\ regConf' = "wait" /\ regWait' = TRUE /\ Exit
     \/ Fault /\ regConf' = "empty" /\ Exit /\ UNCHANGED regWait
     \/ Fault /\ regConf' \in {"valid", "none"} /\ ExitLeaving /\ UNCHANGED regWait
  /\ UNCHANGED <<forceReg, keepConf, conWait, renewed, session, daemons>>

\* a newer firmware is installed, or there is none or it does not verify
Firmware ==
  /\ pc = "firmware"
  /\ \/ Go("coninit") /\ UNCHANGED bounds
     \/ Fault /\ Exit
  /\ UNCHANGED <<conf, session, daemons>>

\* what is known of the controller from before?
ReadKeepConf ==
  /\ pc = "coninit"
  /\ \/ keepConf \in {"none", "empty"} /\ Go("conrequest") /\ UNCHANGED keepConf
     \/ keepConf = "over" /\ keepConf' = "none" /\ Go("conrequest")
     \/ keepConf = "wait" /\ Exit /\ UNCHANGED keepConf
     \/ keepConf = "port" /\ Go("keep") /\ UNCHANGED keepConf
  /\ UNCHANGED <<forceReg, regConf, regWait, conWait, renewed, session, daemons, bounds>>

ConFails ==
  /\ pc = "conrequest"
  /\ Fault /\ Exit
  /\ UNCHANGED <<conf, session, daemons>>

ConAnswers ==
  /\ pc = "conrequest"
  /\ keepConf' = "empty" /\ Go("conconf")
  /\ UNCHANGED <<forceReg, regConf, regWait, conWait, renewed, session, daemons, bounds>>

\* atlasinit -c has written a remote port, a time to wait until, or neither
\* (or a time that is over): then the script goes on without a port
ConStores ==
  /\ pc = "conconf"
  /\ \/ keepConf' = "port" /\ Go("keep") /\ UNCHANGED <<conWait, renewed, bounds>>
     \/ Fault /\ keepConf' = "wait" /\ conWait' = TRUE /\ renewed' = FALSE /\ Exit
     \/ Fault /\ keepConf' \in {"empty", "over"} /\ Go("keep")
        /\ UNCHANGED <<conWait, renewed>>
  /\ UNCHANGED <<forceReg, regConf, regWait, session, daemons>>

\* start the KEEP session in the background, where ssh ends at once if it has
\* no port, and write down its process id; when that fails the script gives
\* up, and the session runs unknown to it
Keep ==
  /\ pc = "keep"
  /\ keepReply' = "empty"
  /\ \/ /\ keepPid' = IF keepConf = "port" THEN "it" ELSE "nobody"
        /\ Go("sleep") /\ UNCHANGED bounds
     \/ keepPid' = "empty" /\ Fault /\ Exit
  /\ UNCHANGED <<conf, daemons>>

(***************************************************************************)
(* The rest of a turn: reports, condmv and the three minutes, then the      *)
(* daemons.                                                                 *)
(***************************************************************************)
Sleep ==
  /\ pc = "sleep"
  /\ Go("check")
  /\ UNCHANGED <<conf, session, daemons, bounds>>

\* Mutant: takes a pid file for a sign of life
CheckFile(d) == pidfile[d] # "none"

\* check_pid: the directory /proc/<pid> exists; with no file or an empty one
\* the test is of /proc/ itself
CheckPid(d) == pidfile[d] # "nobody"

\* Assumption of the model: a daemon gets through its start within a turn.
CheckDaemons ==
  /\ pc = "check"
  /\ \A d \in Daemons : start[d] = "no"
  /\ start' = [d \in Daemons |-> IF CheckPid(d) THEN "no" ELSE "check"]
  /\ Go("ssh")
  /\ UNCHANGED <<conf, session, pidfile, run, bounds>>

\* Mutant: removes the pid files without killing the daemons
RestartKeepsDaemons ==
  /\ restarts < MaxRestarts /\ restarts' = restarts + 1 /\ UNCHANGED faults
  /\ pc' = "ssh" /\ stateFile' = FALSE
  /\ keepReply' = "none" /\ keepPid' = "none"
  /\ pidfile' = [d \in Daemons |-> "none"]
  /\ start' = [d \in Daemons |-> "check"]
  /\ UNCHANGED <<conf, run>>

\* The script is killed and started again, or the machine is: the daemons
\* are killed by name, the .vol files are removed, the daemons are started.
Restart ==
  /\ restarts < MaxRestarts /\ restarts' = restarts + 1 /\ UNCHANGED faults
  /\ pc' = "ssh" /\ stateFile' = FALSE
  /\ keepReply' = "none" /\ keepPid' = "none"
  /\ run' = [d \in Daemons |-> 0]
  /\ pidfile' = [d \in Daemons |-> "none"]
  /\ start' = [d \in Daemons |-> "check"]
  /\ UNCHANGED conf

(***************************************************************************)
(* A daemon's start: check_pidfile, then write_pidfile.                    *)
(***************************************************************************)

\* check_pidfile: exit if the process the file names exists.  Of an empty
\* file it reads an uninitialised buffer: either answer.
StartChecks(d) ==
  /\ start[d] = "check"
  /\ \/ pidfile[d] \in {"none", "nobody", "empty"} /\ start' = [start EXCEPT ![d] = "open"]
     \/ pidfile[d] \in {"it", "other", "empty"} /\ start' = [start EXCEPT ![d] = "no"]
  /\ UNCHANGED <<loop, conf, session, pidfile, run, bounds>>

\* write_pidfile opens with O_TRUNC, then writes
StartOpens(d) ==
  /\ start[d] = "open"
  /\ pidfile' = [pidfile EXCEPT ![d] = "empty"]
  /\ start' = [start EXCEPT ![d] = "write"]
  /\ UNCHANGED <<loop, conf, session, run, bounds>>

StartWrites(d) ==
  /\ start[d] = "write"
  /\ pidfile' = [pidfile EXCEPT ![d] = "it"]
  /\ start' = [start EXCEPT ![d] = "no"]
  /\ run' = [run EXCEPT ![d] = @ + 1]
  /\ UNCHANGED <<loop, conf, session, bounds>>

\* the write fails (no space) or the daemon gives up or dies before it
StartFails(d) ==
  /\ start[d] # "no"
  /\ Fault
  /\ start' = [start EXCEPT ![d] = "no"]
  /\ UNCHANGED <<loop, conf, session, pidfile, run>>

DaemonDies(d) ==
  /\ run[d] > 0
  /\ Fault
  /\ run' = [run EXCEPT ![d] = @ - 1]
  /\ pidfile' = [pidfile EXCEPT ![d] = IF @ = "it" THEN "nobody" ELSE @]
  /\ UNCHANGED <<loop, conf, session, start>>

(***************************************************************************)
(* The network, the controller, the clock and the other processes.         *)
(***************************************************************************)
KeepDies ==
  /\ keepPid = "it"
  /\ Fault
  /\ keepPid' = "nobody"
  /\ UNCHANGED <<loop, conf, keepReply, daemons>>

\* the controller prints a reason; the session ends, or hangs on
KickedOut ==
  /\ keepPid = "it" /\ keepReply = "empty"
  /\ Fault
  /\ keepReply' = "text" /\ keepPid' \in {"it", "nobody"}
  /\ UNCHANGED <<loop, conf, daemons>>

RegWaitOver ==
  /\ regWait \/ regConf = "wait"
  /\ regWait' = FALSE
  /\ regConf' = IF regConf = "wait" THEN "over" ELSE regConf
  /\ UNCHANGED <<loop, forceReg, keepConf, conWait, renewed, session, daemons, bounds>>

ConWaitOver ==
  /\ conWait \/ keepConf = "wait"
  /\ conWait' = FALSE /\ renewed' = FALSE
  /\ keepConf' = IF keepConf = "wait" THEN "over" ELSE keepConf
  /\ UNCHANGED <<loop, forceReg, regConf, regWait, session, daemons, bounds>>

\* the time to register again comes
RegExpires ==
  /\ regConf = "valid"
  /\ Fault
  /\ regConf' = "expired"
  /\ UNCHANGED <<loop, forceReg, keepConf, regWait, conWait, renewed, session, daemons>>

\* Another process of the same user gets the process id of a dead one.
\* Assumption of the model: it is not a daemon, nor a session, of the probe.
OtherStarts ==
  /\ Fault
  /\ \/ /\ keepPid = "nobody" /\ keepPid' = "other"
        /\ UNCHANGED <<keepReply, daemons>>
     \/ /\ \E d \in Daemons :
             /\ pidfile[d] = "nobody"
             /\ pidfile' = [pidfile EXCEPT ![d] = "other"]
        /\ UNCHANGED <<session, start, run>>
  /\ UNCHANGED <<loop, conf>>

OtherEnds ==
  /\ \/ /\ keepPid = "other" /\ keepPid' = "nobody"
        /\ UNCHANGED <<keepReply, daemons>>
     \/ /\ \E d \in Daemons :
             /\ pidfile[d] = "other"
             /\ pidfile' = [pidfile EXCEPT ![d] = "nobody"]
        /\ UNCHANGED <<session, start, run>>
  /\ UNCHANGED <<loop, conf, bounds>>

Reginit ==
  \/ ReadConf \/ LowMemory \/ RegFails \/ RegAnswers \/ RegStores \/ Firmware
  \/ ReadKeepConf \/ ConFails \/ ConAnswers \/ ConStores \/ Keep

Turn == CheckSsh \/ CheckKick \/ CheckReg \/ Reginit \/ Sleep \/ CheckDaemons

Starting(d) == StartChecks(d) \/ StartOpens(d) \/ StartWrites(d)

Next ==
  \/ Turn \/ Restart
  \/ \E d \in Daemons : Starting(d) \/ StartFails(d) \/ DaemonDies(d)
  \/ KeepDies \/ KickedOut \/ RegWaitOver \/ ConWaitOver \/ RegExpires
  \/ OtherStarts \/ OtherEnds

Spec == Init /\ [][Next]_vars

\* The script and the daemons run; a wait ends.  Nothing is assumed of
\* failures, which the bound ends, nor of the processes that reuse an id.
FairSpec ==
  /\ Spec
  /\ WF_vars(Turn) /\ \A d \in Daemons : WF_vars(Starting(d))
  /\ WF_vars(RegWaitOver) /\ WF_vars(ConWaitOver)

(***************************************************************************)
(* Properties.                                                             *)
(***************************************************************************)

StatusType ==
  /\ pc \in {"ssh", "kick", "reg", "read", "request", "regconf", "firmware",
             "coninit", "conrequest", "conconf", "keep", "sleep", "check"}
  /\ regConf \in RegConf /\ keepConf \in KeepConf
  /\ keepReply \in {"none", "empty", "text"} /\ keepPid \in PidFile

FlagsType ==
  /\ stateFile \in BOOLEAN /\ forceReg \in BOOLEAN
  /\ regWait \in BOOLEAN /\ conWait \in BOOLEAN /\ renewed \in BOOLEAN

DaemonsType ==
  /\ pidfile \in [Daemons -> PidFile]
  /\ start \in [Daemons -> {"no", "check", "open", "write"}]
  /\ run \in [Daemons -> Nat]

\* Every variable has its type (the status files and pid files of the main
\* loop).
TypeOK == StatusType /\ FlagsType /\ DaemonsType

\* A server that said to wait is left alone until the time is over: reginit.sh
\* sends INIT to the registration server only when no wait is pending or
\* when the registration is forced, and INIT to the controller only when no
\* wait of its is pending or the registration server has answered since.
\* (A registration that is due, because it is forced, REREG_TIMER has expired
\* or the file is lost, removes con_keep_conf.txt, and the controller is then
\* asked before its time is over.)  No failure, truncated file or restart in
\* between makes it forget a wait.
WaitHonoured ==
  /\ pc = "request" => ~regWait \/ forceReg
  /\ pc = "conrequest" => ~conWait \/ renewed

\* At most one instance of a daemon is at work, through deaths, reused ids,
\* failed starts and restarts of the main script (start_perd, start_eperd and
\* start_eooqd with check_pidfile, and kill_perds before the pid files go).
OneInstance == \A d \in Daemons : run[d] <= 1

\* When the failures stop, the probe gets a KEEP session and keeps it: no
\* state file left behind by an exit of reginit.sh, by a restart or by a dead
\* process holds the registration up for good.  A process that has got the id
\* of the session does, for as long as it lives: kill -0 takes it for one.
Reconnects ==
  []<>(keepPid # "other")
    => <>[](keepPid = "it" /\ keepReply = "empty" /\ stateFile)

\* A daemon that died after it had written its pid file is restarted, also
\* when another process has its id, once that one ends; only a start that
\* breaks off between truncating and writing the file, or a restart of the
\* script, is an excuse.
Restarted ==
  \A d \in Daemons :
    []<>(pidfile[d] # "other") =>
      (run[d] = 0 /\ pidfile[d] \in {"nobody", "other"})
        ~> (run[d] = 1 \/ pidfile[d] \in {"none", "empty"})
=============================================================================
