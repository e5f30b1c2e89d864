------------------------------- MODULE Eooqd --------------------------------
(***************************************************************************)
(* The one-off queue daemon: from a command line in the queue file to a    *)
(* result the controller has received.                                     *)
(*                                                                         *)
(* eooqd is one libevent thread.  Three kinds of event reach it: the 1 s   *)
(* timer (checkQueue), the 60 s timer (re_post) and the callbacks of the   *)
(* measurements it runs, the last of which calls cmddone.  pc says where   *)
(* the thread is; the steps between two returns to the event loop cannot   *)
(* be interleaved with other events, but the process can be killed after   *)
(* any of them and is then restarted with empty memory and the same files. *)
(*                                                                         *)
(* Line l of everything ever queued is the number l and Kind[l] says what  *)
(* add_line finds in it.  How lines get into the queue file is the subject *)
(* of OneoffHandover; here lines end+1 .. queued are in the queue file and *)
(* next .. end are those of curr_file that fgets has still to return.      *)
(*                                                                         *)
(* data/new/ooq.<i> and data/out/ooq/<i> are file i of newf and outf; the  *)
(* files of error reports (new/ooq and out/ooq/ooq) are file OOQ of each.  *)
(* File RES, out/ooq/ooq.out, takes the records of loads of resolv.conf:   *)
(* no property follows these, so only that the file is there is modelled.  *)
(* The size of a file is the number of its results, and 1 for RES.         *)
(***************************************************************************)
EXTENDS Integers, FiniteSets

CONSTANTS
  MaxBusy,     \* number of slots (max_busy, 10 in the program)
  MaxLine,     \* bound: number of lines ever queued
  Kind,        \* line -> "cmd", "bad", "post", "barrier" or "reload"
  Stuck,       \* commands whose test is still busy when it calls done
  Rounds,      \* attempts of one post_results (5 in the program)
  MaxPost,     \* the limit of httppost on the size of a post
  Frame,       \* how much of it header and footer take
  QueueIdEmpty,\* no -q option: cmddone and post_results agree on the path
  MaxCrash     \* bound: how often the process is killed

Lines == 1..MaxLine
Slots == 0..(MaxBusy - 1)
OOQ == MaxBusy
RES == MaxBusy + 1
Files == 0..RES
NULL == 0

ASSUME ConstantsAssumption ==
  /\ MaxBusy \in Nat \ {0}
  /\ MaxLine \in Nat
  /\ Kind \in [Lines -> {"cmd", "bad", "post", "barrier", "reload"}]
  /\ Stuck \subseteq Lines
  /\ Rounds \in Nat \ {0}
  /\ MaxPost \in Nat /\ Frame \in Nat
  /\ QueueIdEmpty \in BOOLEAN
  /\ MaxCrash \in Nat

VARIABLES
  pc,          \* "loop", "lines", "start", "done", "post", "list", "send", "unlink"
  ret,         \* where post_results and cmddone return to
  cur,         \* slot whose start operation or done callback is running
  queued, end, next, open,        \* the queue file and curr_file
  slots, currBusy, currIndex,     \* slot -> line of its command or NULL
  running,     \* lines whose test has not called done yet
  barrier,     \* line of the pending barrier command or NULL
  newf, outf,  \* the files: [has: names present, data: name -> results]
  force, round,                   \* of post_results
  doomed,      \* files listed by httppost, deleted once they are received
  serverUp,    \* the controller is reachable and replies "OK"
  resolv,      \* resolv.conf: "unread" since the start, "changed", "loaded"
  started,     \* history: line -> how often its command was started
  passed,      \* history: barrier lines whose file was created
  reported,    \* history: lines whose result was written to a file
  posted,      \* history: results the controller has received
  given,       \* history: results in files deleted as too big to be sent
  lost,        \* history: lines dropped by a crash or an error in reading
  crashes

queue == <<queued, end, next, open>>
table == <<slots, currBusy, currIndex, running>>
posting == <<force, round, doomed>>
history == <<started, passed, reported, posted, given, lost>>
env == <<serverUp, resolv, crashes>>
vars == <<pc, ret, cur, queue, table, barrier, newf, outf, posting, env, history>>

NoFiles == [has |-> {}, data |-> [f \in Files |-> {}]]

Init ==
  /\ pc = "loop" /\ ret = "loop" /\ cur = 0
  /\ queued = 0 /\ end = 0 /\ next = 1 /\ open = FALSE
  /\ slots = [s \in Slots |-> NULL] /\ currBusy = 0 /\ currIndex = 0
  /\ running = {}
  /\ barrier = NULL
  /\ newf = NoFiles /\ outf = NoFiles
  /\ force = FALSE /\ round = 0 /\ doomed = {}
  /\ serverUp = TRUE /\ resolv = "unread"
  /\ started = [l \in Lines |-> 0]
  /\ passed = {} /\ reported = {} /\ posted = {}
  /\ given = {} /\ lost = {}
  /\ crashes = 0

-----------------------------------------------------------------------------
(* Files                                                                   *)

AppendTo(fs, f, l) == [has |-> fs.has \cup {f},
                       data |-> [fs.data EXCEPT ![f] = @ \cup {l}]]

(* Mutant: the move does not look whether the target is still there.       *)
MovableAlways(S, new, out) == {f \in S : f \in new.has}

(* rename from newf to outf, for the files in S that outf does not have.   *)
Movable(S, new, out) == {f \in S : f \in new.has /\ f \notin out.has}

NewAfterMove(S, new, out) ==
  [has |-> new.has \ Movable(S, new, out),
   data |-> [f \in Files |-> IF f \in Movable(S, new, out) THEN {} ELSE new.data[f]]]

OutAfterMove(S, new, out) ==
  [has |-> out.has \cup Movable(S, new, out),
   data |-> [f \in Files |-> IF f \in Movable(S, new, out) THEN new.data[f]
                             ELSE out.data[f]]]

MoveResults(S, new) ==
  /\ newf' = NewAfterMove(S, new, outf)
  /\ outf' = OutAfterMove(S, new, outf)

(* Calling post_results; it returns to r.                                  *)
CallPostResults(forcePost, r) ==
  /\ pc' = "post"
  /\ ret' = r
  /\ force' = forcePost
  /\ round' = 0
  /\ UNCHANGED doomed

(* Its return, where its local variables end.                              *)
PostReturns ==
  /\ pc' = ret
  /\ ret' = "loop" /\ force' = FALSE /\ round' = 0 /\ doomed' = {}

-----------------------------------------------------------------------------
(* The environment                                                         *)

(* The controller queues another line (by way of telnetd).                 *)
Enqueue ==
  /\ queued < MaxLine
  /\ queued' = queued + 1
  /\ UNCHANGED <<pc, ret, cur, end, next, open, table, barrier, newf, outf,
                 posting, env, history>>

ServerChange ==
  /\ serverUp' = ~serverUp
  /\ UNCHANGED <<pc, ret, cur, queue, table, barrier, newf, outf, posting,
                 resolv, crashes, history>>

ResolvConfChange ==
  /\ resolv = "loaded"
  /\ resolv' = "changed"
  /\ UNCHANGED <<pc, ret, cur, queue, table, barrier, newf, outf, posting,
                 serverUp, crashes, history>>

-----------------------------------------------------------------------------
(* checkQueue, up to its loop                                              *)

(* Mutant: the queue file is not moved out of the way, so the lines taken  *)
(* before come again.                                                      *)
OpenQueueAgain ==
  /\ pc = "loop" /\ ~open /\ queued > end
  /\ end' = queued
  /\ open' = TRUE
  /\ next' = 1
  /\ pc' = "lines"
  /\ UNCHANGED <<ret, cur, queued, table, barrier, newf, outf, posting, env,
                 history>>

(* Without an open file the queue file is taken, if there is one; fopen of *)
(* the renamed file may still fail.                                        *)
OpenQueue ==
  /\ pc = "loop" /\ ~open /\ queued > end
  /\ end' = queued
  /\ \/ /\ open' = TRUE
        /\ next' = end + 1
        /\ pc' = "lines"
        /\ UNCHANGED lost
     \/ /\ next' = queued + 1
        /\ lost' = lost \cup (end + 1)..queued
        /\ UNCHANGED <<pc, open>>
  /\ UNCHANGED <<ret, cur, queued, table, barrier, newf, outf, posting, env,
                 started, passed, reported, posted, given>>

ResumeQueue ==
  /\ pc = "loop" /\ open
  /\ pc' = "lines"
  /\ UNCHANGED <<ret, cur, queue, table, barrier, newf, outf, posting, env,
                 history>>

(* check_resolv_conf2: the name servers are loaded again when resolv.conf  *)
(* has changed and a record is written of it, or of the first load if it   *)
(* failed.  Without resolv.conf nothing is done.                           *)
CheckResolvConf ==
  /\ \/ resolv # "loaded" /\ resolv' = "loaded"
        /\ outf' = [outf EXCEPT !.has = @ \cup {RES}]
     \/ resolv = "unread" /\ resolv' = "loaded" /\ UNCHANGED outf
     \/ UNCHANGED <<resolv, outf>>
  /\ UNCHANGED <<serverUp, crashes>>

(* The loop ends when the file is exhausted or every slot is taken; the    *)
(* last thing checkQueue does is to look at resolv.conf.                   *)
InLoop == pc = "lines" /\ open /\ currBusy < MaxBusy

LoopEnds ==
  /\ pc = "lines" /\ ~InLoop
  /\ pc' = "loop"
  /\ CheckResolvConf
  /\ UNCHANGED <<ret, cur, queue, table, barrier, newf, posting, history>>

-----------------------------------------------------------------------------
(* add_line                                                                *)

(* A barrier waits for the running commands ...                            *)
BarrierWait ==
  /\ InLoop /\ barrier # NULL /\ currBusy > 0
  /\ pc' = "loop"
  /\ CheckResolvConf
  /\ UNCHANGED <<ret, cur, queue, table, barrier, newf, posting, history>>

(* Mutant: the barrier does not wait for the running commands.             *)
BarrierHasty ==
  /\ InLoop /\ barrier # NULL
  /\ passed' = passed \cup {barrier}
  /\ barrier' = NULL
  /\ UNCHANGED <<pc, ret, cur, queue, table, newf, outf, posting, env,
                 started, reported, posted, given, lost>>

(* ... and its file is created when there are none.                        *)
BarrierCreate ==
  /\ InLoop /\ barrier # NULL /\ currBusy = 0
  /\ passed' = passed \cup {barrier}
  /\ barrier' = NULL
  /\ UNCHANGED <<pc, ret, cur, queue, table, newf, outf, posting, env,
                 started, reported, posted, given, lost>>

(* Mutant: a file at its end stays open.                                   *)
EndOfFileStaysOpen ==
  /\ InLoop /\ barrier = NULL /\ next > end
  /\ pc' = "loop"
  /\ UNCHANGED <<ret, cur, queue, table, barrier, newf, outf, posting, env,
                 history>>

(* fgets: at the end of the file, or at an error with the rest of it       *)
(* unread, curr_file is closed.                                            *)
EndOfFile ==
  /\ InLoop /\ barrier = NULL
  /\ open' = FALSE
  /\ next' = end + 1
  /\ lost' = lost \cup next..end
  /\ UNCHANGED <<pc, ret, cur, queued, end, table, barrier, newf, outf,
                 posting, env, started, passed, reported, posted, given>>

NextLine(kind) ==
  /\ InLoop /\ barrier = NULL /\ next <= end
  /\ Kind[next] = kind
  /\ next' = next + 1
  /\ UNCHANGED <<queued, end, open>>

ReadPost ==
  /\ NextLine("post")
  /\ CallPostResults(TRUE, "lines")
  /\ UNCHANGED <<cur, table, barrier, newf, outf, env, history>>

ReadBarrier ==
  /\ NextLine("barrier")
  /\ barrier' = next
  /\ UNCHANGED <<pc, ret, cur, table, newf, outf, posting, env, history>>

ReadReload ==
  /\ NextLine("reload")
  /\ CheckResolvConf
  /\ UNCHANGED <<pc, ret, cur, table, barrier, newf, posting, history>>

(* A line that is no command, cannot be split or that init refuses: an     *)
(* error report is written, moved and posted.                              *)
ReadBad ==
  /\ NextLine("bad")
  /\ MoveResults({OOQ}, AppendTo(newf, OOQ, next))
  /\ reported' = reported \cup {next}
  /\ CallPostResults(FALSE, "lines")
  /\ UNCHANGED <<cur, table, barrier, env, started, passed, posted, given, lost>>

(* The slots are probed from the one after the last used.                  *)
Probe(skip) == (currIndex + skip) % MaxBusy

FirstFree(s) ==
  \E skip \in 1..MaxBusy :
     /\ s = Probe(skip)
     /\ slots[s] = NULL
     /\ \A k \in 1..(skip - 1) : slots[Probe(k)] # NULL

(* The test is initialised (most create their empty output file then), put *)
(* in the table and started.                                               *)
ReadCommand ==
  /\ NextLine("cmd")
  /\ \E s \in Slots :
       /\ FirstFree(s)
       /\ slots' = [slots EXCEPT ![s] = next]
       /\ currIndex' = s
       /\ cur' = s
       /\ newf' \in {newf, [newf EXCEPT !.has = @ \cup {s}]}
  /\ currBusy' = currBusy + 1
  /\ running' = running \cup {next}
  /\ started' = [started EXCEPT ![next] = @ + 1]
  /\ pc' = "start"
  /\ UNCHANGED <<ret, barrier, outf, posting, env, passed, reported, posted,
                 given, lost>>

-----------------------------------------------------------------------------
(* The end of a command                                                    *)

(* The test in slot s writes its result and calls done; a test that is     *)
(* still busy then has not written one.                                    *)
Report(s, r) ==
  LET line == slots[s]
  IN /\ IF line \in Stuck
        THEN UNCHANGED <<newf, reported>>
        ELSE newf' = AppendTo(newf, s, line) /\ reported' = reported \cup {line}
     /\ running' = running \ {line}
     /\ cur' = s
     /\ ret' = r
     /\ pc' = "done"
     /\ UNCHANGED <<queue, slots, currBusy, currIndex, barrier, outf, posting,
                    env, started, passed, posted, given, lost>>

(* It does so in one of its own callbacks ...                              *)
Finish(s) ==
  /\ pc = "loop" /\ slots[s] \in running
  /\ Report(s, "loop")

(* ... or, when it fails at once, while start is still on the stack.       *)
FailsInStart ==
  /\ pc = "start"
  /\ Report(cur, "lines")

(* Mutant: the slot is freed and the busy count stays.                     *)
CmdDoneLeaks ==
  /\ pc = "done"
  /\ slots' = [slots EXCEPT ![cur] = NULL]
  /\ MoveResults({cur}, newf)
  /\ PostReturns
  /\ cur' = 0
  /\ UNCHANGED <<queue, currBusy, currIndex, running, barrier, env, history>>

(* The slot is freed unless delete returned 0, the output file is moved    *)
(* and, when nothing runs any more, the results are posted.                *)
CmdDone ==
  /\ pc = "done"
  /\ IF slots[cur] \in Stuck
     THEN UNCHANGED <<slots, currBusy>>
     ELSE slots' = [slots EXCEPT ![cur] = NULL] /\ currBusy' = currBusy - 1
  /\ MoveResults(IF QueueIdEmpty THEN {cur} ELSE {}, newf)
  /\ IF currBusy' = 0
     THEN CallPostResults(FALSE, ret)
     ELSE PostReturns
  /\ cur' = 0
  /\ UNCHANGED <<queue, currIndex, running, barrier, env, history>>

StartReturns ==
  /\ pc = "start"
  /\ pc' = "lines"
  /\ cur' = 0
  /\ UNCHANGED <<ret, queue, table, barrier, newf, outf, posting, env,
                 history>>

-----------------------------------------------------------------------------
(* post_results                                                            *)

RePost ==
  /\ pc = "loop"
  /\ CallPostResults(FALSE, "loop")
  /\ UNCHANGED <<cur, queue, table, barrier, newf, outf, env, history>>

(* The files post_results looks for: RES is not one of them.               *)
Watched == Files \ {RES}

(* Mutant: only what is already in data/out is posted.                     *)
GatherOnlyOut ==
  /\ pc = "post" /\ round < Rounds
  /\ IF force \/ Watched \cap outf.has # {}
     THEN pc' = "list" /\ force' = FALSE /\ UNCHANGED <<ret, round, doomed>>
     ELSE PostReturns
  /\ UNCHANGED <<newf, outf, cur, queue, table, barrier, env, history>>

(* Move what has been left behind and see whether there is anything to do. *)
Gather ==
  /\ pc = "post" /\ round < Rounds
  /\ MoveResults(Watched, newf)
  /\ IF force \/ Watched \cap outf'.has # {}
     THEN pc' = "list" /\ force' = FALSE /\ UNCHANGED <<ret, round, doomed>>
     ELSE PostReturns
  /\ UNCHANGED <<cur, queue, table, barrier, env, history>>

RoundsOver ==
  /\ pc = "post" /\ round = Rounds
  /\ PostReturns
  /\ UNCHANGED <<cur, queue, table, barrier, newf, outf, env, history>>

(* There is no session to post to, or httppost cannot read what it needs.  *)
NoPost ==
  /\ pc = "list" /\ ~serverUp
  /\ PostReturns
  /\ UNCHANGED <<cur, queue, table, barrier, newf, outf, env, history>>

ResultsIn(S) == UNION {outf.data[f] : f \in S}
SizeOf(S) == Cardinality(ResultsIn(S)) + Cardinality(S \cap {RES})
Fits(S) == Frame + SizeOf(S) <= MaxPost

(* do_dir goes through the directory, in any order, and lists a file if it *)
(* fits behind those listed before it: in the end none of the others does. *)
ListFiles ==
  /\ pc = "list" /\ pc' = "send"
  /\ \E S \in SUBSET outf.has :
       /\ S = {} \/ Fits(S)
       /\ \A f \in outf.has \ S : ~Fits(S \cup {f})
       /\ doomed' = S
  /\ UNCHANGED <<ret, cur, queue, table, barrier, newf, outf, force, round,
                 env, history>>

(* A file that is not listed and takes more than half of a post is deleted *)
(* before anything is sent.                                                *)
TooBig == {f \in outf.has \ doomed : SizeOf({f}) > MaxPost \div 2}

Without(f) == [has |-> outf.has \ {f}, data |-> [outf.data EXCEPT ![f] = {}]]

DropFile ==
  /\ pc = "send"
  /\ \E f \in TooBig :
       /\ outf' = Without(f)
       /\ given' = given \cup outf.data[f]
  /\ UNCHANGED <<pc, ret, cur, queue, table, barrier, newf, posting, env,
                 started, passed, reported, posted, lost>>

(* httppost sent what it listed and read "OK".                             *)
SendOk ==
  /\ pc = "send" /\ TooBig = {} /\ serverUp
  /\ posted' = posted \cup ResultsIn(doomed)
  /\ pc' = "unlink"
  /\ UNCHANGED <<ret, cur, queue, table, barrier, newf, outf, posting, env,
                 started, passed, reported, given, lost>>

(* The reply was not "OK": httppost returns 0 and nothing is deleted.      *)
SendNotOk ==
  /\ pc = "send" /\ TooBig = {} /\ ~serverUp
  /\ posted' \in {posted, posted \cup ResultsIn(doomed)}
  /\ doomed' = {}
  /\ round' = round + 1
  /\ pc' = "post"
  /\ UNCHANGED <<ret, cur, queue, table, barrier, newf, outf, force, env,
                 started, passed, reported, given, lost>>

(* httppost failed, before or after the data got through.                  *)
SendFails ==
  /\ pc = "send" /\ TooBig = {} /\ ~serverUp
  /\ posted' \in {posted, posted \cup ResultsIn(doomed)}
  /\ PostReturns
  /\ UNCHANGED <<cur, queue, table, barrier, newf, outf, env, started, passed,
                 reported, given, lost>>

UnlinkOne ==
  /\ pc = "unlink"
  /\ \E f \in doomed :
       /\ doomed' = doomed \ {f}
       /\ outf' = Without(f)
  /\ UNCHANGED <<pc, ret, cur, queue, table, barrier, newf, force, round, env,
                 history>>

UnlinkDone ==
  /\ pc = "unlink" /\ doomed = {}
  /\ round' = round + 1
  /\ pc' = "post"
  /\ UNCHANGED <<ret, cur, queue, table, barrier, newf, outf, force, doomed,
                 env, history>>

-----------------------------------------------------------------------------
(* The process is killed and started again: eooqd_main begins with zeroed  *)
(* state, so the rest of curr_file and the running commands are gone.      *)
Crash ==
  /\ crashes < MaxCrash
  /\ crashes' = crashes + 1
  /\ lost' = lost \cup next..end \cup running
                  \cup (IF barrier = NULL THEN {} ELSE {barrier})
  /\ pc' = "loop" /\ ret' = "loop" /\ cur' = 0
  /\ open' = FALSE /\ next' = end + 1
  /\ slots' = [s \in Slots |-> NULL] /\ currBusy' = 0 /\ currIndex' = 0
  /\ running' = {}
  /\ barrier' = NULL
  /\ force' = FALSE /\ round' = 0 /\ doomed' = {}
  /\ resolv' = "unread"
  /\ UNCHANGED <<queued, end, newf, outf, serverUp, started, passed, reported,
                 posted, given>>

CheckQueue == OpenQueue \/ ResumeQueue
AddLine ==
  \/ BarrierWait \/ BarrierCreate \/ EndOfFile \/ ReadPost \/ ReadBarrier
  \/ ReadReload \/ ReadBad \/ ReadCommand
HttpPost == ListFiles \/ DropFile \/ SendOk \/ SendNotOk \/ SendFails \/ UnlinkOne
PostResults == Gather \/ RoundsOver \/ NoPost \/ HttpPost \/ UnlinkDone
Thread == LoopEnds \/ AddLine \/ FailsInStart \/ StartReturns \/ CmdDone \/ PostResults

Next ==
  \/ Enqueue \/ ServerChange \/ ResolvConfChange
  \/ CheckQueue \/ RePost \/ (\E s \in Slots : Finish(s))
  \/ Thread \/ Crash

(* libevent serves every timer and callback that is due, in the order in   *)
(* which they become due, and a handler runs to its end; every measurement *)
(* ends by its own timeouts.                                               *)
Fairness ==
  /\ WF_vars(Thread)
  /\ SF_vars(CheckQueue)
  /\ SF_vars(RePost)
  /\ \A s \in Slots : SF_vars(Finish(s))

Spec == Init /\ [][Next]_vars
FairSpec == Spec /\ Fairness

-----------------------------------------------------------------------------
FilesType == [has : SUBSET Files, data : [Files -> SUBSET Lines]]

ControlType ==
  /\ pc \in {"loop", "lines", "start", "done", "post", "list", "send", "unlink"}
  /\ ret \in {"loop", "lines"}
  /\ cur \in Slots
  /\ round \in 0..Rounds /\ doomed \subseteq Files
  /\ crashes \in 0..MaxCrash

FlagsType ==
  /\ open \in BOOLEAN /\ force \in BOOLEAN
  /\ serverUp \in BOOLEAN /\ resolv \in {"unread", "changed", "loaded"}

QueueType ==
  /\ queued \in 0..MaxLine /\ end \in 0..queued /\ next \in 1..(end + 1)
  /\ barrier \in Lines \cup {NULL}

TableType ==
  /\ slots \in [Slots -> Lines \cup {NULL}]
  /\ currBusy \in 0..MaxBusy /\ currIndex \in Slots
  /\ running \subseteq Lines

HistoryType ==
  /\ started \in [Lines -> Nat]
  /\ passed \subseteq Lines /\ reported \subseteq Lines
  /\ posted \subseteq Lines /\ given \subseteq Lines /\ lost \subseteq Lines

(* Every variable has its type; in particular the busy count and the       *)
(* number of post attempts stay within their limits.                       *)
TypeOK ==
  /\ ControlType /\ FlagsType /\ QueueType /\ TableType /\ HistoryType
  /\ newf \in FilesType /\ outf \in FilesType

(* Whenever the loop of checkQueue lets add_line look for a slot there is  *)
(* one: add_line never dies with "no empty slot?", not even after tests    *)
(* that refused delete, and the busy count is the number of slots in use.  *)
SlotAvailable ==
  /\ InLoop => \E s \in Slots : FirstFree(s)
  /\ currBusy = Cardinality({s \in Slots : slots[s] # NULL})

(* No command is run twice, whatever files and crashes do ("at most once   *)
(* behavior", checkQueue).                                                 *)
StartedAtMostOnce == \A l \in Lines : started[l] <= 1

(* When the file of a barrier appears, every command before it has ended   *)
(* and no command after it has been started.                               *)
BarrierSeparates ==
  [][\A b \in passed' \ passed :
        /\ running = {}
        /\ \A l \in Lines : l > b => started[l] = 0]_vars

InFile(l, fs) == \E f \in fs.has : l \in fs.data[f]

(* A result that was written is in a file of data/new or data/out, has     *)
(* been received, or was in a file that do_dir deleted because it is too   *)
(* big for a post: no rename replaces a result and no other unlink removes *)
(* one that the controller does not have, across crashes, failed posts and *)
(* files that are left for a later post.                                   *)
NoResultLost ==
  \A l \in reported :
     l \in posted \/ l \in given \/ InFile(l, newf) \/ InFile(l, outf)

(* Once the controller stays reachable, every result gets there unless its *)
(* file is too big for a post, also the ones left in data/new behind an    *)
(* output file that was still there and the ones do_dir passes over.       *)
ResultsDelivered ==
  <>[]serverUp => \A l \in Lines : (l \in reported) ~> (l \in posted \/ l \in given)

(* Every queued line is consumed, also behind full slots, and a barrier is *)
(* passed in the end unless the daemon is killed first.                    *)
QueueDrains ==
  \A l \in Lines : (l <= queued) ~> (l < next /\ barrier # l)

(* The daemon implements the service that OneoffService describes.         *)
statusOf ==
  [l \in Lines |-> CASE l \in running -> "running"
                     [] l = barrier -> "pending"
                     [] l \in lost -> "gone"
                     [] l >= next -> "waiting"
                     [] OTHER -> "done"]

Service == INSTANCE OneoffService
             WITH status <- statusOf, results <- reported, delivered <- posted,
                  Silent <- Stuck

ImplementsService == Service!Spec
=============================================================================
