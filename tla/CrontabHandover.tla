-------------------------- MODULE CrontabHandover ---------------------------
(***************************************************************************)
(* How a new crontab gets from telnetd to eperd.                           *)
(*                                                                         *)
(* telnetd (end_crontab) renames the new table to "root" and then tells    *)
(* eperd by writing cron.update; eperd looks for that file once a minute,  *)
(* opens it, unlinks it and only then reads it (CheckUpdates).  Nothing is *)
(* locked: telnetd looks at the link count of what it wrote and tries      *)
(* again when eperd removed the file in between.  Once an hour eperd       *)
(* removes cron.update and reads the table unasked (SynchronizeDir).       *)
(*                                                                         *)
(* Tables are numbered in the order in which they are installed.  Every    *)
(* system call on a shared name is a step of its own.  resolv.conf, which  *)
(* CheckUpdates looks at last, plays no part here.                         *)
(***************************************************************************)
EXTENDS Integers

CONSTANTS MaxInstall,   \* bound: number of tables installed
          MaxFail       \* bound: number of crashes and failed calls

ASSUME CrontabAssumption == MaxInstall \in Nat /\ MaxFail \in Nat

(* At most three files are alive: the named one and one open in each       *)
(* daemon.                                                                 *)
Inodes == 1..3
NoFile == 0

VARIABLES
  root,      \* number of the table that the name "root" stands for
  link,      \* the file that the name cron.update stands for, or NoFile
  written,   \* file -> telnetd has written the update line to it
  tstep,     \* telnetd: "idle", "open", "write" or "fstat"
  tfd,       \* the file telnetd has open
  estep,     \* eperd: "idle", "boot", "unlink", "read" or "sync"
  efd,       \* the file eperd has open
  loaded,    \* number of the table eperd works with
  failed,    \* an end_crontab ended early and eperd has not read "root" since
  fails

notifier == <<tstep, tfd>>
checker == <<estep, efd>>
crontabVars == <<root, link, written, notifier, checker, loaded, failed, fails>>

CrontabInit ==
  /\ root = 0 /\ loaded = 0
  /\ link = NoFile /\ written = [i \in Inodes |-> FALSE]
  /\ tstep = "idle" /\ tfd = NoFile
  /\ estep = "boot" /\ efd = NoFile
  /\ failed = FALSE /\ fails = 0

-----------------------------------------------------------------------------
(* telnetd: end_crontab                                                    *)

(* rename of root.new to root                                              *)
InstallTable ==
  /\ tstep = "idle" /\ root < MaxInstall
  /\ root' = root + 1
  /\ tstep' = "open"
  /\ UNCHANGED <<link, written, tfd, checker, loaded, failed, fails>>

(* open with O_CREAT and O_TRUNC                                           *)
OpenUpdate ==
  /\ tstep = "open"
  /\ tfd' = IF link # NoFile THEN link ELSE CHOOSE i \in Inodes : i # efd
  /\ link' = tfd'
  /\ written' = [written EXCEPT ![tfd'] = FALSE]
  /\ tstep' = "write"
  /\ UNCHANGED <<root, checker, loaded, failed, fails>>

WriteUpdate ==
  /\ tstep = "write"
  /\ written' = [written EXCEPT ![tfd] = TRUE]
  /\ tstep' = "fstat"
  /\ UNCHANGED <<root, link, tfd, checker, loaded, failed, fails>>

(* Mutant: the link count is not looked at.                                *)
FstatIgnored ==
  /\ tstep = "fstat"
  /\ tstep' = "idle"
  /\ tfd' = NoFile
  /\ UNCHANGED <<root, link, written, checker, loaded, failed, fails>>

(* fstat and close; a file without a name has to be written again.         *)
FstatUpdate ==
  /\ tstep = "fstat"
  /\ tstep' = IF link = tfd THEN "idle" ELSE "open"
  /\ tfd' = NoFile
  /\ UNCHANGED <<root, link, written, checker, loaded, failed, fails>>

(* A call fails and an error is sent, or telnetd is killed.                *)
EndsEarly ==
  /\ tstep # "idle" /\ fails < MaxFail
  /\ fails' = fails + 1
  /\ failed' = TRUE
  /\ tstep' = "idle" /\ tfd' = NoFile
  /\ UNCHANGED <<root, link, written, checker, loaded>>

-----------------------------------------------------------------------------
(* eperd                                                                   *)

(* CheckUpdates, every minute                                              *)
OpenNotice ==
  /\ estep = "idle" /\ link # NoFile
  /\ efd' = link
  /\ estep' = "unlink"
  /\ UNCHANGED <<root, link, written, notifier, loaded, failed, fails>>

UnlinkNotice ==
  /\ estep = "unlink"
  /\ link' = NoFile
  /\ estep' = "read"
  /\ UNCHANGED <<root, written, notifier, efd, loaded, failed, fails>>

(* fgets returns the line, or nothing if it has not been written yet.      *)
ReadNotice ==
  /\ estep = "read"
  /\ estep' = IF written[efd] THEN "sync" ELSE "idle"
  /\ efd' = NoFile
  /\ UNCHANGED <<root, link, written, notifier, loaded, failed, fails>>

(* SynchronizeFile("root") reads the table that has the name now.          *)
SynchronizeFile ==
  /\ estep = "sync"
  /\ loaded' = root
  /\ failed' = FALSE
  /\ estep' = "idle"
  /\ UNCHANGED <<root, link, written, notifier, efd, fails>>

(* Mutant: the hourly timer only removes the notice.                       *)
UnlinkOnly ==
  /\ estep \in {"idle", "boot"}
  /\ link' = NoFile
  /\ estep' = "idle"
  /\ UNCHANGED <<root, written, notifier, efd, loaded, failed, fails>>

(* SynchronizeDir, at the start and every hour, removes any notice first.  *)
SynchronizeDir ==
  /\ estep \in {"idle", "boot"}
  /\ link' = NoFile
  /\ estep' = "sync"
  /\ UNCHANGED <<root, written, notifier, efd, loaded, failed, fails>>

EperdRestart ==
  /\ estep # "boot" /\ fails < MaxFail
  /\ fails' = fails + 1
  /\ estep' = "boot" /\ efd' = NoFile
  /\ UNCHANGED <<root, link, written, notifier, loaded, failed>>

Announce == OpenUpdate \/ WriteUpdate \/ FstatUpdate
CheckUpdates == OpenNotice \/ UnlinkNotice \/ ReadNotice \/ SynchronizeFile
CrontabNext ==
  \/ InstallTable \/ Announce \/ EndsEarly
  \/ CheckUpdates \/ SynchronizeDir \/ EperdRestart

CrontabSpec == CrontabInit /\ [][CrontabNext]_crontabVars

(* Each daemon finishes what it has begun, and the minute timer fires.     *)
CrontabFairness ==
  /\ WF_crontabVars(Announce)
  /\ WF_crontabVars(CheckUpdates)
  /\ WF_crontabVars(estep = "boot" /\ SynchronizeDir)
CrontabFairSpec == CrontabSpec /\ CrontabFairness

(* The hourly timer, too, is served between runs of the minute timer.      *)
HourlyFairness == SF_crontabVars(SynchronizeDir)

-----------------------------------------------------------------------------
(* Every variable has its type, and a descriptor is open exactly between   *)
(* the calls that open and close it: no path of either daemon leaks one.   *)
CrontabTypeOK ==
  /\ root \in 0..MaxInstall /\ loaded \in 0..root
  /\ link \in Inodes \cup {NoFile}
  /\ written \in [Inodes -> BOOLEAN]
  /\ tstep \in {"idle", "open", "write", "fstat"}
  /\ tfd \in Inodes \cup {NoFile}
  /\ estep \in {"idle", "boot", "unlink", "read", "sync"}
  /\ efd \in Inodes \cup {NoFile}
  /\ tfd # NoFile <=> tstep \in {"write", "fstat"}
  /\ efd # NoFile <=> estep \in {"unlink", "read"}
  /\ failed \in BOOLEAN
  /\ fails \in 0..MaxFail

(* A notice that eperd will act on is under way.                           *)
Noticed ==
  \/ link # NoFile /\ written[link] /\ estep # "unlink"
  \/ estep \in {"unlink", "read"} /\ written[efd]
  \/ estep \in {"boot", "sync"}

(* Whenever end_crontab has ended without an error, eperd works with the   *)
(* installed table or is going to be told: the unlink in CheckUpdates and  *)
(* the write in end_crontab never cancel each other.                       *)
NoUpdateLost == tstep = "idle" /\ ~failed /\ loaded # root => Noticed

(* Without errors the minute timer is enough for every table to be loaded, *)
(* provided that the loop in end_crontab ends (each turn of it takes one   *)
(* run of a timer that fires once a minute).                               *)
NoticeSuffices ==
  ([]~failed /\ []<>(tstep = "idle")) => \A v \in 1..MaxInstall : (root = v) ~> (loaded >= v)

(* With errors, or telnetd killed between the rename and the notice, the   *)
(* hourly synchronisation still brings the table to eperd.                 *)
HourlyRepairs ==
  HourlyFairness => \A v \in 1..MaxInstall : (root = v) ~> (loaded >= v)
=============================================================================
