--------------------------- MODULE OneoffHandover ---------------------------
(***************************************************************************)
(* How one-off measurement commands travel from telnetd to eooqd.          *)
(*                                                                         *)
(* Two processes share three names in the crons directory without a lock:  *)
(*   "q"     the queue file                 (eooqd.c: queue_file)          *)
(*   "new"   the queue file grabbed by telnetd    (telnetd.c: ".new")      *)
(*   "curr"  the queue file taken by eooqd  (eooqd.c: curr_qfile, ".curr") *)
(* telnetd grabs "q" by renaming it, appends one line and renames it back  *)
(* (do_oneoff); eooqd stats "q", unlinks "curr", renames "q" to "curr" and *)
(* reads it to the end (checkQueue, add_line).  Every system call is a     *)
(* step, and either process may die between two of them.                   *)
(*                                                                         *)
(* Lines are numbered in the order in which telnetd is asked to queue      *)
(* them.  A file only ever grows by the line with the highest number, so   *)
(* its contents are the set of its lines and fgets returns the smallest.   *)
(***************************************************************************)
EXTENDS Integers

CONSTANTS
  MaxLine,     \* bound: how many ONEOFF commands the controller sends
  MaxCrash     \* bound: how many times a process is killed and restarted

ASSUME OneoffAssumption == MaxLine \in Nat /\ MaxCrash \in Nat

Lines == 1..MaxLine
Names == {"q", "new", "curr"}

VARIABLES
  exists,      \* the names present in the directory
  lines,       \* name -> lines of the file with that name
  torn,        \* the names of files that end in a part of a line
  tpc,         \* telnetd, inside do_oneoff: the system call it does next
  asked,       \* number of ONEOFF commands telnetd was given
  epc,         \* eooqd, inside checkQueue: the system call it does next
  unread,      \* lines eooqd has not yet read from curr_file
  accepted,    \* history: lines telnetd sent no error for
  unsaved,     \* history: those of them whose text is not in the file
  read,        \* history: line -> how often eooqd read it
  lost,        \* history: lines gone because eooqd could not read them
  crashes

oneoffVars == <<exists, lines, torn, tpc, asked, epc, unread, accepted, unsaved, read, lost,
                crashes>>
tvars == <<tpc, asked, accepted, unsaved>>
evars == <<epc, unread, read, lost>>
qfiles == <<exists, lines, torn>>

OneoffInit ==
  /\ exists = {}
  /\ lines = [n \in Names |-> {}]
  /\ torn = {}
  /\ tpc = "idle"
  /\ asked = 0
  /\ epc = "idle"
  /\ unread = {}
  /\ accepted = {} /\ unsaved = {}
  /\ read = [l \in Lines |-> 0]
  /\ lost = {}
  /\ crashes = 0

(* rename(2): replaces the target, does nothing when the source is gone.   *)
Rename(from, to) ==
  IF from \in exists
  THEN /\ exists' = (exists \ {from}) \cup {to}
       /\ lines' = [lines EXCEPT ![to] = lines[from], ![from] = {}]
       /\ torn' = (torn \ {from, to}) \cup IF from \in torn THEN {to} ELSE {}
  ELSE UNCHANGED qfiles

Unlink(n) ==
  /\ exists' = exists \ {n}
  /\ lines' = [lines EXCEPT ![n] = {}]
  /\ torn' = torn \ {n}

(* The lines eooqd has taken and not yet read.                             *)
Taken == IF epc = "open" THEN lines["curr"] ELSE unread

-----------------------------------------------------------------------------
(* telnetd: do_oneoff                                                      *)

(* Mutant: the existing queue file is not grabbed before appending.        *)
GrabWithoutRename ==
  /\ tpc = "idle"
  /\ asked < MaxLine
  /\ asked' = asked + 1
  /\ tpc' = "append"
  /\ UNCHANGED <<qfiles, accepted, unsaved, evars, crashes>>

(* A command arrives; the queue file is grabbed if there is one.           *)
Grab ==
  /\ tpc = "idle"
  /\ asked < MaxLine
  /\ asked' = asked + 1
  /\ tpc' = "append"
  /\ Rename("q", "new")
  /\ UNCHANGED <<accepted, unsaved, evars, crashes>>

(* fopen(new, "a") and fprintf, which leaves the text in the buffer, then  *)
(* fclose, whose result nobody looks at: on a full disk it writes nothing  *)
(* or a part of the line.  The line after such a part is fused with it.    *)
AppendLine ==
  /\ tpc = "append"
  /\ tpc' = "back"
  /\ exists' = exists \cup {"new"}
  /\ accepted' = accepted \cup {asked}
  /\ \/ /\ "new" \notin torn
        /\ lines' = [lines EXCEPT !["new"] = @ \cup {asked}]
        /\ UNCHANGED <<torn, unsaved>>
     \/ /\ \/ "new" \in torn /\ torn' = torn \ {"new"}
           \/ UNCHANGED torn
           \/ torn' = torn \cup {"new"}
        /\ unsaved' = unsaved \cup {asked}
        /\ UNCHANGED lines
  /\ UNCHANGED <<asked, evars, crashes>>

(* When fopen or fprintf fails the command is refused and do_oneoff        *)
(* returns without the second rename.                                      *)
AppendFails ==
  /\ tpc = "append"
  /\ tpc' = "idle"
  /\ \/ UNCHANGED <<exists, torn>>
     \/ exists' = exists \cup {"new"} /\ torn' \in {torn, torn \cup {"new"}}
  /\ UNCHANGED <<lines, asked, accepted, unsaved, evars, crashes>>

RenameBack ==
  /\ tpc = "back"
  /\ tpc' = "idle"
  /\ Rename("new", "q")
  /\ UNCHANGED <<asked, accepted, unsaved, evars, crashes>>

TelnetdCrash ==
  /\ tpc # "idle"
  /\ crashes < MaxCrash
  /\ crashes' = crashes + 1
  /\ tpc' = "idle"
  /\ UNCHANGED <<qfiles, asked, accepted, unsaved, evars>>

-----------------------------------------------------------------------------
(* eooqd: checkQueue without an open queue file, then the reads            *)

StatQueue ==
  /\ epc = "idle"
  /\ "q" \in exists
  /\ epc' = "unlink"
  /\ UNCHANGED <<qfiles, unread, read, lost, tvars, crashes>>

UnlinkCurr ==
  /\ epc = "unlink"
  /\ epc' = "rename"
  /\ Unlink("curr")
  /\ UNCHANGED <<unread, read, lost, tvars, crashes>>

(* Mutant: the queue file is copied to "curr" instead of moved.            *)
CopyQueue ==
  /\ epc = "rename"
  /\ epc' = IF "q" \in exists THEN "open" ELSE "idle"
  /\ exists' = IF "q" \in exists THEN exists \cup {"curr"} ELSE exists
  /\ lines' = [lines EXCEPT !["curr"] = lines["q"]]
  /\ UNCHANGED <<torn, unread, read, lost, tvars, crashes>>

(* The queue file may be gone again: telnetd grabbed it after the stat.    *)
RenameQueue ==
  /\ epc = "rename"
  /\ epc' = IF "q" \in exists THEN "open" ELSE "idle"
  /\ Rename("q", "curr")
  /\ UNCHANGED <<unread, read, lost, tvars, crashes>>

OpenCurr ==
  /\ epc = "open"
  /\ \/ /\ epc' = "reading"
        /\ unread' = lines["curr"]
        /\ UNCHANGED lost
     \/ /\ epc' = "idle"                       \* fopen failed
        /\ lost' = lost \cup lines["curr"]
        /\ UNCHANGED unread
  /\ UNCHANGED <<qfiles, read, tvars, crashes>>

(* add_line: fgets returns the next line ...                               *)
ReadLine ==
  /\ epc = "reading"
  /\ \E l \in unread :
       /\ \A m \in unread : l <= m
       /\ unread' = unread \ {l}
       /\ read' = [read EXCEPT ![l] = @ + 1]
  /\ UNCHANGED <<qfiles, epc, lost, tvars, crashes>>

(* Mutant: curr_file is not reset to NULL at the end of the file.          *)
EndOfFileKeepsFile ==
  /\ epc = "reading"
  /\ unread = {}
  /\ UNCHANGED oneoffVars

(* ... or NULL, at the end of the file or at an error, which is reported   *)
(* and closes the file with the lines that were not read yet.              *)
EndOfFile ==
  /\ epc = "reading"
  /\ epc' = "idle"
  /\ unread' = {}
  /\ lost' = lost \cup unread
  /\ UNCHANGED <<qfiles, read, tvars, crashes>>

(* Mutant: a restarted eooqd queues the file it was reading once more.     *)
CrashRequeues ==
  /\ epc # "idle"
  /\ crashes < MaxCrash
  /\ crashes' = crashes + 1
  /\ epc' = "idle"
  /\ unread' = {}
  /\ Rename("curr", "q")
  /\ UNCHANGED <<lost, read, tvars>>

(* eooqd dies and is started again with curr_file == NULL: what it had not *)
(* read of "curr" is never looked at again.                                *)
EooqdCrash ==
  /\ epc # "idle"
  /\ crashes < MaxCrash
  /\ crashes' = crashes + 1
  /\ epc' = "idle"
  /\ unread' = {}
  /\ lost' = lost \cup Taken
  /\ UNCHANGED <<qfiles, read, tvars>>

-----------------------------------------------------------------------------
Telnetd == Grab \/ AppendLine \/ AppendFails \/ RenameBack
Eooqd == StatQueue \/ UnlinkCurr \/ RenameQueue \/ OpenCurr \/ ReadLine \/ EndOfFile
OneoffNext == Telnetd \/ Eooqd \/ TelnetdCrash \/ EooqdCrash

(* Both daemons keep running (eooqd has a 1 s timer, telnetd finishes the  *)
(* command it is in); nobody is obliged to crash or to send a command.     *)
OneoffFairness ==
  /\ WF_oneoffVars(AppendLine \/ AppendFails)
  /\ WF_oneoffVars(RenameBack)
  /\ WF_oneoffVars(Eooqd)

OneoffSpec == OneoffInit /\ [][OneoffNext]_oneoffVars /\ OneoffFairness

-----------------------------------------------------------------------------
OneoffTypeOK ==
  /\ exists \subseteq Names
  /\ lines \in [Names -> SUBSET Lines]
  /\ tpc \in {"idle", "append", "back"}
  /\ asked \in 0..MaxLine
  /\ epc \in {"idle", "unlink", "rename", "open", "reading"}
  /\ unread \subseteq Lines
  /\ torn \subseteq Names
  /\ accepted \subseteq Lines /\ unsaved \subseteq accepted
  /\ read \in [Lines -> Nat]
  /\ lost \subseteq Lines
  /\ crashes \in 0..MaxCrash

(* At most once (the comment in checkQueue): whatever the two processes    *)
(* and the crashes do, eooqd never reads the same command twice.           *)
AtMostOnce == \A l \in Lines : read[l] <= 1

(* No command vanishes between the two daemons: a line telnetd sent no     *)
(* error for has been read, is still in the queue file (under either       *)
(* name), is in the part of curr_file that eooqd has still to read, was    *)
(* dropped by a failure of eooqd itself, or never reached the file because *)
(* the write of fclose failed then or tore the line before it.  In         *)
(* particular neither rename of do_oneoff ever replaces a file that has    *)
(* lines in it.                                                            *)
NoLineVanishes ==
  accepted \ unsaved \subseteq
      {l \in Lines : read[l] > 0}
      \cup lines["q"] \cup lines["new"] \cup lost \cup Taken

(* Commands are read in the order in which they were queued: when eooqd    *)
(* reads a line, no later one has been read before it.                     *)
ReadInOrder ==
  [][\A l \in Lines : read'[l] # read[l] =>
        \A m \in Lines : m > l => read[m] = 0]_oneoffVars

(* A command that reached the queue file is picked up: it is read, dropped *)
(* by a failure of eooqd, or stranded in "new" by a telnetd that died or   *)
(* failed to append the next one.                                          *)
QueuedIsRead ==
  \A l \in Lines :
     (l \in lines["q"]) ~>
        (read[l] > 0 \/ l \in lost \/ (l \in lines["new"] /\ tpc = "idle"))
=============================================================================
