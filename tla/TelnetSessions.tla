--------------------------- MODULE TelnetSessions ---------------------------
(***************************************************************************)
(* The sessions of telnetd and the crontab that at most one of them writes.*)
(*                                                                         *)
(* telnetd is one thread with a list of sessions.  A session that knows    *)
(* the session id becomes the Atlas session (atlas_ts); the one before it  *)
(* loses its place and is closed when the loop reaches it next.  A CRONTAB *)
(* command opens root.new (atlas_crontab), CRONLINE lines are appended and *)
(* the first other line ends the table: root.new becomes root and the line *)
(* is carried out as the next command, all in one turn of the loop.        *)
(*                                                                         *)
(* The lines of the n-th table that is started are all written n, and      *)
(* total[n] counts those the controller sent.  What ONEOFF does is the     *)
(* subject of OneoffHandover, what the notice after the rename does that   *)
(* of CrontabHandover.                                                     *)
(***************************************************************************)
EXTENDS Integers, Sequences

CONSTANTS Sessions, NoSession, Dirs,
          MaxTable,    \* bound: number of tables started
          MaxTotal     \* bound: number of lines sent for one table

ASSUME SessionsAssumption ==
  /\ NoSession \notin Sessions
  /\ MaxTable \in Nat /\ MaxTotal \in Nat

Tables == 1..MaxTable

VARIABLES
  state,          \* session -> "none", or its state in the code
  atlas_ts,       \* the Atlas session or NoSession
  atlas_crontab,  \* root.new is open
  atlas_dirname,  \* where it is
  newFile,        \* directory -> lines of its root.new
  rootFile,       \* directory -> lines of its root
  table,          \* session -> the table it started last
  dirOf,          \* table -> the directory it is meant for
  total,          \* table -> number of lines the controller sent for it
  tables          \* number of tables started

files == <<atlas_dirname, newFile, rootFile>>
uploads == <<table, dirOf, total, tables>>
vars == <<state, atlas_ts, atlas_crontab, files, uploads>>

Init ==
  /\ state = [s \in Sessions |-> "none"]
  /\ atlas_ts = NoSession
  /\ atlas_crontab = FALSE
  /\ atlas_dirname \in Dirs
  /\ newFile = [d \in Dirs |-> <<>>] /\ rootFile = newFile
  /\ table = [s \in Sessions |-> 0]
  /\ dirOf = [t \in Tables |-> atlas_dirname]
  /\ total = [t \in Tables |-> 0]
  /\ tables = 0

Goto(s, st) == state' = [state EXCEPT ![s] = st]

(* make_new_session; memory of a session that was freed is used again.     *)
Connect(s) ==
  /\ state[s] = "none"
  /\ Goto(s, "GET_LOGINNAME")
  /\ UNCHANGED <<atlas_ts, atlas_crontab, files, uploads>>

GetLoginname(s) ==
  /\ state[s] = "GET_LOGINNAME"
  /\ \E st \in {"GET_PASSWORD", "DO_TRADITIONAL"} : Goto(s, st)
  /\ UNCHANGED <<atlas_ts, atlas_crontab, files, uploads>>

(* Mutant: the table of the old session is left open.                      *)
TakeOverOnly(s) ==
  /\ state[s] = "GET_PASSWORD"
  /\ atlas_ts' = s
  /\ Goto(s, "GET_CMD")
  /\ UNCHANGED <<atlas_crontab, files, uploads>>

(* The session id: this session takes over and closes the table the old    *)
(* one was writing.  After a bad one the session stays where it is.        *)
GetPassword(s) ==
  /\ state[s] = "GET_PASSWORD"
  /\ atlas_crontab' = (atlas_crontab /\ atlas_ts = NoSession)
  /\ atlas_ts' = s
  /\ Goto(s, "GET_CMD")
  /\ UNCHANGED <<files, uploads>>

(* kill_session                                                            *)
Kill(s) ==
  /\ Goto(s, "none")
  /\ atlas_ts' = IF s = atlas_ts THEN NoSession ELSE atlas_ts
  /\ atlas_crontab' = (atlas_crontab /\ s # atlas_ts)
  /\ UNCHANGED <<files, uploads>>

Disconnect(s) == state[s] # "none" /\ Kill(s)

Commanding == {"GET_CMD", "DO_CRONTAB", "EOM_SEEN"}

(* Mutant: a session that is done with its request is left alone.          *)
KillOldBusy(s) ==
  state[s] \in {"GET_CMD", "DO_CRONTAB"} /\ s # atlas_ts /\ Kill(s)

KillOld(s) == state[s] \in Commanding /\ s # atlas_ts /\ Kill(s)

(* Mutant: an old session is not turned away.                              *)
AnyCronLine(s) ==
  /\ state[s] = "DO_CRONTAB"
  /\ total[table[s]] < MaxTotal
  /\ total' = [total EXCEPT ![table[s]] = @ + 1]
  /\ newFile' = IF atlas_crontab
                 THEN [newFile EXCEPT ![atlas_dirname] = Append(@, table[s])]
                 ELSE newFile
  /\ UNCHANGED <<state, atlas_ts, atlas_crontab, atlas_dirname, rootFile,
                 table, dirOf, tables>>

(* A line of the table.  After an I/O error the rest is swallowed.         *)
CronLine(s) ==
  /\ state[s] = "DO_CRONTAB" /\ s = atlas_ts
  /\ total[table[s]] < MaxTotal
  /\ total' = [total EXCEPT ![table[s]] = @ + 1]
  /\ \/ /\ atlas_crontab
        /\ newFile' = [newFile EXCEPT ![atlas_dirname] = Append(@, table[s])]
        /\ UNCHANGED atlas_crontab
     \/ newFile' = newFile /\ atlas_crontab' = FALSE
  /\ UNCHANGED <<state, atlas_ts, atlas_dirname, rootFile, table, dirOf, tables>>

(* end_crontab: root.new becomes root, unless the table was given up       *)
(* earlier or a call fails now.  That root.new is gone then is left out:   *)
(* nothing looks at it before it is created again.                         *)
EndCrontab(s) ==
  rootFile' \in
    {rootFile} \cup
    IF state[s] = "DO_CRONTAB" /\ atlas_crontab
    THEN {[rootFile EXCEPT ![atlas_dirname] = newFile[atlas_dirname]]} ELSE {}

(* A line that is not part of a table.  The table before it is ended, then *)
(* the line is the next command: ONEOFF also stands for a bad command and  *)
(* for a CRONTAB, REBOOT or RELOAD that fails.                             *)
Command(s) ==
  /\ state[s] \in {"GET_CMD", "DO_CRONTAB"} /\ s = atlas_ts
  /\ EndCrontab(s)
  /\ \E cmd \in {"ONEOFF", ""} :
       Goto(s, IF cmd = "" THEN "EOM_SEEN" ELSE "GET_CMD")
  /\ atlas_crontab' = (atlas_crontab /\ state[s] = "GET_CMD")
  /\ UNCHANGED <<atlas_ts, atlas_dirname, newFile, uploads>>

(* The same for a CRONTAB command that start_crontab carries out, which it *)
(* refuses to while a table is open.                                       *)
StartCrontab(s, d) ==
  /\ state[s] \in {"GET_CMD", "DO_CRONTAB"} /\ s = atlas_ts
  /\ atlas_crontab => state[s] = "DO_CRONTAB"
  /\ tables < MaxTable
  /\ EndCrontab(s)
  /\ Goto(s, "DO_CRONTAB")
  /\ atlas_crontab' = TRUE
  /\ atlas_dirname' = d
  /\ newFile' = [newFile EXCEPT ![d] = <<>>]
  /\ tables' = tables + 1
  /\ table' = [table EXCEPT ![s] = tables']
  /\ dirOf' = [dirOf EXCEPT ![tables'] = d]
  /\ UNCHANGED <<atlas_ts, total>>

(* REBOOT and RELOAD end every session.                                    *)
Reboot(s) ==
  /\ state[s] \in {"GET_CMD", "DO_CRONTAB"} /\ s = atlas_ts
  /\ EndCrontab(s)
  /\ state' = [t \in Sessions |-> "none"]
  /\ atlas_ts' = NoSession
  /\ atlas_crontab' = FALSE
  /\ UNCHANGED <<atlas_dirname, newFile, uploads>>

Next ==
  \E s \in Sessions :
     \/ Connect(s) \/ GetLoginname(s) \/ GetPassword(s) \/ Disconnect(s)
     \/ KillOld(s) \/ CronLine(s) \/ Command(s) \/ Reboot(s)
     \/ \E d \in Dirs : StartCrontab(s, d)

(* The loop looks at every session at least once every ten seconds.        *)
Spec == Init /\ [][Next]_vars /\ \A s \in Sessions : WF_vars(KillOld(s))

-----------------------------------------------------------------------------
(* Every variable has its type; atlas_ts never points to a session that is *)
(* gone or has not logged in.                                              *)
TypeOK ==
  /\ state \in [Sessions -> Commanding \cup
                  {"none", "GET_LOGINNAME", "GET_PASSWORD", "DO_TRADITIONAL"}]
  /\ atlas_ts \in Sessions \cup {NoSession}
  /\ atlas_crontab \in BOOLEAN
  /\ atlas_dirname \in Dirs
  /\ newFile \in [Dirs -> Seq(Tables)] /\ rootFile \in [Dirs -> Seq(Tables)]
  /\ tables \in 0..MaxTable
  /\ table \in [Sessions -> 0..tables]
  /\ dirOf \in [Tables -> Dirs]
  /\ total \in [Tables -> 0..MaxTotal]
  /\ atlas_ts # NoSession => state[atlas_ts] \in Commanding

(* The file is open only for the Atlas session and only while it is in the *)
(* middle of a table: start_crontab never has to reply that it is busy and *)
(* no crontab stays open behind a session that is gone.                    *)
OpenForAtlasSession ==
  atlas_crontab => atlas_ts # NoSession /\ state[atlas_ts] = "DO_CRONTAB"

(* Whatever sessions do to each other half-way, the crontab that eperd     *)
(* finds in a directory is exactly what one session sent for one table     *)
(* meant for that directory: none is cut short, mixed with another or put  *)
(* in the wrong place.                                                     *)
RootIsOneTable ==
  \A d \in Dirs :
     \/ rootFile[d] = <<>>
     \/ \E t \in Tables :
           dirOf[t] = d /\ rootFile[d] = [i \in 1..total[t] |-> t]

(* "The old one self-destructs when a new one is started" (telnetd.c).     *)
OldSessionEnds ==
  \A s \in Sessions :
     (state[s] \in Commanding /\ s # atlas_ts) ~> (state[s] = "none")
=============================================================================
