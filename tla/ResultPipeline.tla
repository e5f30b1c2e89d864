--------------------------- MODULE ResultPipeline ---------------------------
(***************************************************************************)
(* The way of a result line from data/new to the controller.               *)
(*                                                                         *)
(* Three processes work on two directories, without locks:                 *)
(*   - eperd appends results to data/new/7 and, by its condmv test, moves  *)
(*     the file to data/out/7.<period>;                                    *)
(*   - the main loop (a shell script) appends to data/new/simpleping,      *)
(*     moves it to data/out/simpleping with the condmv program, and purges *)
(*     both directories with dfrm when the disk is full;                   *)
(*   - perd runs httppost, which lists data/out, sends the files, waits    *)
(*     for the answer and removes what it listed, by name.                 *)
(*                                                                         *)
(* Who appends to a file of data/new also moves it, in one thread, so a    *)
(* file does not grow while it is moved.  A process may be killed between  *)
(* any two steps.  A line is a number and the size of a file is the number *)
(* of its lines; the line condmv -A adds, and a file that holds only that, *)
(* are left out.  On software probes reboot_probe does nothing: the main   *)
(* loop goes on after a purge.                                             *)
(***************************************************************************)
EXTENDS Integers, FiniteSets

CONSTANTS
  MaxLine,     \* bound: results written
  MaxPeriod,   \* bound: intervals of condmv -i
  MaxPost,     \* --maxpostsize, less header and footer
  MaxFiles,    \* MAX_FILES, 1000 in the program
  MaxPurge,    \* bound: how often the disk is full
  MaxFail      \* bound: posts that fail and processes that are killed

ASSUME PipelineAssumption ==
  /\ MaxLine \in Nat /\ MaxPeriod \in Nat
  /\ MaxPost \in Nat /\ MaxFiles \in Nat \ {0}
  /\ MaxPurge \in Nat /\ MaxFail \in Nat

Lines == 1..MaxLine
Streams == {"7", "simpleping"}       \* written by eperd and by the main loop
NewFile(s) == <<"new", s, 0>>
OutFile(s, k) == <<"out", s, k>>
NewFiles == {NewFile(s) : s \in Streams}
OutFiles == {OutFile("7", k) : k \in 0..MaxPeriod} \cup {OutFile("simpleping", 0)}
Names == NewFiles \cup OutFiles

VARIABLES
  there,     \* names that exist
  data,      \* name -> lines in the file
  period,    \* time / interval
  written,   \* lines written so far
  mv,        \* stream -> the destination its condmv has found free, or Idle
  purge,     \* directory dfrm is in: "new", "out" or "idle"
  doomed,    \* names it has found there and not removed yet
  hp,        \* where httppost is: "idle", "list", "send" or "unlink"
  seen,      \* directory entries do_dir has dealt with
  list,      \* names to send and then to remove
  total,     \* their size when they were listed
  tosend,    \* of these, the ones not sent yet
  body,      \* lines sent in this post
  received,  \* history: line -> how often the controller got it
  exposed,   \* history: names dfrm removed during the post that listed them
  given,     \* history: lines given up: removed by dfrm, by do_dir for the
             \* size of their file, or by httppost under an exposed name
  purges, fails

Idle == <<>>
disk == <<there, data>>
purging == <<purge, doomed>>
posting == <<hp, seen, list, total, tosend, body>>
history == <<received, exposed, given>>
counts == <<purges, fails>>
pipelineVars == <<disk, period, written, mv, purging, posting, history, counts>>

PipelineInit ==
  /\ there = {} /\ data = [n \in Names |-> {}]
  /\ period = 0 /\ written = 0
  /\ mv = [s \in Streams |-> Idle]
  /\ purge = "idle" /\ doomed = {}
  /\ hp = "idle" /\ seen = {} /\ list = {} /\ total = 0 /\ tosend = {} /\ body = {}
  /\ received = [l \in Lines |-> 0]
  /\ exposed = {} /\ given = {}
  /\ purges = 0 /\ fails = 0

Remove(n) == there' = there \ {n} /\ data' = [data EXCEPT ![n] = {}]

-----------------------------------------------------------------------------
(* Writing and moving                                                      *)

(* The thread of a stream does one thing at a time; the main loop also     *)
(* waits for dfrm.                                                         *)
Free(s) == mv[s] = Idle /\ (s = "simpleping" => purge = "idle")

Write(s) ==
  /\ Free(s) /\ written < MaxLine
  /\ written' = written + 1
  /\ there' = there \cup {NewFile(s)}
  /\ data' = [data EXCEPT ![NewFile(s)] = @ \cup {written + 1}]
  /\ UNCHANGED <<period, mv, purging, posting, history, counts>>

NextPeriod ==
  /\ period < MaxPeriod
  /\ period' = period + 1
  /\ UNCHANGED <<disk, written, mv, purging, posting, history, counts>>

(* eperd's condmv adds the number of the interval to the name.             *)
Destination(s) == OutFile(s, IF s = "7" THEN period ELSE 0)

(* Mutant: the destination is not looked at.                               *)
MoveUnseen(s) ==
  /\ Free(s)
  /\ NewFile(s) \in there
  /\ mv' = [mv EXCEPT ![s] = Destination(s)]
  /\ UNCHANGED <<disk, period, written, purging, posting, history, counts>>

(* condmv up to the rename: it gives up at once if the destination exists, *)
(* and without a file there is nothing to move.                            *)
MoveStat(s) ==
  /\ Free(s)
  /\ Destination(s) \notin there
  /\ NewFile(s) \in there
  /\ mv' = [mv EXCEPT ![s] = Destination(s)]
  /\ UNCHANGED <<disk, period, written, purging, posting, history, counts>>

(* The rename fails if the file is not there (any more).  httppost, when   *)
(* it is reading the directory, may or may not find the new entry.         *)
MoveRename(s) ==
  /\ mv[s] # Idle
  /\ mv' = [mv EXCEPT ![s] = Idle]
  /\ IF NewFile(s) \in there
     THEN /\ there' = (there \ {NewFile(s)}) \cup {mv[s]}
          /\ data' = [data EXCEPT ![mv[s]] = data[NewFile(s)], ![NewFile(s)] = {}]
          /\ seen' \in {seen} \cup (IF hp = "list" THEN {seen \cup {mv[s]}} ELSE {})
     ELSE UNCHANGED <<disk, seen>>
  /\ UNCHANGED <<period, written, purging, hp, list, total, tosend, body, history,
                 counts>>

(* eperd or the main loop is killed and started again.                     *)
KillMover(s) ==
  /\ fails < MaxFail /\ mv[s] # Idle
  /\ fails' = fails + 1
  /\ mv' = [mv EXCEPT ![s] = Idle]
  /\ UNCHANGED <<disk, period, written, purging, posting, history, purges>>

-----------------------------------------------------------------------------
(* dfrm, run by the main loop: data/new first, then data/out               *)

DiskFull ==
  /\ Free("simpleping") /\ purges < MaxPurge
  /\ purges' = purges + 1
  /\ purge' = "new" /\ doomed' = there \cap NewFiles
  /\ UNCHANGED <<disk, period, written, mv, posting, history, fails>>

(* An entry may be gone when its turn comes, and one that appeared since   *)
(* the directory was opened may be found as well.                          *)
PurgeFile(n) ==
  /\ n \in doomed \/ (n \in there /\ n[1] = purge)
  /\ doomed' = doomed \ {n}
  /\ Remove(n)
  /\ given' = given \cup data[n]
  /\ exposed' = exposed \cup ({n} \cap list \cap there)
  /\ UNCHANGED <<period, written, mv, purge, posting, received, counts>>

PurgeNext ==
  /\ purge # "idle" /\ doomed = {}
  /\ IF purge = "new"
     THEN purge' = "out" /\ doomed' = there \cap OutFiles
     ELSE purge' = "idle" /\ UNCHANGED doomed
  /\ UNCHANGED <<disk, period, written, mv, posting, history, counts>>

-----------------------------------------------------------------------------
(* httppost, run by perd                                                   *)

Size(n) == Cardinality(data[n])

(* httppost ends here, for whatever reason.                                *)
Leave ==
  /\ hp' = "idle"
  /\ seen' = {} /\ list' = {} /\ total' = 0 /\ tosend' = {} /\ body' = {}
  /\ exposed' = {}

PostStart ==
  /\ hp = "idle"
  /\ hp' = "list"
  /\ UNCHANGED <<disk, period, written, mv, purging, seen, list, total, tosend,
                 body, history, counts>>

(* Mutant: a file that does not fit is left for the next time, however big *)
(* it is.                                                                  *)
ListSkips(n) ==
  /\ hp = "list" /\ n \in there \ seen /\ Cardinality(list) < MaxFiles
  /\ seen' = seen \cup {n}
  /\ LET fits == total + Size(n) <= MaxPost
     IN /\ list' = IF fits THEN list \cup {n} ELSE list
        /\ total' = IF fits THEN total + Size(n) ELSE total
  /\ UNCHANGED <<disk, period, written, mv, purging, hp, tosend, body, history, counts>>

(* An entry of data/out: it is listed if it still fits; one that does not  *)
(* is removed if it is bigger than half of what is allowed.                *)
ListEntry(n) ==
  /\ hp = "list" /\ n \in there \ seen /\ Cardinality(list) < MaxFiles
  /\ seen' = seen \cup {n}
  /\ \/ /\ total + Size(n) <= MaxPost
        /\ list' = list \cup {n} /\ total' = total + Size(n)
        /\ UNCHANGED <<disk, given>>
     \/ /\ total + Size(n) > MaxPost /\ Size(n) > MaxPost \div 2
        /\ Remove(n) /\ given' = given \cup data[n]
        /\ UNCHANGED <<list, total>>
     \/ /\ total + Size(n) > MaxPost /\ Size(n) <= MaxPost \div 2
        /\ UNCHANGED <<disk, given, list, total>>
  /\ UNCHANGED <<period, written, mv, purging, hp, tosend, body,
                 received, exposed, counts>>

(* Every entry has been seen, or the list is long enough.                  *)
ListEnd ==
  /\ hp = "list"
  /\ there \cap OutFiles \subseteq seen \/ Cardinality(list) = MaxFiles
  /\ hp' = "send" /\ tosend' = list /\ seen' = {} /\ total' = 0
  /\ UNCHANGED <<disk, period, written, mv, purging, list, body, history, counts>>

(* The files come in the order of the list.                                *)
First(S) == CHOOSE n \in S : TRUE

SendFile ==
  /\ hp = "send" /\ tosend # {} /\ First(tosend) \in there
  /\ tosend' = tosend \ {First(tosend)}
  /\ body' = body \cup data[First(tosend)]
  /\ UNCHANGED <<disk, period, written, mv, purging, hp, seen, list, total,
                 history, counts>>

(* stat or open fails, since dfrm was faster: no post.                     *)
FileGone ==
  /\ \/ hp = "list" /\ purge = "out"
     \/ hp = "send" /\ tosend # {} /\ First(tosend) \notin there
  /\ Leave
  /\ UNCHANGED <<disk, period, written, mv, purging, received, given, counts>>

Got(lines) == [l \in Lines |-> IF l \in lines THEN received[l] + 1 ELSE received[l]]

(* The controller has everything and its answer is OK.                     *)
AnswerOk ==
  /\ hp = "send" /\ tosend = {}
  /\ hp' = "unlink"
  /\ received' = Got(body) /\ body' = {}
  /\ UNCHANGED <<disk, period, written, mv, purging, seen, list, total, tosend,
                 exposed, given, counts>>

(* No connection, another answer, none, or perd is killed: the controller  *)
(* may have everything all the same.                                       *)
PostFails ==
  /\ hp = "send" /\ fails < MaxFail
  /\ fails' = fails + 1
  /\ received' \in {received} \cup (IF tosend = {} THEN {Got(body)} ELSE {})
  /\ Leave
  /\ UNCHANGED <<disk, period, written, mv, purging, given, purges>>

(* What was listed is removed, by name.                                    *)
UnlinkFile ==
  /\ hp = "unlink" /\ list # {}
  /\ LET n == First(list)
     IN /\ list' = list \ {n}
        /\ Remove(n)
        /\ given' = IF n \in exposed THEN given \cup data[n] ELSE given
  /\ UNCHANGED <<period, written, mv, purging, hp, seen, total, tosend, body,
                 received, exposed, counts>>

(* Mutant: the last file of the list is forgotten.                         *)
UnlinkEndsEarly ==
  /\ hp = "unlink" /\ Cardinality(list) <= 1
  /\ Leave
  /\ UNCHANGED <<disk, period, written, mv, purging, received, given, counts>>

UnlinkEnd ==
  /\ hp = "unlink" /\ list = {}
  /\ Leave
  /\ UNCHANGED <<disk, period, written, mv, purging, received, given, counts>>

(* perd is killed while it removes files.                                  *)
KillPost ==
  /\ hp = "unlink" /\ list # {} /\ fails < MaxFail
  /\ fails' = fails + 1
  /\ Leave
  /\ UNCHANGED <<disk, period, written, mv, purging, received, given, purges>>

-----------------------------------------------------------------------------
Dfrm == PurgeNext \/ \E n \in Names : PurgeFile(n)
Post ==
  \/ PostStart \/ ListEnd \/ SendFile \/ FileGone \/ AnswerOk \/ UnlinkFile \/ UnlinkEnd
  \/ \E n \in OutFiles : ListEntry(n)

PipelineNext ==
  \/ NextPeriod \/ DiskFull \/ Dfrm \/ Post \/ PostFails \/ KillPost
  \/ \E s \in Streams : Write(s) \/ MoveStat(s) \/ MoveRename(s) \/ KillMover(s)

PipelineSpec == PipelineInit /\ [][PipelineNext]_pipelineVars

(* The tables run condmv and httppost once per interval, the main loop     *)
(* moves its file in every turn, and each goes on once it has begun.       *)
PipelineFairSpec ==
  /\ PipelineSpec
  /\ WF_pipelineVars(Post)
  /\ \A s \in Streams : WF_pipelineVars(MoveStat(s)) /\ WF_pipelineVars(MoveRename(s))
  /\ WF_pipelineVars(Dfrm)

-----------------------------------------------------------------------------
(* No result vanishes on its way: it is on the disk, or the controller has *)
(* it, whatever order writing, moving, posting and purging interleave in   *)
(* and whoever is killed.  It is given up only by dfrm on a full disk, by  *)
(* do_dir in a file too big to post, and in one case by accident: dfrm has *)
(* removed a file httppost had listed, and another one has taken its name  *)
(* when httppost comes to remove it.                                       *)
NoResultVanishes ==
  \A l \in 1..written :
     \/ \E n \in there : l \in data[n]
     \/ received[l] > 0
     \/ l \in given

(* The controller gets a result more than once only after a failure, and   *)
(* at most once more for each.                                             *)
DuplicatesNeedFailure == \A l \in Lines : received[l] <= 1 + fails

(* Every result gets to the controller once posts go through again, unless *)
(* it is given up: not blocked behind a destination that exists, a file    *)
(* that does not fit or a list that is full.                               *)
Delivered ==
  \A l \in Lines : (l <= written) ~> (received[l] > 0 \/ l \in given)
=============================================================================
