-------------------------- MODULE EooqdRefinement ---------------------------
(***************************************************************************)
(* eooqd implements OneoffService, for any number of slots, lines,         *)
(* attempts and crashes and any mixture of lines.  The status the service  *)
(* gives a line is read off running, barrier, lost and next (statusOf);    *)
(* the invariant below says that these never overlap, and every step of    *)
(* the daemon is then a step of the service or invisible to it.            *)
(***************************************************************************)
EXTENDS EooqdProofs

(* Where the lines are: what has been taken lies before next, a line is    *)
(* running, pending or lost at most once, the command being started runs,  *)
(* and a closed file has been read to its end.                             *)
LinesApart ==
  /\ \A l \in running \cup lost \cup {barrier} : l < next
  /\ running \cap lost = {}
  /\ barrier \notin running \cup lost
  /\ pc = "start" => slots[cur] \in running
  /\ ~open => next = end + 1

(* The files hold reported results only.                                   *)
HoldsOnly(fs, R) == \A f \in Files : fs.data[f] \subseteq R
FilesReported == HoldsOnly(newf, reported) /\ HoldsOnly(outf, reported)

RInv == IInv /\ LinesApart /\ FilesReported

(* What statusOf says, read off the sets.                                  *)
StatusFacts ==
  \A l \in Lines :
    /\ l \in running => statusOf[l] = "running"
    /\ l = barrier => statusOf[l] = "pending"
    /\ l \in lost => statusOf[l] = "gone"
    /\ l >= next => statusOf[l] = "waiting"
    /\ l \notin running \cup lost \cup {barrier} /\ ~(l >= next)
          => statusOf[l] = "done"

(* As the places do not overlap, the CASE of statusOf is unambiguous.      *)
LEMMA StatusIs == QueueType /\ LinesApart => StatusFacts
<1> SUFFICES ASSUME QueueType, LinesApart, NEW l \in Lines
             PROVE  /\ l \in running => statusOf[l] = "running"
                    /\ l = barrier => statusOf[l] = "pending"
                    /\ l \in lost => statusOf[l] = "gone"
                    /\ l >= next => statusOf[l] = "waiting"
                    /\ l \notin running \cup lost \cup {barrier} /\ ~(l >= next)
                          => statusOf[l] = "done"
  BY Zenon DEF StatusFacts
<1>1. statusOf[l] = CASE l \in running -> "running"
                     [] l = barrier -> "pending"
                     [] l \in lost -> "gone"
                     [] l >= next -> "waiting"
                     [] OTHER -> "done"
  BY Zenon DEF statusOf
<1>2. l \in running \cup lost \cup {barrier} => ~(l >= next)
  BY ConstantsAssumption DEF LinesApart, QueueType, Lines
<1>3. l \in running => l # barrier /\ l \notin lost
  BY Zenon DEF LinesApart
<1>4. l = barrier => l \notin lost
  BY Zenon DEF LinesApart
<1> QED
  BY <1>1, <1>2, <1>3, <1>4, Zenon

(* A status is only had for its reason.                                    *)
LEMMA StatusOnly ==
  ASSUME StatusFacts, NEW l, l \in Lines
  PROVE  /\ statusOf[l] = "running" => l \in running
         /\ statusOf[l] = "pending" => l = barrier
         /\ statusOf[l] = "waiting" => l >= next
BY Zenon DEF StatusFacts

(* A line whose place does not change keeps its status.                    *)
LEMMA StatusSame ==
  ASSUME StatusFacts, StatusFacts',
         NEW l, l \in Lines, l \in running' <=> l \in running,
         l = barrier' <=> l = barrier, l \in lost' <=> l \in lost,
         l >= next' <=> l >= next
  PROVE  statusOf'[l] = statusOf[l]
BY DEF StatusFacts

(* statusOf is a function on the lines; a change of one line is an EXCEPT. *)
LEMMA StatusChange ==
  ASSUME NEW l, l \in Lines, NEW st, statusOf'[l] = st,
         \A k \in Lines : k # l => statusOf'[k] = statusOf[k]
  PROVE  statusOf' = [statusOf EXCEPT ![l] = st]
<1>1. /\ statusOf = [k \in Lines |-> statusOf[k]]
      /\ statusOf' = [k \in Lines |-> statusOf'[k]]
  BY DEF statusOf
<1> HIDE DEF statusOf
<1> QED
  BY <1>1, Zenon

(* statusOf is a function on the lines after a step, too.                   *)
LEMMA StatusFunction == statusOf' = [k \in Lines |-> statusOf'[k]]
BY DEF statusOf

(* Without a change of place nobody's status changes.                      *)
LEMMA StatusFrame ==
  ASSUME UNCHANGED <<running, barrier, lost, next>>
  PROVE  statusOf' = statusOf
BY DEF statusOf

(* At the start nothing is anywhere.                                       *)
LEMMA InitRInv == Init => LinesApart /\ FilesReported
BY DEF Init, LinesApart, FilesReported, HoldsOnly, NoFiles, NULL, Files

(* Steps that the service does not see, apart from what they deliver.      *)
Inner ==
  \/ Enqueue \/ ServerChange \/ ResolvConfChange \/ ResumeQueue \/ LoopEnds
  \/ BarrierWait \/ StartReturns \/ CmdDone \/ RePost \/ Gather \/ RoundsOver
  \/ NoPost \/ ListFiles \/ DropFile \/ SendOk \/ SendNotOk \/ SendFails
  \/ UnlinkOne \/ UnlinkDone \/ UNCHANGED vars

(* They move no line; at most, results that were sent have been received.  *)
LEMMA InnerFrame ==
  ASSUME Inner
  PROVE  /\ UNCHANGED <<running, barrier, lost, next, end, reported>>
         /\ posted' \in {posted, posted \cup ResultsIn(doomed)}
<1> USE DEF queue, table, history
<1>1. CASE Enqueue \/ ServerChange \/ ResolvConfChange \/ ResumeQueue \/ LoopEnds
  BY <1>1, Zenon DEF Enqueue, ServerChange, ResolvConfChange, ResumeQueue,
     LoopEnds
<1>2. CASE BarrierWait \/ StartReturns \/ CmdDone
  BY <1>2, Zenon DEF BarrierWait, StartReturns, CmdDone
<1>3. CASE RePost \/ Gather \/ RoundsOver \/ UnlinkDone
  BY <1>3, Zenon DEF RePost, Gather, RoundsOver, UnlinkDone
<1>4. CASE SendOk \/ SendNotOk \/ SendFails
  BY <1>4, Zenon DEF SendOk, SendNotOk, SendFails
<1>5. CASE UnlinkOne
  BY <1>5, Zenon DEF UnlinkOne
<1>6. CASE UNCHANGED vars
  BY <1>6, Zenon DEF vars
<1>7. CASE NoPost \/ ListFiles \/ DropFile
  BY <1>7, ListingFrame, Zenon
<1> QED
  BY <1>1, <1>2, <1>3, <1>4, <1>5, <1>6, <1>7, Zenon DEF Inner

(* Every step is one of those or one of the following.                     *)
LEMMA NextCases ==
  ASSUME [Next]_vars
  PROVE  \/ Inner \/ OpenQueue \/ BarrierCreate \/ EndOfFile
         \/ ReadPost \/ ReadBarrier \/ ReadReload \/ ReadBad \/ ReadCommand
         \/ FailsInStart \/ (\E s \in Slots : Finish(s)) \/ Crash
BY Zenon DEF Next, CheckQueue, AddLine, PostResults, HttpPost, Thread, Inner

(* The lines stay apart.                                                   *)
LEMMA NextLinesApart == IInv /\ LinesApart /\ [Next]_vars => LinesApart'
<1> SUFFICES ASSUME IInv, LinesApart, [Next]_vars PROVE LinesApart'
  BY Zenon
<1>1. /\ QueueType /\ running \subseteq Lines /\ lost \subseteq Lines
      /\ ret \in {"loop", "lines"}
  BY Zenon DEF IInv, TypeOK, TableType, HistoryType, ControlType
<1>2. /\ next \in Int /\ end \in Int /\ queued \in Int /\ barrier \in Int
      /\ next <= end + 1 /\ end <= queued
  BY <1>1, ConstantsAssumption DEF QueueType, Lines, NULL
<1>3. \A l \in Lines : l \in Int /\ l # NULL
  BY ConstantsAssumption DEF Lines, NULL
<1>4. \A l \in running \cup lost \cup {barrier} : l \in Int /\ l < next
  BY <1>1, <1>2, <1>3, Zenon DEF LinesApart
<1>5. CASE Inner
  <2>1. UNCHANGED <<running, barrier, lost, next, end>>
    BY <1>5, InnerFrame, Zenon
  <2>2. ~open' => next = end + 1
    <3>1. open' = open
      BY <1>5, QueueFrame, Zenon
         DEF Inner, Enqueue, ServerChange, ResolvConfChange, ResumeQueue,
             LoopEnds, BarrierWait, vars, queue
    <3> QED
      BY <3>1, Zenon DEF LinesApart
  <2>3. pc' = "start" => slots'[cur'] \in running
    <3>1. CASE CmdDone
      BY <1>1, <3>1, Zenon DEF CmdDone, CallPostResults, PostReturns
    <3>2. CASE ~CmdDone
      <4>1. slots' = slots /\ ((pc' = pc /\ cur' = cur) \/ pc' \notin {"start", "done"})
        BY <1>1, <1>5, <3>2, SlotsFrame, Zenon DEF Inner
      <4> QED
        BY <4>1, Zenon DEF LinesApart
    <3> QED
      BY <3>1, <3>2, Zenon
  <2> QED
    BY <2>1, <2>2, <2>3, Zenon DEF LinesApart
<1>6. CASE OpenQueue
  <2>1. UNCHANGED <<running, barrier, slots, cur>> /\ pc' # "start"
    BY <1>6, Zenon DEF OpenQueue, table
  <2>2. next' \in Int /\ next <= next' /\ end' = queued /\ (~open' => next' = end' + 1)
    BY <1>2, <1>6 DEF OpenQueue
  <2>3. lost' = lost \/ (lost' = lost \cup (end + 1)..queued /\ next' = queued + 1)
    BY <1>6, Zenon DEF OpenQueue
  <2>4. barrier = NULL /\ next = end + 1
    BY <1>6, Zenon DEF OpenQueue, IInv, ReadPosition, LinesApart
  <2>5. \A l \in (end + 1)..queued : l \in Int /\ l >= next /\ l < queued + 1 /\ l # NULL
    BY ONLY <1>1, <1>2, <2>4, ConstantsAssumption DEF QueueType, NULL
  <2>6. \A l \in running : l \notin (end + 1)..queued
    BY <1>2, <1>4, <2>4
  <2>7. \A l \in running' \cup lost' \cup {barrier'} : l < next'
    BY <1>2, <1>4, <2>1, <2>2, <2>3, <2>5
  <2>8. running' \cap lost' = {} /\ barrier' \notin running' \cup lost'
    BY <2>1, <2>3, <2>4, <2>5, <2>6, Zenon DEF LinesApart
  <2> QED
    BY <2>1, <2>2, <2>7, <2>8, Zenon DEF LinesApart
<1>7. CASE BarrierCreate
  <2>1. /\ UNCHANGED <<running, lost, next, end, open, slots, cur, pc>>
        /\ barrier' = NULL
    BY <1>7, Zenon DEF BarrierCreate, queue, table
  <2>2. 0 < next
    BY <1>1, <1>2, ConstantsAssumption DEF QueueType
  <2> QED
    BY <1>1, <1>3, <2>1, <2>2, Zenon DEF LinesApart, NULL
<1>8. CASE ReadPost \/ ReadBarrier \/ ReadReload \/ ReadBad \/ ReadCommand
  <2>1. /\ next \in Lines /\ next' = next + 1 /\ UNCHANGED <<end, open, lost>> /\ open
        /\ barrier = NULL
    BY <1>1, <1>8, LineRead, Zenon DEF ReadPost, ReadBarrier, ReadReload,
       ReadBad,
       ReadCommand, history
  <2>2. \/ running' = running /\ barrier' \in {barrier, next} /\ pc' # "start"
        \/ running' = running \cup {next} /\ barrier' = barrier /\ slots'[cur'] = next
    <3>1. CASE ReadCommand
      <4>1. PICK s \in Slots : slots' = [slots EXCEPT ![s] = next] /\ cur' = s
        BY <3>1, Zenon DEF ReadCommand
      <4>2. slots'[cur'] = next
        BY <4>1, Zenon DEF IInv, TypeOK, TableType
      <4> QED
        BY <3>1, <4>2, Zenon DEF ReadCommand
    <3>2. CASE ~ReadCommand
      BY <1>8, <3>2, Zenon DEF ReadPost, ReadBarrier, ReadReload, ReadBad,
         NextLine,
         InLoop, CallPostResults, table
    <3> QED
      BY <3>1, <3>2, Zenon
  <2>3. next \notin running \cup lost
    BY <1>2, <1>4
  <2>4. \A l \in running' \cup lost' \cup {barrier'} : l < next'
    BY <1>2, <1>4, <2>1, <2>2
  <2>5. running' \cap lost' = {} /\ barrier' \notin running' \cup lost'
    BY <1>3, <2>1, <2>2, <2>3, Zenon DEF LinesApart
  <2> QED
    BY <2>1, <2>2, <2>4, <2>5, Zenon DEF LinesApart
<1>9. CASE FailsInStart \/ \E s \in Slots : Finish(s)
  <2>1. /\ running' \subseteq running /\ pc' # "start"
        /\ UNCHANGED <<barrier, lost, next, end, open>>
    BY <1>9, Zenon DEF FailsInStart, Finish, Report, queue
  <2> QED
    BY <2>1, Zenon DEF LinesApart
<1>10. CASE Crash
  <2>1. /\ running' = {} /\ barrier' = NULL /\ pc' # "start" /\ next' = end + 1
        /\ end' = end
        /\ lost' = lost \cup next..end \cup running
                        \cup (IF barrier = NULL THEN {} ELSE {barrier})
    BY <1>10, Zenon DEF Crash
  <2>2. \A l \in lost' : l \in Int /\ l < next'
    BY <1>2, <1>4, <2>1
  <2>3. NULL \notin lost' /\ NULL < next'
    BY <1>1, <1>2, <1>3, <2>1, ConstantsAssumption DEF QueueType, NULL
  <2> QED
    BY <2>1, <2>2, <2>3, Zenon DEF LinesApart
<1>11. CASE EndOfFile
  <2>1. /\ UNCHANGED <<running, barrier, end>> /\ next' = end + 1
        /\ pc' = "lines" /\ barrier = NULL /\ lost' = lost \cup next..end
    BY <1>11, Zenon DEF EndOfFile, InLoop, table
  <2>2. \A l \in next..end : l \in Int /\ l >= next /\ l < end + 1 /\ l # NULL
    BY ONLY <1>1, <1>2, ConstantsAssumption DEF QueueType, NULL
  <2>3. \A l \in running : l \notin next..end
    BY <1>2, <1>4
  <2>4. \A l \in running' \cup lost' \cup {barrier'} : l < next'
    BY <1>2, <1>4, <2>1, <2>2
  <2>5. running' \cap lost' = {} /\ barrier' \notin running' \cup lost'
    BY <2>1, <2>2, <2>3, Zenon DEF LinesApart
  <2> QED
    BY <2>1, <2>4, <2>5, Zenon DEF LinesApart
<1> QED
  BY <1>5, <1>6, <1>7, <1>8, <1>9, <1>10, <1>11, NextCases, Zenon

(* More results may have been reported than a file holds.                  *)
LEMMA HoldsOnlyMore ==
  ASSUME NEW fs, NEW R, NEW S, HoldsOnly(fs, R), R \subseteq S
  PROVE  HoldsOnly(fs, S)
BY Zenon DEF HoldsOnly

(* Appending brings in one result, and moving none.                        *)
LEMMA HoldsOnlyAppend ==
  ASSUME NEW fs, fs \in FilesType, NEW f, f \in Files, NEW l, NEW R,
         HoldsOnly(fs, R)
  PROVE  HoldsOnly(AppendTo(fs, f, l), R \cup {l})
<1>1. fs.data \in [Files -> SUBSET Lines]
  BY Zenon DEF FilesType
<1>2. AppendTo(fs, f, l).data = [fs.data EXCEPT ![f] = fs.data[f] \cup {l}]
  BY Zenon DEF AppendTo
<1> QED
  BY <1>1, <1>2, Zenon DEF HoldsOnly

LEMMA HoldsOnlyMove ==
  ASSUME NEW S, NEW new, NEW out, NEW R, HoldsOnly(new, R), HoldsOnly(out, R)
  PROVE  /\ HoldsOnly(NewAfterMove(S, new, out), R)
         /\ HoldsOnly(OutAfterMove(S, new, out), R)
<1>1. \A f \in Files : NewAfterMove(S, new, out).data[f] \in {{}, new.data[f]}
  BY Zenon DEF NewAfterMove
<1>2. \A f \in Files : OutAfterMove(S, new, out).data[f] \in {new.data[f], out.data[f]}
  BY Zenon DEF OutAfterMove
<1> QED
  BY <1>1, <1>2, Zenon DEF HoldsOnly

(* No step puts anything in a file that it does not report.                *)
LEMMA NextFilesReported == IInv /\ FilesReported /\ [Next]_vars => FilesReported'
<1> SUFFICES ASSUME IInv, FilesReported, [Next]_vars PROVE FilesReported'
  BY Zenon
<1>1. /\ newf \in FilesType /\ outf \in FilesType /\ cur \in Slots
      /\ HoldsOnly(newf, reported) /\ HoldsOnly(outf, reported)
  BY Zenon DEF IInv, TypeOK, ControlType, FilesReported
<1>2. OOQ \in Files /\ \A s \in Slots : s \in Files
  BY ConstantsAssumption DEF OOQ, RES, Files, Slots
<1>3. CASE UNCHANGED <<newf, outf, reported>>
  BY <1>1, <1>3, Zenon DEF FilesReported
<1>4. CASE ReadBad
  <2>1. /\ reported' = reported \cup {next}
        /\ newf' = NewAfterMove({OOQ}, AppendTo(newf, OOQ, next), outf)
        /\ outf' = OutAfterMove({OOQ}, AppendTo(newf, OOQ, next), outf)
    BY <1>4, Zenon DEF ReadBad, MoveResults
  <2>2. HoldsOnly(AppendTo(newf, OOQ, next), reported')
    BY <1>1, <1>2, <2>1, HoldsOnlyAppend, Zenon
  <2>3. HoldsOnly(outf, reported')
    BY <1>1, <2>1, HoldsOnlyMore, Zenon
  <2> QED
    BY <2>1, <2>2, <2>3, HoldsOnlyMove, Zenon DEF FilesReported
<1>5. CASE ReadCommand
  <2>1. newf'.data = newf.data /\ UNCHANGED <<outf, reported>>
    BY <1>1, <1>5, Zenon DEF ReadCommand, FilesType
  <2> QED
    BY <1>1, <2>1, Zenon DEF FilesReported, HoldsOnly
<1>6. ASSUME NEW s, s \in Slots, NEW r, Report(s, r) PROVE FilesReported'
  <2>1. CASE slots[s] \in Stuck
    BY <1>3, <1>6, <2>1, Zenon DEF Report
  <2>2. CASE slots[s] \notin Stuck
    <3>1. /\ newf' = AppendTo(newf, s, slots[s]) /\ outf' = outf
          /\ reported' = reported \cup {slots[s]}
      BY <1>6, <2>2, Zenon DEF Report
    <3>2. HoldsOnly(newf', reported')
      BY <1>1, <1>2, <1>6, <3>1, HoldsOnlyAppend, Zenon
    <3> QED
      BY <1>1, <3>1, <3>2, HoldsOnlyMore, Zenon DEF FilesReported
  <2> QED
    BY <2>1, <2>2, Zenon
<1>7. CASE CmdDone \/ Gather
  <2>1. \E S : /\ newf' = NewAfterMove(S, newf, outf)
              /\ outf' = OutAfterMove(S, newf, outf)
    BY <1>7, Zenon DEF CmdDone, Gather, MoveResults
  <2>2. reported' = reported
    BY <1>7, Zenon DEF CmdDone, Gather, history
  <2> QED
    BY <1>1, <2>1, <2>2, HoldsOnlyMove, Zenon DEF FilesReported
<1>12. ASSUME newf' = newf, reported' = reported,
              \A g \in Files : outf'.data[g] \in {{}, outf.data[g]}
       PROVE  FilesReported'
  BY <1>1, <1>12, Zenon DEF FilesReported, HoldsOnly
<1>8. CASE UnlinkOne \/ NoPost \/ ListFiles \/ DropFile
  <2>1. outf' = outf \/ \E f : outf' = Without(f)
    BY <1>8, ListingFrame, Zenon DEF UnlinkOne
  <2>2. \A g \in Files : outf'.data[g] \in {{}, outf.data[g]}
    <3>1. CASE outf' = outf
      BY <3>1, Zenon
    <3>2. ASSUME NEW f, outf' = Without(f)
          PROVE  \A g \in Files : outf'.data[g] \in {{}, outf.data[g]}
      BY <1>1, <3>2, WithoutFile
    <3> QED
      BY <2>1, <3>1, <3>2, Zenon
  <2>3. newf' = newf /\ reported' = reported
    BY <1>8, ListingFrame, Zenon DEF UnlinkOne, history
  <2> QED
    BY <1>12, <2>2, <2>3, Zenon
<1>13. CASE LoopEnds \/ BarrierWait \/ ReadReload
  <2>1. outf'.data = outf.data
    BY <1>1, <1>13, RecordFile, Zenon DEF LoopEnds, BarrierWait, ReadReload
  <2>2. newf' = newf /\ reported' = reported
    BY <1>13, Zenon DEF LoopEnds, BarrierWait, ReadReload, history
  <2> QED
    BY <1>12, <2>1, <2>2, Zenon
<1>9. CASE OpenQueue \/ BarrierCreate \/ EndOfFile \/ ReadPost \/ ReadBarrier \/ Crash
  BY <1>3, <1>9, Zenon DEF OpenQueue, BarrierCreate, EndOfFile, ReadPost,
     ReadBarrier, Crash, history
<1>10. CASE Inner /\ ~(\/ CmdDone \/ Gather \/ UnlinkOne \/ NoPost \/ ListFiles
                       \/ DropFile \/ LoopEnds \/ BarrierWait)
  <2>1. newf' = newf /\ outf' = outf
    BY <1>10, Zenon DEF Inner, Enqueue, ServerChange, ResolvConfChange,
       ResumeQueue, StartReturns, RePost, RoundsOver,
       SendOk, SendNotOk, SendFails, UnlinkDone, vars
  <2> QED
    BY <1>3, <1>10, <2>1, InnerFrame, Zenon
<1>11. CASE FailsInStart \/ \E s \in Slots : Finish(s)
  BY <1>1, <1>6, <1>11, Zenon DEF FailsInStart, Finish
<1> QED
  BY <1>4, <1>5, <1>7, <1>8, <1>9, <1>10, <1>11, <1>13, NextCases, Zenon

-----------------------------------------------------------------------------
(* The invariant of the refinement.                                        *)
LEMMA RInvariance == Spec => []RInv
<1>1. Init => RInv
  BY InitIInv, InitRInv, Zenon DEF RInv
<1>2. RInv /\ [Next]_vars => RInv'
  BY NextIInv, NextLinesApart, NextFilesReported, Zenon DEF RInv
<1> QED
  BY <1>1, <1>2, PTL DEF Spec

(* The daemon starts where the service starts.                             *)
LEMMA RefinesInit == Init => Service!Init
<1> SUFFICES ASSUME Init PROVE Service!Init
  BY Zenon
<1>1. statusOf = [l \in Lines |-> "waiting"]
  BY DEF Init, statusOf, Lines, NULL
<1> QED
  BY <1>1, Zenon DEF Service!Init, Service!Lines, Lines, Init

(* What sits in data/out has been reported, so posting it is a delivery.   *)
LEMMA OutReported ==
  ASSUME FilesReported, doomed \subseteq Files
  PROVE  ResultsIn(doomed) \subseteq reported
BY Zenon DEF FilesReported, HoldsOnly, ResultsIn

(* A step that the service allows.                                         *)
Step == Service!Next \/ UNCHANGED Service!vars

(* An inner step is a delivery or invisible.                               *)
LEMMA RefinesInner == RInv /\ Inner => Step
<1> SUFFICES ASSUME RInv, Inner PROVE Step
  BY Zenon
<1>1. /\ UNCHANGED <<running, barrier, lost, next, reported>>
      /\ posted' \in {posted, posted \cup ResultsIn(doomed)}
  BY InnerFrame, Zenon
<1>2. statusOf' = statusOf
  BY <1>1, StatusFrame, Zenon
<1>3. CASE posted' = posted
  BY <1>1, <1>2, <1>3, Zenon DEF Step, Service!vars
<1>4. CASE posted' = posted \cup ResultsIn(doomed)
  <2>1. ResultsIn(doomed) \in SUBSET reported
    BY OutReported, Zenon DEF RInv, IInv, TypeOK, ControlType
  <2> QED
    BY <1>1, <1>2, <1>4, <2>1, Zenon DEF Step, Service!Next, Service!Deliver
<1> QED
  BY <1>1, <1>3, <1>4, Zenon

(* The status before and after a step.                                     *)
LEMMA StatusBoth == RInv /\ RInv' => StatusFacts /\ StatusFacts'
<1>1. RInv => StatusFacts
  BY StatusIs, Zenon DEF RInv, IInv, TypeOK
<1>2. (RInv => StatusFacts)'
  BY <1>1, PTL
<1> QED
  BY <1>1, <1>2, Zenon

(* add_line takes the first waiting line.                                  *)
LEMMA RefinesRead ==
  ASSUME RInv, RInv', ReadPost \/ ReadBarrier \/ ReadReload \/ ReadBad \/ ReadCommand
  PROVE  Step
<1>1. QueueType /\ LinesApart
  BY Zenon DEF RInv, IInv, TypeOK
<1>2. StatusFacts /\ StatusFacts'
  BY StatusBoth, Zenon
<1>3. /\ next \in Lines /\ next' = next + 1 /\ barrier = NULL
      /\ UNCHANGED <<lost, posted>>
  BY <1>1, LineRead, Zenon DEF ReadPost, ReadBarrier, ReadReload, ReadBad,
     ReadCommand, history
<1>4. \A l \in Lines : l \in Int /\ l # NULL /\ (l # next => (l >= next' <=> l >= next))
  BY <1>3 DEF Lines, NULL
<1>5. next >= next /\ ~(next >= next')
  BY <1>3, <1>4
<1>6. /\ running' = IF Kind[next] = "cmd" THEN running \cup {next} ELSE running
      /\ barrier' = IF Kind[next] = "barrier" THEN next ELSE barrier
      /\ reported' = IF Kind[next] = "bad" THEN reported \cup {next} ELSE reported
  <2>1. CASE ReadCommand
    <3>1. /\ Kind[next] = "cmd" /\ running' = running \cup {next}
          /\ UNCHANGED <<barrier, reported>>
      BY <2>1, Zenon DEF ReadCommand, NextLine
    <3> QED
      BY ONLY <3>1, Zenon
  <2>2. CASE ReadBarrier
    <3>1. /\ Kind[next] = "barrier" /\ barrier' = next
          /\ UNCHANGED <<running, reported>>
      BY <2>2, Zenon DEF ReadBarrier, NextLine, table, history
    <3> QED
      BY ONLY <3>1, Zenon
  <2>3. CASE ReadBad
    <3>1. /\ Kind[next] = "bad" /\ reported' = reported \cup {next}
          /\ UNCHANGED <<running, barrier>>
      BY <2>3, Zenon DEF ReadBad, NextLine, table
    <3> QED
      BY ONLY <3>1, Zenon
  <2>4. CASE ReadPost \/ ReadReload
    <3>1. /\ Kind[next] \in {"post", "reload"}
          /\ UNCHANGED <<running, barrier, reported>>
      BY <2>4, Zenon DEF ReadPost, ReadReload, NextLine, table, history
    <3> QED
      BY ONLY <3>1, Zenon
  <2> QED
    BY <2>1, <2>2, <2>3, <2>4, Zenon
<1>7. next \notin running \cup lost
  BY <1>1, <1>3, <1>4 DEF LinesApart
<1>8. \A l \in Lines : l # next => statusOf'[l] = statusOf[l]
  BY <1>2, <1>3, <1>4, <1>6, StatusSame, Zenon
<1>9. statusOf'[next] = CASE Kind[next] = "cmd" -> "running"
                         [] Kind[next] = "barrier" -> "pending"
                         [] OTHER -> "done"
  BY <1>2, <1>3, <1>4, <1>5, <1>6, <1>7, Zenon DEF StatusFacts
<1>10. /\ statusOf[next] = "waiting"
       /\ \A k \in 1..(next - 1) : statusOf[k] # "waiting"
       /\ Service!Is("pending") = {}
  <2>1. \A k \in 1..(next - 1) : k \in Lines /\ ~(k >= next)
    BY ONLY <1>3, ConstantsAssumption DEF Lines
  <2>2. \A k \in 1..(next - 1) : statusOf[k] # "waiting"
    BY <1>2, <2>1, StatusOnly, Zenon
  <2>3. Service!Is("pending") = {}
    BY <1>2, <1>3, <1>4, StatusOnly, Zenon DEF Service!Is, Service!Lines, Lines
  <2> QED
    BY <1>2, <1>3, <1>5, <2>2, <2>3, Zenon DEF StatusFacts
<1>11. Service!Take(next)
  BY <1>3, <1>6, <1>8, <1>9, <1>10, StatusChange, Zenon DEF Service!Take
<1> QED
  BY <1>3, <1>11, Zenon DEF Step, Service!Next, Service!Lines, Lines

(* The callback of a test ends its command.                                *)
LEMMA RefinesReport ==
  ASSUME RInv, RInv', NEW s, s \in Slots, NEW r, Report(s, r), slots[s] \in running
  PROVE  Step
<1> DEFINE l == slots[s]
<1>1. l \in Lines /\ running \subseteq Lines /\ LinesApart
  BY Zenon DEF RInv, IInv, TypeOK, TableType
<1>2. StatusFacts /\ StatusFacts'
  BY StatusBoth, Zenon
<1>3. /\ running' = running \ {l} /\ UNCHANGED <<barrier, lost, next, posted>>
      /\ reported' = IF l \in Stuck THEN reported ELSE reported \cup {l}
  BY Zenon DEF Report, queue
<1> HIDE DEF l
<1>4. l \in running
  BY Zenon DEF l
<1>5. l \notin running' \cup lost \cup {barrier} /\ ~(l >= next)
  <2>1. l < next /\ l \in Int /\ next \in Int
    BY <1>1, <1>4, ConstantsAssumption
       DEF LinesApart, RInv, IInv, TypeOK, QueueType, Lines
  <2>2. ~(l >= next)
    BY ONLY <2>1
  <2> QED
    BY <1>1, <1>3, <1>4, <2>2, Zenon DEF LinesApart
<1>6. statusOf[l] = "running" /\ statusOf'[l] = "done"
  BY <1>1, <1>2, <1>3, <1>4, <1>5, Zenon DEF StatusFacts
<1>7. \A k \in Lines : k # l => statusOf'[k] = statusOf[k]
  BY <1>2, <1>3, StatusSame, Zenon
<1>8. Service!Finish(l)
  BY <1>1, <1>3, <1>6, <1>7, StatusChange, Zenon DEF Service!Finish
<1> QED
  BY <1>1, <1>8, Zenon DEF Step, Service!Next, Service!Lines, Lines

(* A barrier is passed when nothing is running.                            *)
LEMMA RefinesBarrier == RInv /\ RInv' /\ BarrierCreate => Step
<1> SUFFICES ASSUME RInv, RInv', BarrierCreate PROVE Step
  BY Zenon
<1> DEFINE l == barrier
<1>1. /\ l \in Lines /\ l # NULL /\ LinesApart
  BY Zenon DEF RInv, IInv, TypeOK, QueueType, BarrierCreate
<1>2. StatusFacts /\ StatusFacts'
  BY StatusBoth, Zenon
<1>3. barrier' = NULL /\ UNCHANGED <<running, lost, next, posted, reported>>
  BY Zenon DEF BarrierCreate, queue, table
<1>4. Occupied = {}
  BY SlotsInUse, Zenon DEF BarrierCreate, RInv, IInv, SlotTable
<1>5. running = {}
  BY <1>4 DEF RInv, IInv, SlotTable, Occupied, TypeOK, TableType, NULL, Lines
<1>6. ~(l >= next) /\ l \notin lost /\ \A k \in Lines : k # NULL
  <2>1. l < next /\ l \in Int /\ next \in Int
    BY <1>1, ConstantsAssumption DEF LinesApart, RInv, IInv, TypeOK,
       QueueType, Lines
  <2>2. ~(l >= next)
    BY ONLY <2>1
  <2>3. \A k \in Lines : k # NULL
    BY DEF Lines, NULL
  <2> QED
    BY <1>1, <2>2, <2>3, Zenon DEF LinesApart
<1>7. statusOf[l] = "pending" /\ statusOf'[l] = "done"
  BY <1>1, <1>2, <1>3, <1>5, <1>6, Zenon DEF StatusFacts
<1>8. \A k \in Lines : k # l => statusOf'[k] = statusOf[k]
  BY <1>2, <1>3, <1>6, StatusSame, Zenon
<1>9. Service!Is("running") = {}
  BY <1>2, <1>5, StatusOnly, Zenon DEF Service!Is, Service!Lines, Lines
<1>10. Service!PassBarrier(l)
  BY <1>1, <1>3, <1>7, <1>8, <1>9, StatusChange, Zenon DEF Service!PassBarrier
<1> QED
  BY <1>1, <1>10, Zenon DEF Step, Service!Next, Service!Lines, Lines

(* The lines from the first unread one up to n are dropped unread.         *)
LEMMA RefinesDrop ==
  ASSUME RInv, RInv', NEW n, n \in 0..MaxLine, next <= n + 1, next' = n + 1,
         lost' = lost \cup next..n, UNCHANGED <<running, barrier, posted, reported>>
  PROVE  Step
<1>1. QueueType /\ LinesApart
  BY Zenon DEF RInv, IInv, TypeOK
<1>2. StatusFacts /\ StatusFacts'
  BY StatusBoth, Zenon
<1>3. \A l \in Lines : /\ l \in next..n <=> l >= next /\ l <= n
                       /\ l >= n + 1 <=> l >= next /\ ~(l <= n)
  BY <1>1, ConstantsAssumption DEF QueueType, Lines
<1>4. ASSUME NEW l \in Lines
      PROVE  statusOf'[l] = IF statusOf[l] = "waiting" /\ l <= n
                            THEN "gone" ELSE statusOf[l]
  <2>1. CASE l >= next /\ l <= n
    <3>1. statusOf[l] = "waiting" /\ statusOf'[l] = "gone"
      BY <1>2, <1>3, <2>1, Zenon DEF StatusFacts
    <3> QED
      BY <2>1, <3>1, Zenon
  <2>2. CASE ~(l >= next /\ l <= n)
    <3>1. statusOf'[l] = statusOf[l]
      BY <1>2, <1>3, <2>2, StatusSame, Zenon
    <3>2. ~(statusOf[l] = "waiting" /\ l <= n)
      BY <1>2, <2>2, StatusOnly, Zenon
    <3> QED
      BY <3>1, <3>2, Zenon
  <2> QED
    BY <2>1, <2>2, Zenon
<1>5. Service!DropWaiting(n)
  BY <1>4, StatusFunction, Zenon DEF Service!DropWaiting, Service!Lines, Lines
<1> QED
  BY <1>5, Zenon DEF Step, Service!Next

(* Taking the queue file is invisible, unless it cannot be opened: then    *)
(* the lines in it are dropped.                                            *)
LEMMA RefinesOpen == RInv /\ RInv' /\ OpenQueue => Step
<1> SUFFICES ASSUME RInv, RInv', OpenQueue PROVE Step
  BY Zenon
<1>1. /\ QueueType /\ next = end + 1
      /\ UNCHANGED <<running, barrier, posted, reported>>
  BY Zenon DEF RInv, IInv, TypeOK, OpenQueue, LinesApart, table
<1>2. CASE next' = end + 1 /\ lost' = lost
  BY <1>1, <1>2, StatusFrame, Zenon DEF Step, Service!vars
<1>3. CASE next' = queued + 1 /\ lost' = lost \cup (end + 1)..queued
  <2>1. queued \in 0..MaxLine /\ next <= queued + 1
    BY <1>1, ConstantsAssumption DEF QueueType
  <2> QED
    BY <1>1, <1>3, <2>1, RefinesDrop, Zenon
<1> QED
  BY <1>2, <1>3, Zenon DEF OpenQueue

(* The end of the file is invisible, unless an error made it: then the     *)
(* rest of the file is dropped.                                            *)
LEMMA RefinesEnd == RInv /\ RInv' /\ EndOfFile => Step
<1> SUFFICES ASSUME RInv, RInv', EndOfFile PROVE Step
  BY Zenon
<1>1. /\ QueueType /\ next' = end + 1 /\ lost' = lost \cup next..end
      /\ UNCHANGED <<running, barrier, posted, reported>>
  BY Zenon DEF RInv, IInv, TypeOK, EndOfFile, table
<1>2. end \in 0..MaxLine /\ next <= end + 1
  BY <1>1, ConstantsAssumption DEF QueueType
<1> QED
  BY <1>1, <1>2, RefinesDrop, Zenon

(* A crash drops what is in hand and the rest of the file being read.      *)
LEMMA RefinesCrash == RInv /\ RInv' /\ Crash => Step
<1> SUFFICES ASSUME RInv, RInv', Crash PROVE Step
  BY Zenon
<1>1. /\ QueueType /\ LinesApart /\ running' = {} /\ barrier' = NULL
      /\ next' = end + 1 /\ UNCHANGED <<posted, reported>>
      /\ lost' = lost \cup next..end \cup running
                      \cup (IF barrier = NULL THEN {} ELSE {barrier})
  BY Zenon DEF RInv, IInv, TypeOK, Crash
<1>2. StatusFacts /\ StatusFacts'
  BY StatusBoth, Zenon
<1>3. \A l \in Lines : /\ l # NULL
                       /\ l \in next..end <=> l >= next /\ l <= end
                       /\ l >= end + 1 <=> l >= next /\ ~(l <= end)
  BY <1>1, ConstantsAssumption DEF QueueType, Lines, NULL
<1>4. end \in 0..MaxLine
  BY <1>1, ConstantsAssumption DEF QueueType
<1>5. ASSUME NEW l \in Lines
      PROVE  statusOf'[l] = IF \/ statusOf[l] \in {"running", "pending"}
                               \/ statusOf[l] = "waiting" /\ l <= end
                            THEN "gone" ELSE statusOf[l]
  <2>1. CASE l \in running \/ l = barrier \/ (l >= next /\ l <= end)
    <3>1. statusOf'[l] = "gone"
      BY <1>1, <1>2, <1>3, <2>1, Zenon DEF StatusFacts
    <3>2. \/ statusOf[l] \in {"running", "pending"}
          \/ statusOf[l] = "waiting" /\ l <= end
      BY <1>2, <2>1, Zenon DEF StatusFacts
    <3> QED
      BY <3>1, <3>2, Zenon
  <2>2. CASE ~(l \in running \/ l = barrier \/ (l >= next /\ l <= end))
    <3>1. l \in lost' <=> l \in lost
      BY <1>1, <1>3, <2>2, Zenon
    <3>2. statusOf'[l] = statusOf[l]
      BY <1>1, <1>2, <1>3, <2>2, <3>1, StatusSame, Zenon
    <3>3. ~(\/ statusOf[l] \in {"running", "pending"}
            \/ statusOf[l] = "waiting" /\ l <= end)
      BY <1>2, <2>2, StatusOnly, Zenon
    <3> QED
      BY <3>2, <3>3, Zenon
  <2> QED
    BY <2>1, <2>2, Zenon
<1>6. Service!Drop(end)
  BY <1>1, <1>5, StatusFunction, Zenon DEF Service!Drop, Service!Lines, Lines
<1> QED
  BY <1>4, <1>6, Zenon DEF Step, Service!Next

(* eooqd implements the service: whatever slots, files, posts and crashes  *)
(* do, the controller sees lines taken in order and at most once, barriers *)
(* kept, a result for every command that ends and nothing delivered that   *)
(* was not reported; only a crash or an unreadable queue file drops lines. *)
THEOREM Refinement == Spec => ImplementsService
<1>1. RInv /\ RInv' /\ [Next]_vars => [Service!Next]_(Service!vars)
  <2> SUFFICES ASSUME RInv, RInv', [Next]_vars PROVE Step
    BY Zenon DEF Step
  <2>1. CASE Inner
    BY <2>1, RefinesInner, Zenon
  <2>2. CASE ReadPost \/ ReadBarrier \/ ReadReload \/ ReadBad \/ ReadCommand
    BY <2>2, RefinesRead, Zenon
  <2>3. CASE FailsInStart
    <3>1. cur \in Slots /\ slots[cur] \in running /\ Report(cur, "lines")
      BY <2>3, Zenon DEF FailsInStart, RInv, LinesApart, IInv, TypeOK,
         ControlType
    <3> QED
      BY <3>1, RefinesReport, Zenon
  <2>4. CASE \E s \in Slots : Finish(s)
    BY <2>4, RefinesReport, Zenon DEF Finish
  <2> QED
    BY <2>1, <2>2, <2>3, <2>4, NextCases, RefinesBarrier, RefinesOpen,
       RefinesEnd, RefinesCrash, Zenon
<1> QED
  BY <1>1, RefinesInit, RInvariance, PTL DEF Spec, ImplementsService,
     Service!Spec
=============================================================================
