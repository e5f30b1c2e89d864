---------------------------- MODULE EooqdProofs -----------------------------
(***************************************************************************)
(* For any number of slots, lines, attempts and crashes, and any mixture   *)
(* of lines: eooqd keeps its types, finds a slot whenever it looks for     *)
(* one, starts no command twice, loses no result and keeps barriers.       *)
(***************************************************************************)
EXTENDS Eooqd, FiniteSetTheorems, TLAPS

(* Slots in use, and what they say about running commands.                 *)
Occupied == {s \in Slots : slots[s] # NULL}

SlotTable ==
  /\ currBusy = Cardinality(Occupied)
  /\ \A l \in running : \E s \in Slots : slots[s] = l
  /\ pc = "done" => slots[cur] # NULL /\ slots[cur] \notin running
  /\ pc = "start" => slots[cur] # NULL
  /\ \A s, t \in Slots : slots[s] = slots[t] /\ slots[s] # NULL => s = t
  /\ \A s \in Slots : slots[s] < next

(* Lines from next on have not been touched, and a pending barrier is the  *)
(* line read last.                                                         *)
ReadPosition ==
  /\ \A l \in Lines : l >= next => started[l] = 0
  /\ barrier # NULL => open /\ barrier = next - 1

(* What httppost is about to unlink has been received.                     *)
Posting ==
  /\ pc \in {"list", "send", "unlink"} => round < Rounds
  /\ pc = "unlink" => \A f \in doomed : outf.data[f] \subseteq posted

IInv ==
  /\ TypeOK /\ SlotTable /\ ReadPosition /\ Posting
  /\ StartedAtMostOnce /\ NoResultLost

-----------------------------------------------------------------------------

(* A non-empty set of positive numbers has a least element.                *)
LEMMA LeastElement ==
  ASSUME NEW K \in SUBSET (Nat \ {0}), K # {}
  PROVE  \E k \in K : \A j \in K : k <= j
<1> DEFINE I(k) == 1..k
           T == {I(k) : k \in K}
<1>1. T \subseteq FiniteSubsetsOf(Nat) /\ T # {}
  <2>1. \A k \in K : IsFiniteSet(I(k)) /\ I(k) \in SUBSET Nat
    BY FS_Interval
  <2> HIDE DEF I
  <2> QED
    BY <2>1, Zenon DEF FiniteSubsetsOf
<1>2. PICK x \in T : \A y \in T : ~(<<y, x>> \in StrictSubsetOrdering(Nat))
  <2> HIDE DEF T
  <2> QED
    BY <1>1, FS_StrictSubsetOrderingWellFounded, WFMin, Zenon
<1>3. PICK k \in K : x = I(k)
  BY Zenon
<1>4. ASSUME NEW j \in K PROVE k <= j
  <2>1. SUFFICES ASSUME j < k PROVE FALSE
    OBVIOUS
  <2>2. I(j) \subseteq I(k) /\ k \in I(k) /\ k \notin I(j)
    BY <2>1
  <2>3. I(j) \in SUBSET Nat /\ I(k) \in SUBSET Nat
    OBVIOUS
  <2>4. <<I(j), I(k)>> \in StrictSubsetOrdering(Nat)
    <3> HIDE DEF I
    <3> QED
      BY <2>2, <2>3, Zenon DEF StrictSubsetOrdering
  <2> QED
    BY <2>4, <1>2, <1>3, Zenon
<1> QED
  BY <1>4, Zenon

LEMMA ModSmall ==
  ASSUME NEW m \in Nat \ {0}, NEW x \in 0..(m - 1)
  PROVE  x % m = x /\ (x + m) % m = x
OBVIOUS

LEMMA FreeSlotFound ==
  ASSUME TypeOK, Cardinality(Occupied) < MaxBusy
  PROVE  \E s \in Slots : FirstFree(s)
<1> USE ConstantsAssumption
<1>1. IsFiniteSet(Slots) /\ Cardinality(Slots) = MaxBusy
  BY FS_Interval DEF Slots
<1>2. PICK f \in Slots : slots[f] = NULL
  BY <1>1 DEF Occupied
<1>3. PICK j \in 1..MaxBusy : Probe(j) = f
  <2>1. CASE f > currIndex
    <3>1. f - currIndex \in 1..MaxBusy /\ currIndex + (f - currIndex) = f
      BY <2>1 DEF Slots, TypeOK, TableType
    <3>2. Probe(f - currIndex) = f
      BY <3>1, ModSmall, Zenon DEF Probe, Slots
    <3> QED
      BY <3>1, <3>2, Zenon
  <2>2. CASE f <= currIndex
    <3>1. f - currIndex + MaxBusy \in 1..MaxBusy
           /\ currIndex + (f - currIndex + MaxBusy) = f + MaxBusy
      BY <2>2 DEF Slots, TypeOK, TableType
    <3>2. Probe(f - currIndex + MaxBusy) = f
      BY <3>1, ModSmall, Zenon DEF Probe, Slots
    <3> QED
      BY <3>1, <3>2, Zenon
  <2> QED
    BY <2>1, <2>2 DEF Slots, TypeOK, TableType
<1> DEFINE K == {k \in 1..MaxBusy : slots[Probe(k)] = NULL}
<1>4. K \in SUBSET (Nat \ {0}) /\ K # {}
  BY <1>2, <1>3
<1>5. PICK k \in K : \A i \in K : k <= i
  <2> HIDE DEF K
  <2> QED
    BY <1>4, LeastElement, Zenon
<1>6. Probe(k) \in Slots
  BY DEF Probe, Slots, TypeOK, TableType
<1>7. \A i \in 1..(k - 1) : slots[Probe(i)] # NULL
  BY <1>5
<1> QED
  BY <1>5, <1>6, <1>7, Zenon DEF FirstFree
(* Steps *)
(* Appending a result and moving files, as far as results are concerned.   *)
LEMMA AppendResult ==
  ASSUME NEW fs \in FilesType, NEW f \in Files, NEW l \in Lines
  PROVE  /\ AppendTo(fs, f, l) \in FilesType
         /\ InFile(l, AppendTo(fs, f, l))
         /\ \A k \in Lines : InFile(k, fs) => InFile(k, AppendTo(fs, f, l))
<1> DEFINE g == AppendTo(fs, f, l)
<1>1. g.has = fs.has \cup {f} /\ g.data = [fs.data EXCEPT ![f] = @ \cup {l}]
  BY Zenon DEF AppendTo
<1>2. g = [has |-> g.has, data |-> g.data]
  BY Zenon DEF AppendTo
<1>3. fs.has \in SUBSET Files /\ fs.data \in [Files -> SUBSET Lines]
  BY Zenon DEF FilesType
<1>4. g.has \in SUBSET Files /\ g.data \in [Files -> SUBSET Lines]
  BY <1>1, <1>3
<1> HIDE DEF g
<1>5. g \in FilesType
  BY <1>2, <1>4, Zenon DEF FilesType
<1>6. InFile(l, g) /\ \A k \in Lines : InFile(k, fs) => InFile(k, g)
  BY <1>1, <1>3, Zenon DEF InFile
<1> QED
  BY <1>5, <1>6, Zenon DEF g

LEMMA MoveFiles ==
  ASSUME NEW new \in FilesType, NEW out \in FilesType, NEW S
  PROVE  /\ NewAfterMove(S, new, out) \in FilesType
         /\ OutAfterMove(S, new, out) \in FilesType
         /\ \A l \in Lines : InFile(l, new) \/ InFile(l, out)
               => \/ InFile(l, NewAfterMove(S, new, out))
                  \/ InFile(l, OutAfterMove(S, new, out))
<1> DEFINE M == Movable(S, new, out)
           n == NewAfterMove(S, new, out)
           o == OutAfterMove(S, new, out)
<1>1. /\ n = [has |-> n.has, data |-> n.data]
      /\ n.has = new.has \ M
      /\ n.data = [f \in Files |-> IF f \in M THEN {} ELSE new.data[f]]
  BY Zenon DEF NewAfterMove
<1>2. /\ o = [has |-> o.has, data |-> o.data]
      /\ o.has = out.has \cup M
      /\ o.data = [f \in Files |-> IF f \in M THEN new.data[f] ELSE out.data[f]]
  BY Zenon DEF OutAfterMove
<1>3. M \subseteq new.has /\ M \cap out.has = {}
  BY Zenon DEF Movable
<1>4. /\ new.has \in SUBSET Files /\ new.data \in [Files -> SUBSET Lines]
      /\ out.has \in SUBSET Files /\ out.data \in [Files -> SUBSET Lines]
  BY Zenon DEF FilesType
<1> HIDE DEF M, n, o
<1>5. n \in FilesType
  <2>1. n.has \in SUBSET Files /\ n.data \in [Files -> SUBSET Lines]
    BY <1>1, <1>4, Zenon
  <2> QED
    BY <1>1, <2>1, Zenon DEF FilesType
<1>6. o \in FilesType
  <2>1. o.has \in SUBSET Files /\ o.data \in [Files -> SUBSET Lines]
    BY <1>2, <1>3, <1>4
  <2> QED
    BY <1>2, <2>1, Zenon DEF FilesType
<1>7. \A l \in Lines : InFile(l, new) \/ InFile(l, out) => InFile(l, n) \/ InFile(l, o)
  BY <1>1, <1>2, <1>3, <1>4, Zenon DEF InFile
<1> QED
  BY <1>5, <1>6, <1>7, Zenon DEF n, o

(* The record of a load of resolv.conf changes nothing but the presence of *)
(* its file.                                                               *)
LEMMA RecordFile ==
  ASSUME CheckResolvConf, outf \in FilesType
  PROVE  /\ outf' \in FilesType
         /\ outf.has \subseteq outf'.has /\ outf'.data = outf.data
         /\ \A l : InFile(l, outf) => InFile(l, outf')
         /\ UNCHANGED <<serverUp, crashes>> /\ resolv' \in {resolv, "loaded"}
<1>1. outf.has \in SUBSET Files /\ outf.data \in [Files -> SUBSET Lines]
  BY Zenon DEF FilesType
<1>2. RES \in Files
  BY ConstantsAssumption DEF RES, Files
<1>3. outf' = outf \/ outf' = [outf EXCEPT !.has = @ \cup {RES}]
  BY Zenon DEF CheckResolvConf
<1>4. /\ outf' \in FilesType
      /\ outf.has \subseteq outf'.has /\ outf'.data = outf.data
  BY <1>1, <1>2, <1>3, SMTT(30) DEF FilesType
<1>5. UNCHANGED <<serverUp, crashes>> /\ resolv' \in {resolv, "loaded"}
  BY Zenon DEF CheckResolvConf
<1> QED
  BY <1>4, <1>5, Zenon DEF InFile

(* A file that is unlinked takes its results with it, and no others.       *)
LEMMA WithoutFile ==
  ASSUME NEW f, outf \in FilesType
  PROVE  /\ Without(f) \in FilesType
         /\ Without(f).has = outf.has \ {f}
         /\ \A g \in Files : Without(f).data[g] = IF g = f THEN {} ELSE outf.data[g]
         /\ \A l : InFile(l, outf) => InFile(l, Without(f)) \/ l \in outf.data[f]
<1> DEFINE w == Without(f)
<1>1. /\ w = [has |-> w.has, data |-> w.data]
      /\ w.has = outf.has \ {f} /\ w.data = [outf.data EXCEPT ![f] = {}]
  BY Zenon DEF Without
<1>2. outf.has \in SUBSET Files /\ outf.data \in [Files -> SUBSET Lines]
  BY Zenon DEF FilesType
<1> HIDE DEF w
<1>3. w.has \in SUBSET Files /\ w.data \in [Files -> SUBSET Lines]
  BY <1>1, <1>2
<1>4. w \in FilesType
  BY <1>1, <1>3, Zenon DEF FilesType
<1>5. \A g \in Files : w.data[g] = IF g = f THEN {} ELSE outf.data[g]
  BY <1>1, <1>2, Zenon
<1>6. \A l : InFile(l, outf) => InFile(l, w) \/ l \in outf.data[f]
  BY <1>1, <1>2, <1>5, Zenon DEF InFile
<1> QED
  BY <1>1, <1>4, <1>5, <1>6, Zenon DEF w

(* What the steps of httppost before the connection leave alone.           *)
LEMMA ListingFrame ==
  ASSUME NoPost \/ ListFiles \/ DropFile
  PROVE  /\ UNCHANGED <<cur, queued, end, next, open, slots, currBusy, currIndex>>
         /\ UNCHANGED <<running, barrier, newf, serverUp, resolv, crashes>>
         /\ UNCHANGED <<started, passed, reported, posted, lost>>
         /\ pc \in {"list", "send"}
         /\ \/ pc' = ret /\ ret' = "loop" /\ force' = FALSE /\ round' = 0
                /\ doomed' = {} /\ UNCHANGED <<outf, given>>
            \/ pc' = "send" /\ doomed' \subseteq outf.has
                /\ UNCHANGED <<ret, force, round, outf, given>>
            \/ pc' = pc /\ UNCHANGED <<ret, force, round, doomed>>
                /\ \E f \in outf.has : outf' = Without(f) /\ given' = given \cup outf.data[f]
<1> USE DEF queue, table, history, env, posting
<1>1. CASE NoPost
  BY <1>1, Zenon DEF NoPost, PostReturns
<1>2. CASE ListFiles
  BY <1>2, Zenon DEF ListFiles
<1>3. CASE DropFile
  BY <1>3, Zenon DEF DropFile, TooBig
<1> QED
  BY <1>1, <1>2, <1>3, Zenon

LEMMA InitIInv == Init => IInv
<1> SUFFICES ASSUME Init PROVE IInv
  BY Zenon
<1> USE ConstantsAssumption DEF Init, Slots, Lines, NULL
<1>1. Occupied = {}
  BY Zenon DEF Occupied
<1>2. NoFiles \in FilesType
  <2>1. [f \in Files |-> {}] \in [Files -> SUBSET Lines]
    BY Zenon
  <2> QED
    BY <2>1, Zenon DEF NoFiles, FilesType
<1>3. TypeOK
  <2>1. ControlType
    BY DEF ControlType
  <2>2. QueueType
    BY DEF QueueType
  <2>3. TableType
    BY DEF TableType
  <2>4. HistoryType
    BY Zenon DEF HistoryType
  <2>5. FlagsType
    BY Zenon DEF FlagsType
  <2> QED
    BY <1>2, <2>1, <2>2, <2>3, <2>4, <2>5, Zenon DEF TypeOK
<1>4. SlotTable
  BY <1>1, FS_EmptySet DEF SlotTable
<1> QED
  BY <1>3, <1>4 DEF IInv, ReadPosition, Posting, StartedAtMostOnce,
     NoResultLost

(* The files hold results of lines, and nothing else.                       *)
LEMMA NextFiles == IInv /\ [Next]_vars => (newf' \in FilesType /\ outf' \in FilesType)
<1> SUFFICES ASSUME IInv, [Next]_vars PROVE (newf' \in FilesType /\ outf' \in FilesType)
  BY Zenon
<1> USE ConstantsAssumption DEF IInv, TypeOK, ControlType, QueueType,
    TableType, queue, table, posting, history, env
<1>0. CASE LoopEnds \/ BarrierWait \/ ReadReload
  BY <1>0, RecordFile, Zenon DEF LoopEnds, BarrierWait, ReadReload
<1>1. CASE Enqueue \/ ServerChange \/ ResolvConfChange \/ OpenQueue \/
          ResumeQueue
  BY <1>1, Zenon DEF Enqueue, ServerChange, ResolvConfChange, OpenQueue,
     ResumeQueue
<1>2. CASE BarrierCreate \/ EndOfFile \/ ReadPost \/ ReadBarrier
  BY <1>2, Zenon DEF BarrierCreate, EndOfFile, ReadPost, ReadBarrier
<1>3. CASE ReadBad
  <2>1. AppendTo(newf, OOQ, next) \in FilesType
    BY <1>3, AppendResult DEF ReadBad, NextLine, OOQ, RES, Files, Lines
  <2> QED
    BY <1>3, <2>1, MoveFiles, Zenon DEF ReadBad, MoveResults
<1>4. CASE ReadCommand
  <2>1. newf.has \in SUBSET Files /\ newf.data \in [Files -> SUBSET Lines]
    BY Zenon DEF FilesType
  <2>2. PICK s \in Slots : newf' \in {newf, [newf EXCEPT !.has = @ \cup {s}]}
    BY <1>4, Zenon DEF ReadCommand
  <2>3. newf.has \cup {s} \in SUBSET Files
    BY <2>1, SMTT(30) DEF Slots, RES, Files
  <2> QED
    BY <1>4, <2>1, <2>2, <2>3, Zenon DEF ReadCommand, FilesType
<1>5. CASE StartReturns \/ RePost \/ RoundsOver \/ SendOk \/ SendNotOk \/
          SendFails \/ UnlinkDone \/ Crash
  BY <1>5, Zenon DEF StartReturns, RePost, CallPostResults, RoundsOver, SendOk,
     SendNotOk, SendFails, UnlinkDone, Crash
<1>6. CASE FailsInStart
  BY <1>6, AppendResult DEF FailsInStart, Report, SlotTable, Slots, RES, Files
<1>7. CASE CmdDone
  BY <1>7, MoveFiles, Zenon DEF CmdDone, MoveResults
<1>8. CASE Gather
  BY <1>8, MoveFiles, Zenon DEF Gather, MoveResults
<1>9. CASE UnlinkOne
  BY <1>9, WithoutFile, Zenon DEF UnlinkOne
<1>10. ASSUME NEW s \in Slots, Finish(s) PROVE (newf' \in FilesType /\ outf' \in FilesType)
  BY <1>10, AppendResult DEF Finish, Report, Slots, RES, Files
<1>11. CASE UNCHANGED vars
  BY <1>11, Zenon DEF vars
<1>12. CASE NoPost \/ ListFiles \/ DropFile
  BY <1>12, ListingFrame, WithoutFile, Zenon
<1> QED
  BY <1>0, <1>12, <1>1, <1>2, <1>3, <1>4, <1>5, <1>6, <1>7, <1>8, <1>9, <1>10, <1>11, Zenon
     DEF Next, CheckQueue, AddLine, PostResults, HttpPost, Thread

(* Control stays within its states and the attempts to post are bounded.    *)
LEMMA NextControl == IInv /\ [Next]_vars => ControlType'
<1> SUFFICES ASSUME IInv, [Next]_vars PROVE ControlType'
  BY Zenon
<1> USE ConstantsAssumption DEF IInv, TypeOK, ControlType, Posting, queue,
    table, posting, history, env
<1>1. CASE Enqueue \/ ServerChange \/ ResolvConfChange \/ OpenQueue \/
          ResumeQueue \/ LoopEnds
  BY <1>1, Zenon DEF Enqueue, ServerChange, ResolvConfChange, OpenQueue,
     ResumeQueue, LoopEnds, CheckResolvConf
<1>2. CASE BarrierWait \/ BarrierCreate \/ EndOfFile \/ ReadPost \/
          ReadBarrier \/ ReadReload \/ ReadBad \/ ReadCommand
  <2>1. /\ pc' \in {pc, "loop", "post", "start"} /\ ret' \in {ret, "lines"}
        /\ cur' = cur \/ cur' \in Slots
        /\ round' = round \/ round' = 0
        /\ UNCHANGED <<doomed, crashes>>
    BY <1>2, Zenon DEF BarrierWait, CheckResolvConf, BarrierCreate, EndOfFile,
       ReadPost, CallPostResults, ReadBarrier, ReadReload, ReadBad, ReadCommand
  <2> QED
    BY <2>1
<1>3. CASE FailsInStart \/ StartReturns \/ CmdDone \/ RePost \/ Gather \/
          RoundsOver \/ SendOk \/ SendNotOk \/ SendFails \/ UnlinkOne \/ UnlinkDone
  <2>1. /\ pc' \in {ret, "loop", "lines", "done", "post", "list", "send", "unlink"}
        /\ ret' \in {ret, "loop", "lines"} /\ cur' \in {cur, 0}
        /\ \/ round' = round \/ round' = 0
           \/ pc \in {"send", "unlink"} /\ round' = round + 1
        /\ doomed' \subseteq doomed /\ UNCHANGED crashes
    BY <1>3, ZenonT(30) DEF FailsInStart, Report, StartReturns, CmdDone,
       CallPostResults, PostReturns, RePost, Gather, RoundsOver, SendOk,
       SendNotOk, SendFails, UnlinkOne, UnlinkDone
  <2>2. round \in 0..Rounds /\ Rounds \in Nat
        /\ (pc \in {"send", "unlink"} => round < Rounds)
    BY Zenon
  <2>3. round' \in 0..Rounds
    BY ONLY <2>1, <2>2
  <2>4. 0 \in Slots
    BY DEF Slots
  <2> QED
    BY <2>1, <2>3, <2>4, Zenon
<1>4. CASE NoPost \/ ListFiles \/ DropFile
  <2>1. outf.has \in SUBSET Files
    BY Zenon DEF FilesType
  <2>2. 0 \in 0..Rounds
    OBVIOUS
  <2> QED
    BY <1>4, <2>1, <2>2, ListingFrame, Zenon
<1>5. CASE Crash
  BY <1>5 DEF Crash, Slots
<1>6. ASSUME NEW s \in Slots, Finish(s) PROVE ControlType'
  BY <1>6, Zenon DEF Finish, Report
<1>7. CASE UNCHANGED vars
  BY <1>7, Zenon DEF vars
<1> QED
  BY <1>1, <1>2, <1>3, <1>4, <1>5, <1>6, <1>7, Zenon
     DEF Next, CheckQueue, AddLine, PostResults, HttpPost, Thread

(* The queue is touched by checkQueue, add_line and restarts only.          *)
LEMMA QueueFrame ==
  ASSUME FailsInStart \/ StartReturns \/ CmdDone \/ RePost \/ Gather \/
         RoundsOver \/ NoPost \/ ListFiles \/ DropFile \/ SendOk \/
         SendNotOk \/ SendFails \/ UnlinkOne \/ UnlinkDone
  PROVE  UNCHANGED <<queued, end, next, open, barrier, started>>
<1> USE DEF queue, history
<1>1. CASE FailsInStart
  BY <1>1, Zenon DEF FailsInStart, Report
<1>2. CASE StartReturns
  BY <1>2, Zenon DEF StartReturns
<1>3. CASE CmdDone
  BY <1>3, Zenon DEF CmdDone
<1>4. CASE RePost \/ Gather \/ RoundsOver
  BY <1>4, Zenon DEF RePost, Gather, RoundsOver
<1>5. CASE SendOk \/ SendNotOk \/ SendFails
  BY <1>5, Zenon DEF SendOk, SendNotOk, SendFails
<1>6. CASE UnlinkOne
  BY <1>6, Zenon DEF UnlinkOne
<1>7. CASE UnlinkDone
  BY <1>7, Zenon DEF UnlinkDone
<1>8. CASE NoPost \/ ListFiles \/ DropFile
  BY <1>8, ListingFrame, Zenon
<1> QED
  BY <1>1, <1>2, <1>3, <1>4, <1>5, <1>6, <1>7, <1>8, Zenon

(* The position in the queue stays within the lines read and queued.        *)
LEMMA NextQueue == IInv /\ [Next]_vars => QueueType'
<1> SUFFICES ASSUME IInv, [Next]_vars PROVE QueueType'
  BY Zenon
<1> USE ConstantsAssumption DEF IInv, TypeOK, QueueType, Lines, queue, table,
    posting, history, env
<1>1. CASE Enqueue \/ ServerChange \/ ResolvConfChange \/ OpenQueue \/
          ResumeQueue \/ LoopEnds
  BY <1>1, SMTT(30) DEF Enqueue, ServerChange, ResolvConfChange, OpenQueue,
     ResumeQueue, LoopEnds, CheckResolvConf
<1>2. CASE BarrierWait \/ BarrierCreate \/ EndOfFile \/ ReadPost \/
          ReadBarrier \/ ReadReload \/ ReadBad \/ ReadCommand
  BY <1>2, SMTT(30) DEF BarrierWait, InLoop, CheckResolvConf, BarrierCreate, EndOfFile,
     ReadPost, NextLine, CallPostResults, ReadBarrier, ReadReload, ReadBad,
     ReadCommand
<1>3. CASE FailsInStart \/ StartReturns \/ CmdDone \/ RePost \/ Gather \/
          RoundsOver \/ NoPost \/ ListFiles \/ DropFile \/ SendOk \/
          SendNotOk \/ SendFails \/ UnlinkOne \/ UnlinkDone
  BY <1>3, QueueFrame, Zenon
<1>4. ASSUME NEW s \in Slots, Finish(s) PROVE QueueType'
  BY <1>4, Zenon DEF Finish, Report
<1>5. CASE UNCHANGED vars
  BY <1>5, Zenon DEF vars
<1>6. CASE Crash
  BY <1>6 DEF Crash
<1> QED
  BY <1>1, <1>2, <1>3, <1>4, <1>5, <1>6, Zenon
     DEF Next, CheckQueue, AddLine, PostResults, HttpPost, Thread

(* The Boolean state stays Boolean.                                         *)
LEMMA NextFlags == IInv /\ [Next]_vars => FlagsType'
<1> SUFFICES ASSUME IInv, [Next]_vars PROVE FlagsType'
  BY Zenon
<1> USE ConstantsAssumption DEF IInv, TypeOK, FlagsType, CallPostResults,
    queue, table, posting, history, env
<1>1. CASE Enqueue \/ ServerChange \/ ResolvConfChange \/ OpenQueue \/
          ResumeQueue \/ LoopEnds
  BY <1>1, Zenon DEF Enqueue, ServerChange, ResolvConfChange, OpenQueue,
     ResumeQueue, LoopEnds, CheckResolvConf
<1>2. CASE BarrierWait \/ BarrierCreate \/ EndOfFile \/ ReadPost \/
          ReadBarrier \/ ReadReload \/ ReadBad \/ ReadCommand
  BY <1>2, Zenon DEF BarrierWait, InLoop, CheckResolvConf, BarrierCreate,
     EndOfFile,
     ReadPost, NextLine, ReadBarrier, ReadReload, ReadBad, ReadCommand
<1>3. CASE FailsInStart \/ StartReturns \/ CmdDone \/ RePost \/ Gather \/
          RoundsOver \/ SendOk \/ SendNotOk \/ SendFails \/ UnlinkOne \/
          UnlinkDone \/ Crash
  BY <1>3, Zenon DEF FailsInStart, Report, StartReturns, CmdDone, RePost,
     Gather, PostReturns,
     RoundsOver, SendOk, SendNotOk, SendFails, UnlinkOne, UnlinkDone, Crash
<1>4. ASSUME NEW s \in Slots, Finish(s) PROVE FlagsType'
  BY <1>4, Zenon DEF Finish, Report
<1>5. CASE UNCHANGED vars
  BY <1>5, Zenon DEF vars
<1>6. CASE NoPost \/ ListFiles \/ DropFile
  BY <1>6, ListingFrame, Zenon
<1> QED
  BY <1>6, <1>1, <1>2, <1>3, <1>4, <1>5, Zenon
     DEF Next, CheckQueue, AddLine, PostResults, HttpPost, Thread

(* What taking and freeing a slot do to the number of slots in use.        *)
LEMMA SlotsInUse ==
  ASSUME TypeOK
  PROVE  /\ IsFiniteSet(Occupied) /\ Cardinality(Occupied) \in Nat
         /\ \A s \in Occupied : Cardinality(Occupied \ {s}) = Cardinality(Occupied) - 1
         /\ \A s \in Slots \ Occupied :
               Cardinality(Occupied \cup {s}) = Cardinality(Occupied) + 1
         /\ \A s \in Occupied : Cardinality(Occupied) > 0
         /\ Cardinality(Occupied) = 0 => Occupied = {}
<1>1. IsFiniteSet(Occupied)
  <2>1. IsFiniteSet(Slots)
    BY ConstantsAssumption, FS_Interval DEF Slots
  <2> QED
    BY <2>1, FS_Subset, Zenon DEF Occupied
<1>2. Cardinality(Occupied) \in Nat
  BY <1>1, FS_CardinalityType, Zenon
<1>3. \A s \in Occupied : Cardinality(Occupied \ {s}) = Cardinality(Occupied) - 1
  BY <1>1, FS_RemoveElement, Zenon
<1>4. \A s \in Slots \ Occupied :
         Cardinality(Occupied \cup {s}) = Cardinality(Occupied) + 1
  BY <1>1, FS_AddElement, Zenon
<1>5. Cardinality(Occupied) = 0 => Occupied = {}
  BY <1>1, FS_EmptySet, Zenon
<1> QED
  BY <1>1, <1>2, <1>3, <1>4, <1>5

(* A line that add_line reads is one of those queued, and there is room.   *)
LEMMA LineRead ==
  ASSUME NEW kind, QueueType, NextLine(kind)
  PROVE  /\ next \in Lines /\ next <= end /\ next' = next + 1 /\ barrier = NULL
         /\ open /\ currBusy < MaxBusy /\ UNCHANGED <<queued, end, open>>
<1>1. /\ next <= end /\ next' = next + 1 /\ barrier = NULL
      /\ open /\ currBusy < MaxBusy /\ UNCHANGED <<queued, end, open>>
  BY Zenon DEF NextLine, InLoop
<1>2. next \in Lines
  BY <1>1, ConstantsAssumption DEF QueueType, Lines
<1> QED
  BY <1>1, <1>2, Zenon

(* Slots hold lines and the busy count stays within the number of slots.    *)
LEMMA NextTable == IInv /\ [Next]_vars => TableType'
<1> SUFFICES ASSUME IInv, [Next]_vars PROVE TableType'
  BY Zenon
<1> USE ConstantsAssumption DEF IInv, TypeOK, ControlType, QueueType,
    TableType, Lines, queue, table, posting, history, env
<1>1. CASE Enqueue \/ ServerChange \/ ResolvConfChange \/ OpenQueue \/
          ResumeQueue \/ LoopEnds
  BY <1>1, Zenon DEF Enqueue, ServerChange, ResolvConfChange, OpenQueue,
     ResumeQueue, LoopEnds, CheckResolvConf
<1>2. CASE BarrierWait \/ BarrierCreate \/ EndOfFile \/ ReadPost \/
          ReadBarrier \/ ReadReload \/ ReadBad
  BY <1>2, Zenon DEF BarrierWait, InLoop, CheckResolvConf, BarrierCreate,
     EndOfFile,
     ReadPost, NextLine, CallPostResults, ReadBarrier, ReadReload, ReadBad
<1>3. CASE ReadCommand
  <2>1. next \in Lines /\ currBusy < MaxBusy /\ currBusy' = currBusy + 1
    BY <1>3, LineRead, Zenon DEF ReadCommand
  <2>2. PICK s \in Slots : slots' = [slots EXCEPT ![s] = next] /\ currIndex' = s
    BY <1>3, Zenon DEF ReadCommand
  <2>3. slots' \in [Slots -> Lines \cup {NULL}] /\ currIndex' \in Slots
    BY <2>1, <2>2, Zenon
  <2>4. currBusy' \in 0..MaxBusy
    <3>1. currBusy \in 0..MaxBusy /\ MaxBusy \in Nat
      BY Zenon
    <3> QED
      BY ONLY <2>1, <3>1
  <2>5. running' \subseteq Lines
    BY <1>3, <2>1, Zenon DEF ReadCommand
  <2> QED
    BY <2>3, <2>4, <2>5, Zenon
<1>4. CASE FailsInStart \/ StartReturns \/ RePost \/ Gather \/ RoundsOver \/
          SendOk \/ SendNotOk \/ SendFails \/ UnlinkOne \/ UnlinkDone
  BY <1>4, Zenon DEF FailsInStart, Report, StartReturns, RePost,
     CallPostResults,
     Gather, RoundsOver, SendOk, SendNotOk, SendFails, UnlinkOne, UnlinkDone
<1>5. CASE CmdDone
  <2>1. CASE slots[cur] \in Stuck
    BY <1>5, <2>1, Zenon DEF CmdDone
  <2>2. CASE slots[cur] \notin Stuck
    <3>1. cur \in Occupied
      BY <1>5, Zenon DEF CmdDone, SlotTable, Occupied
    <3> QED
      BY <1>5, <2>2, <3>1, SlotsInUse, SMTT(30) DEF CmdDone, SlotTable
  <2> QED
    BY <2>1, <2>2, Zenon
<1>6. CASE Crash
  BY <1>6 DEF Crash, Slots, NULL
<1>7. ASSUME NEW s \in Slots, Finish(s) PROVE TableType'
  BY <1>7, Zenon DEF Finish, Report
<1>8. CASE UNCHANGED vars
  BY <1>8, Zenon DEF vars
<1>9. CASE NoPost \/ ListFiles \/ DropFile
  BY <1>9, ListingFrame, Zenon
<1> QED
  BY <1>1, <1>2, <1>3, <1>4, <1>5, <1>6, <1>7, <1>8, <1>9, Zenon
     DEF Next, CheckQueue, AddLine, PostResults, HttpPost, Thread

LEMMA ResultsType ==
  ASSUME outf \in FilesType, doomed \subseteq Files
  PROVE  ResultsIn(doomed) \subseteq Lines
<1>1. outf.data \in [Files -> SUBSET Lines]
  BY Zenon DEF FilesType
<1> QED
  BY <1>1, Zenon DEF ResultsIn

(* The history variables count and collect lines.                          *)
LEMMA NextHistory == IInv /\ [Next]_vars => HistoryType'
<1> SUFFICES ASSUME IInv, [Next]_vars PROVE HistoryType'
  BY Zenon
<1> USE ConstantsAssumption DEF IInv, TypeOK, ControlType, QueueType,
    TableType, HistoryType, Lines, NULL, queue, table, posting, history, env
<1>1. CASE Enqueue \/ ServerChange \/ ResolvConfChange \/ ResumeQueue \/
          LoopEnds
  BY <1>1, Zenon DEF Enqueue, ServerChange, ResolvConfChange, ResumeQueue,
     LoopEnds,
     CheckResolvConf
<1>2. CASE OpenQueue
  <2>1. (end + 1)..queued \subseteq Lines
    OBVIOUS
  <2> HIDE DEF Lines
  <2> QED
    BY <1>2, <2>1, Zenon DEF OpenQueue
<1>3. CASE BarrierWait \/ ReadPost \/ ReadBarrier \/ ReadReload
  BY <1>3, Zenon DEF BarrierWait, ReadPost, ReadBarrier, ReadReload
<1>0. CASE EndOfFile
  <2>1. next..end \subseteq Lines
    OBVIOUS
  <2> HIDE DEF Lines
  <2> QED
    BY <1>0, <2>1, Zenon DEF EndOfFile
<1>4. CASE BarrierCreate
  BY <1>4, Zenon DEF BarrierCreate
<1>5. CASE ReadBad
  BY <1>5 DEF ReadBad, NextLine
<1>6. CASE ReadCommand
  <2>1. next \in Lines
    BY <1>6, LineRead, Zenon DEF ReadCommand
  <2>2. started' = [started EXCEPT ![next] = started[next] + 1]
    BY <1>6, Zenon DEF ReadCommand
  <2>3. started' \in [Lines -> Nat]
    BY <2>1, <2>2
  <2> QED
    BY <1>6, <2>3, Zenon DEF ReadCommand
<1>7. CASE StartReturns \/ CmdDone \/ RePost \/ Gather \/ RoundsOver \/
          UnlinkOne \/ UnlinkDone
  BY <1>7, ZenonT(30) DEF StartReturns, CmdDone, CallPostResults, RePost,
     Gather,
     RoundsOver, UnlinkOne, UnlinkDone
<1>8. CASE FailsInStart
  <2>1. slots[cur] \in Lines
    BY <1>8, Zenon DEF FailsInStart, SlotTable
  <2> QED
    BY <1>8, <2>1, Zenon DEF FailsInStart, Report
<1>9. CASE SendOk
  BY <1>9, ResultsType, ZenonT(30) DEF SendOk
<1>10. CASE SendNotOk
  BY <1>10, ResultsType, Zenon DEF SendNotOk
<1>11. CASE SendFails
  BY <1>11, ResultsType, Zenon DEF SendFails
<1>12. CASE Crash
  BY <1>12 DEF Crash
<1>13. ASSUME NEW s \in Slots, Finish(s) PROVE HistoryType'
  BY <1>13, Zenon DEF Finish, Report
<1>14. CASE UNCHANGED vars
  BY <1>14, Zenon DEF vars
<1>15. CASE NoPost \/ ListFiles \/ DropFile
  <2>1. \A f \in outf.has : outf.data[f] \subseteq Lines
    BY Zenon DEF FilesType
  <2> HIDE DEF Lines
  <2> QED
    BY <1>15, <2>1, ListingFrame, Zenon
<1> QED
  BY <1>0, <1>15, <1>1, <1>2, <1>3, <1>4, <1>5, <1>6, <1>7, <1>8, <1>9, <1>10, <1>11,
     <1>12, <1>13, <1>14, Zenon
     DEF Next, CheckQueue, AddLine, PostResults, HttpPost, Thread

(* Lines not yet read are untouched.                                        *)
LEMMA NextReadPosition == IInv /\ [Next]_vars => ReadPosition'
<1> SUFFICES ASSUME IInv, [Next]_vars PROVE ReadPosition'
  BY Zenon
<1> USE ConstantsAssumption DEF IInv, TypeOK, QueueType, HistoryType,
    ReadPosition, Lines, queue, table, posting, history, env
<1>1. CASE Enqueue \/ ServerChange \/ ResolvConfChange \/ OpenQueue \/
          ResumeQueue \/ LoopEnds
  <2>1. CASE OpenQueue
    <3>1. barrier = NULL /\ barrier' = barrier /\ started' = started
      BY <1>1, <2>1, Zenon DEF OpenQueue
    <3>2. next' \in Int /\ next <= next'
      BY <2>1 DEF OpenQueue
    <3> QED
      BY <3>1, <3>2
  <2>2. CASE ~OpenQueue
    <3>1. UNCHANGED <<next, open, barrier, started>>
      BY <1>1, <2>2, Zenon DEF Enqueue, ServerChange, ResolvConfChange,
         ResumeQueue, LoopEnds
    <3> QED
      BY <3>1, Zenon
  <2> QED
    BY <2>1, <2>2, Zenon
<1>2. CASE BarrierWait
  BY <1>2, Zenon DEF BarrierWait, InLoop, CheckResolvConf
<1>3. CASE BarrierCreate
  BY <1>3, Zenon DEF BarrierCreate, InLoop
<1>4. CASE EndOfFile
  BY <1>4 DEF EndOfFile, InLoop
<1>5. CASE ReadPost
  BY <1>5 DEF ReadPost, NextLine, InLoop
<1>6. CASE ReadBarrier
  BY <1>6 DEF ReadBarrier, NextLine, InLoop
<1>7. CASE ReadReload
  BY <1>7 DEF ReadReload, NextLine, InLoop
<1>8. CASE ReadBad
  BY <1>8 DEF ReadBad, NextLine, InLoop
<1>9. CASE ReadCommand
  <2>1. /\ next \in Lines /\ next' = next + 1 /\ barrier = NULL
        /\ barrier' = barrier
    BY <1>9, LineRead, Zenon DEF ReadCommand
  <2>2. \A l \in Lines : l # next => started'[l] = started[l]
    BY <1>9, <2>1, Zenon DEF ReadCommand
  <2>3. \A l \in Lines : l >= next + 1 => l >= next /\ l # next
    BY ONLY <2>1 DEF Lines
  <2> QED
    BY <2>1, <2>2, <2>3, Zenon
<1>10. CASE FailsInStart \/ StartReturns \/ CmdDone \/ RePost \/ Gather \/
          RoundsOver \/ NoPost \/ ListFiles \/ DropFile \/ SendOk \/
          SendNotOk \/ SendFails \/ UnlinkOne \/ UnlinkDone
  BY <1>10, QueueFrame, Zenon
<1>11. ASSUME NEW s \in Slots, Finish(s) PROVE ReadPosition'
  BY <1>11, Zenon DEF Finish, Report
<1>12. CASE UNCHANGED vars
  BY <1>12, Zenon DEF vars
<1>13. CASE Crash
  BY <1>13 DEF Crash
<1> QED
  BY <1>1, <1>2, <1>3, <1>4, <1>5, <1>6, <1>7, <1>8, <1>9, <1>10, <1>11,
     <1>12, <1>13, Zenon
     DEF Next, CheckQueue, AddLine, PostResults, HttpPost, Thread

(* A command is started when its line is read, and only then.               *)
LEMMA NextStarted == IInv /\ [Next]_vars => StartedAtMostOnce'
<1> SUFFICES ASSUME IInv, [Next]_vars PROVE StartedAtMostOnce'
  BY Zenon
<1> USE ConstantsAssumption DEF IInv, TypeOK, QueueType, HistoryType,
    ReadPosition, StartedAtMostOnce, Lines, queue, table, posting, history,
    env
<1>1. CASE Enqueue \/ ServerChange \/ ResolvConfChange \/ OpenQueue \/
          ResumeQueue \/ LoopEnds
  BY <1>1, Zenon DEF Enqueue, ServerChange, ResolvConfChange, OpenQueue,
     ResumeQueue, LoopEnds, CheckResolvConf
<1>2. CASE BarrierWait \/ BarrierCreate \/ EndOfFile \/ ReadPost \/
          ReadBarrier \/ ReadReload \/ ReadBad
  BY <1>2, ZenonT(30) DEF BarrierWait, InLoop, CheckResolvConf, BarrierCreate,
     EndOfFile,
     ReadPost, NextLine, CallPostResults, ReadBarrier, ReadReload, ReadBad
<1>3. CASE ReadCommand
  <2>1. next \in Lines /\ started[next] = 0
    BY <1>3 DEF ReadCommand, NextLine
  <2>2. started' = [started EXCEPT ![next] = started[next] + 1]
    BY <1>3, Zenon DEF ReadCommand
  <2> QED
    BY <2>1, <2>2
<1>4. CASE FailsInStart \/ StartReturns \/ CmdDone \/ RePost \/ Gather \/
          RoundsOver \/ NoPost \/ ListFiles \/ DropFile \/ SendOk \/
          SendNotOk \/ SendFails \/ UnlinkOne \/ UnlinkDone \/ Crash
  BY <1>4, QueueFrame, Zenon DEF Crash
<1>5. ASSUME NEW s \in Slots, Finish(s) PROVE StartedAtMostOnce'
  BY <1>5, Zenon DEF Finish, Report
<1>6. CASE UNCHANGED vars
  BY <1>6, Zenon DEF vars
<1> QED
  BY <1>1, <1>2, <1>3, <1>4, <1>5, <1>6, Zenon
     DEF Next, CheckQueue, AddLine, PostResults, HttpPost, Thread

(* Only what the controller has is unlinked.                                *)
LEMMA NextPosting == IInv /\ [Next]_vars => Posting'
<1> SUFFICES ASSUME IInv, [Next]_vars PROVE Posting'
  BY Zenon
<1> USE ConstantsAssumption DEF IInv, TypeOK, ControlType, Posting, queue,
    table, posting, history, env
<1>1. CASE Enqueue \/ ServerChange \/ ResolvConfChange \/ OpenQueue \/
          ResumeQueue \/ LoopEnds
  BY <1>1, ZenonT(30) DEF Enqueue, ServerChange, ResolvConfChange, OpenQueue,
     ResumeQueue, LoopEnds, CheckResolvConf
<1>2. CASE BarrierWait \/ BarrierCreate \/ EndOfFile \/ ReadPost \/
          ReadBarrier \/ ReadReload \/ ReadBad \/ ReadCommand
  BY <1>2, Zenon DEF BarrierWait, InLoop, CheckResolvConf, BarrierCreate,
     EndOfFile,
     ReadPost, NextLine, CallPostResults, ReadBarrier, ReadReload, ReadBad,
     ReadCommand
<1>3. CASE FailsInStart \/ StartReturns \/ CmdDone \/ RePost \/ Gather \/
          RoundsOver \/ SendNotOk \/ SendFails \/ UnlinkDone \/ Crash
  BY <1>3, Zenon DEF FailsInStart, Report, StartReturns, CmdDone,
     CallPostResults, PostReturns,
     RePost, Gather, RoundsOver, SendNotOk, SendFails, UnlinkDone, Crash
<1>4. CASE SendOk
  <2>1. \A f \in doomed : outf.data[f] \subseteq ResultsIn(doomed)
    BY Zenon DEF ResultsIn
  <2> QED
    BY <1>4, <2>1, ZenonT(30) DEF SendOk
<1>8. CASE NoPost \/ ListFiles \/ DropFile
  BY <1>8, ListingFrame, Zenon
<1>5. CASE UnlinkOne
  <2>0. PICK f \in doomed : doomed' = doomed \ {f} /\ outf' = Without(f)
    BY <1>5, Zenon DEF UnlinkOne
  <2>1. \A g \in Files : outf'.data[g] = IF g = f THEN {} ELSE outf.data[g]
    BY <2>0, WithoutFile, Zenon
  <2>2. pc = "unlink" /\ pc' = pc /\ round' = round /\ posted' = posted
    BY <1>5, ZenonT(30) DEF UnlinkOne
  <2>3. doomed \subseteq Files /\ \A g \in doomed : outf.data[g] \subseteq posted
    BY <2>2, Zenon
  <2>4. \A g \in doomed' : outf'.data[g] \subseteq posted'
    BY <2>0, <2>1, <2>2, <2>3, Zenon
  <2> QED
    BY <2>2, <2>4, Zenon
<1>6. ASSUME NEW s \in Slots, Finish(s) PROVE Posting'
  BY <1>6, Zenon DEF Finish, Report
<1>7. CASE UNCHANGED vars
  BY <1>7, Zenon DEF vars
<1> QED
  BY <1>8, <1>1, <1>2, <1>3, <1>4, <1>5, <1>6, <1>7, Zenon
     DEF Next, CheckQueue, AddLine, PostResults, HttpPost, Thread

(* Appending, moving and unlinking keep every result that was not received. *)
LEMMA NextNoResultLost == IInv /\ [Next]_vars => NoResultLost'
<1> SUFFICES ASSUME IInv, [Next]_vars PROVE NoResultLost'
  BY Zenon
<1> USE ConstantsAssumption DEF IInv, TypeOK, QueueType, TableType,
    HistoryType, NoResultLost, queue, table, posting, history, env
<1>0. CASE LoopEnds \/ BarrierWait \/ ReadReload
  <2>1. newf' = newf /\ \A l : InFile(l, outf) => InFile(l, outf')
    BY <1>0, RecordFile, Zenon DEF LoopEnds, BarrierWait, ReadReload
  <2> QED
    BY <1>0, <2>1, Zenon DEF LoopEnds, BarrierWait, ReadReload
<1>1. CASE Enqueue \/ ServerChange \/ ResolvConfChange \/ OpenQueue \/
          ResumeQueue
  BY <1>1, Zenon DEF Enqueue, ServerChange, ResolvConfChange, OpenQueue,
     ResumeQueue
<1>2. CASE BarrierCreate \/ EndOfFile \/ ReadPost \/ ReadBarrier
  BY <1>2, ZenonT(30) DEF BarrierCreate, EndOfFile, ReadPost, ReadBarrier
<1>3. CASE ReadBad
  <2> DEFINE new == AppendTo(newf, OOQ, next)
  <2>1. next \in Lines /\ OOQ \in Files
    BY <1>3 DEF ReadBad, NextLine, OOQ, RES, Files, Lines
  <2>2. /\ new \in FilesType /\ InFile(next, new)
        /\ \A k \in Lines : InFile(k, newf) => InFile(k, new)
    BY <2>1, AppendResult, Zenon
  <2> HIDE DEF new
  <2>3. newf' = NewAfterMove({OOQ}, new, outf) /\ outf' = OutAfterMove({OOQ}, new, outf)
    BY <1>3, Zenon DEF ReadBad, MoveResults, new
  <2>4. \A l \in Lines : InFile(l, new) \/ InFile(l, outf) => InFile(l, newf') \/ InFile(l, outf')
    BY <2>2, <2>3, MoveFiles, Zenon
  <2>5. reported' = reported \cup {next} /\ posted' = posted /\ given' = given
    BY <1>3, Zenon DEF ReadBad
  <2> QED
    BY <2>1, <2>2, <2>4, <2>5, Zenon
<1>4. CASE ReadCommand
  <2>1. \A l : InFile(l, newf) => InFile(l, newf')
    <3>1. newf.has \subseteq newf'.has /\ newf'.data = newf.data
      BY <1>4 DEF ReadCommand, FilesType
    <3> QED
      BY <3>1, Zenon DEF InFile
  <2> QED
    BY <1>4, <2>1, Zenon DEF ReadCommand
<1>5. CASE StartReturns \/ RePost \/ RoundsOver \/ SendOk \/ SendNotOk \/
          SendFails \/ UnlinkDone \/ Crash
  BY <1>5, ZenonT(30) DEF StartReturns, RePost, RoundsOver, SendOk,
     SendNotOk, SendFails, UnlinkDone, Crash
<1>6. CASE FailsInStart
  <2>1. slots[cur] \in Lines /\ cur \in Files
    BY <1>6, SMTT(30) DEF FailsInStart, SlotTable, ControlType, Slots, RES, Files
  <2> QED
    BY <1>6, <2>1, AppendResult, SMTT(30) DEF FailsInStart, Report
<1>7. CASE CmdDone
  <2> DEFINE S == IF QueueIdEmpty THEN {cur} ELSE {}
  <2>1. newf' = NewAfterMove(S, newf, outf) /\ outf' = OutAfterMove(S, newf, outf)
    BY <1>7, Zenon DEF CmdDone, MoveResults
  <2> HIDE DEF S
  <2>2. \A l \in Lines : InFile(l, newf) \/ InFile(l, outf) => InFile(l, newf') \/ InFile(l, outf')
    BY <2>1, MoveFiles, Zenon
  <2> QED
    BY <1>7, <2>2, Zenon DEF CmdDone
<1>8. CASE Gather
  <2>1. newf' = NewAfterMove(Watched, newf, outf) /\ outf' = OutAfterMove(Watched, newf, outf)
    BY <1>8, ZenonT(30) DEF Gather, MoveResults
  <2>2. \A l \in Lines : InFile(l, newf) \/ InFile(l, outf) => InFile(l, newf') \/ InFile(l, outf')
    BY <2>1, MoveFiles, Zenon
  <2> QED
    BY <1>8, <2>2, Zenon DEF Gather
<1>9. CASE UnlinkOne
  <2>1. PICK f \in doomed : outf' = Without(f)
    BY <1>9, Zenon DEF UnlinkOne
  <2>2. outf.data[f] \subseteq posted
    BY <1>9, Zenon DEF UnlinkOne, Posting
  <2>3. \A l \in Lines : InFile(l, outf) => InFile(l, outf') \/ l \in posted
    BY <2>1, <2>2, WithoutFile, Zenon
  <2> QED
    BY <1>9, <2>3, Zenon DEF UnlinkOne
<1>10. ASSUME NEW s \in Slots, Finish(s) PROVE NoResultLost'
  <2>1. slots[s] \in Lines /\ s \in Files
    BY <1>10, SMTT(30) DEF Finish, Slots, RES, Files
  <2> QED
    BY <1>10, <2>1, AppendResult, SMTT(30) DEF Finish, Report
<1>11. CASE UNCHANGED vars
  BY <1>11, Zenon DEF vars
<1>12. CASE NoPost \/ ListFiles \/ DropFile
  <2>1. \A l : InFile(l, outf) => InFile(l, outf') \/ l \in given'
    <3>1. CASE outf' = outf
      BY <3>1, Zenon
    <3>2. ASSUME NEW f \in outf.has, outf' = Without(f), given' = given \cup outf.data[f]
          PROVE  \A l : InFile(l, outf) => InFile(l, outf') \/ l \in given'
      BY <3>2, WithoutFile, Zenon
    <3> QED
      BY <1>12, <3>1, <3>2, ListingFrame, Zenon
  <2>2. given \subseteq given' /\ UNCHANGED <<reported, posted, newf>>
    BY <1>12, ListingFrame, Zenon
  <2> QED
    BY <2>1, <2>2, Zenon
<1> QED
  BY <1>0, <1>12, <1>1, <1>2, <1>3, <1>4, <1>5, <1>6, <1>7, <1>8, <1>9, <1>10, <1>11, Zenon
     DEF Next, CheckQueue, AddLine, PostResults, HttpPost, Thread

(* Most steps leave the slots alone and begin neither a start nor a done.   *)
LEMMA SlotsFrame ==
  ASSUME ret \in {"loop", "lines"},
         \/ Enqueue \/ ServerChange \/ ResolvConfChange \/ OpenQueue
         \/ ResumeQueue \/ LoopEnds \/ BarrierWait \/ BarrierCreate
         \/ EndOfFile \/ ReadPost \/ ReadBarrier \/ ReadReload \/ ReadBad
         \/ StartReturns \/ RePost \/ Gather \/ RoundsOver
         \/ NoPost \/ ListFiles \/ DropFile \/ SendOk
         \/ SendNotOk \/ SendFails \/ UnlinkOne \/ UnlinkDone \/ UNCHANGED vars
  PROVE  /\ UNCHANGED <<slots, currBusy, running>>
         /\ (pc' = pc /\ cur' = cur) \/ pc' \notin {"start", "done"}
<1> USE DEF table
<1>1. CASE Enqueue \/ ServerChange \/ ResolvConfChange
  BY <1>1, Zenon DEF Enqueue, ServerChange, ResolvConfChange
<1>2. CASE OpenQueue \/ ResumeQueue \/ LoopEnds
  BY <1>2, Zenon DEF OpenQueue, ResumeQueue, LoopEnds
<1>3. CASE BarrierWait \/ BarrierCreate \/ EndOfFile
  BY <1>3, Zenon DEF BarrierWait, BarrierCreate, EndOfFile
<1>4. CASE ReadPost \/ ReadBad
  BY <1>4, Zenon DEF ReadPost, ReadBad, CallPostResults
<1>5. CASE ReadBarrier \/ ReadReload
  BY <1>5, Zenon DEF ReadBarrier, ReadReload
<1>6. CASE StartReturns \/ RePost \/ RoundsOver
  BY <1>6, Zenon DEF StartReturns, RePost, CallPostResults, RoundsOver, PostReturns
<1>7. CASE Gather
  BY <1>7, ZenonT(30) DEF Gather, PostReturns
<1>8. CASE SendOk \/ SendNotOk \/ SendFails
  BY <1>8, Zenon DEF SendOk, SendNotOk, SendFails, PostReturns, posting
<1>9. CASE UnlinkOne
  BY <1>9, ZenonT(30) DEF UnlinkOne
<1>10. CASE UnlinkDone
  BY <1>10, Zenon DEF UnlinkDone
<1>11. CASE UNCHANGED vars
  BY <1>11, Zenon DEF vars
<1>12. CASE NoPost \/ ListFiles \/ DropFile
  BY <1>12, ListingFrame, Zenon
<1> QED
  BY <1>1, <1>2, <1>3, <1>4, <1>5, <1>6, <1>7, <1>8, <1>9, <1>10, <1>11, <1>12,
     Zenon

(* The reading position never goes back.                                    *)
LEMMA NextAdvances ==
  ASSUME QueueType, [Next]_vars
  PROVE  next \in Int /\ next' \in Int /\ next <= next'
<1>1. next \in Int /\ end \in Int /\ queued \in Int /\ next <= end + 1 /\ end <= queued
  BY ConstantsAssumption DEF QueueType
<1>2. CASE OpenQueue
  BY <1>1, <1>2 DEF OpenQueue
<1>3. CASE ReadPost \/ ReadBarrier \/ ReadReload \/ ReadBad \/ ReadCommand
  <2>1. next' = next + 1
    BY <1>3, Zenon DEF ReadPost, ReadBarrier, ReadReload, ReadBad, ReadCommand,
       NextLine
  <2> QED
    BY <1>1, <2>1
<1>4. CASE Crash \/ EndOfFile
  BY <1>1, <1>4 DEF Crash, EndOfFile
<1>5. CASE next' = next
  BY <1>1, <1>5
<1>6. CASE Enqueue \/ ServerChange \/ ResolvConfChange \/ ResumeQueue \/ LoopEnds
  BY <1>5, <1>6, Zenon DEF Enqueue, ServerChange, ResolvConfChange,
     ResumeQueue,
     LoopEnds, queue
<1>7. CASE BarrierWait \/ BarrierCreate
  BY <1>5, <1>7, Zenon DEF BarrierWait, BarrierCreate, queue
<1>8. CASE \E s \in Slots : Finish(s)
  BY <1>5, <1>8, Zenon DEF Finish, Report, queue
<1>9. CASE UNCHANGED vars
  BY <1>5, <1>9, Zenon DEF vars, queue
<1> QED
  BY <1>2, <1>3, <1>4, <1>5, <1>6, <1>7, <1>8, <1>9, QueueFrame, Zenon
     DEF Next, CheckQueue, AddLine, PostResults, HttpPost, Thread

(* The table is as good as before when the slots are left alone, no start   *)
(* or done begins and the reading position does not go back.                *)
LEMMA SlotTableFrame ==
  ASSUME SlotTable, TableType, next \in Int, next' \in Int, next <= next',
         UNCHANGED <<slots, currBusy, running>>,
         (pc' = pc /\ cur' = cur) \/ pc' \notin {"start", "done"}
  PROVE  SlotTable'
<1>1. \A s \in Slots : slots'[s] < next'
  <2>1. \A s \in Slots : slots[s] \in Int /\ slots[s] < next
    BY ConstantsAssumption DEF SlotTable, TableType, Lines, NULL
  <2> QED
    BY <2>1, SMTT(30)
<1>2. /\ currBusy' = Cardinality(Occupied')
      /\ \A l \in running' : \E s \in Slots : slots'[s] = l
      /\ \A s, t \in Slots : slots'[s] = slots'[t] /\ slots'[s] # NULL => s = t
  BY Zenon DEF SlotTable, Occupied
<1>3. /\ pc' = "done" => slots'[cur'] # NULL /\ slots'[cur'] \notin running'
      /\ pc' = "start" => slots'[cur'] # NULL
  BY Zenon DEF SlotTable
<1> QED
  BY <1>1, <1>2, <1>3, Zenon DEF SlotTable

(* A test that calls done: its command is no longer running.                *)
LEMMA SlotTableReport ==
  ASSUME SlotTable, TableType, NEW s \in Slots, NEW r, Report(s, r),
         slots[s] # NULL
  PROVE  SlotTable'
<1>1. /\ slots' = slots /\ currBusy' = currBusy /\ cur' = s /\ pc' = "done"
      /\ running' = running \ {slots[s]} /\ next' = next
  BY Zenon DEF Report, queue
<1> QED
  BY <1>1, Zenon DEF SlotTable, Occupied

(* The busy count is the number of slots in use.                            *)
LEMMA NextSlotTable == IInv /\ [Next]_vars => SlotTable'
<1> SUFFICES ASSUME IInv, [Next]_vars PROVE SlotTable'
  BY Zenon
<1>1. TypeOK /\ SlotTable /\ TableType /\ QueueType
  BY Zenon DEF IInv, TypeOK
<1>2. /\ ret \in {"loop", "lines"} /\ cur \in Slots
      /\ slots \in [Slots -> Lines \cup {NULL}] /\ running \subseteq Lines
  BY Zenon DEF IInv, TypeOK, ControlType, TableType
<1>3. next \in Int /\ next' \in Int /\ next <= next'
  BY <1>1, NextAdvances, Zenon
<1>4. CASE \/ Enqueue \/ ServerChange \/ ResolvConfChange \/ OpenQueue
           \/ ResumeQueue \/ LoopEnds \/ BarrierWait \/ BarrierCreate
           \/ EndOfFile \/ ReadPost \/ ReadBarrier \/ ReadReload \/ ReadBad
           \/ StartReturns \/ RePost \/ Gather \/ RoundsOver
           \/ NoPost \/ ListFiles \/ DropFile \/ SendOk
           \/ SendNotOk \/ SendFails \/ UnlinkOne \/ UnlinkDone \/ UNCHANGED vars
  <2>1. /\ UNCHANGED <<slots, currBusy, running>>
        /\ (pc' = pc /\ cur' = cur) \/ pc' \notin {"start", "done"}
    BY <1>2, <1>4, SlotsFrame, Zenon
  <2> QED
    BY <1>1, <1>3, <2>1, SlotTableFrame, Zenon
<1>5. CASE ReadCommand
  <2>1. next \in Lines /\ \A t \in Slots : slots[t] < next
    BY <1>1, <1>5, ConstantsAssumption
       DEF ReadCommand, NextLine, QueueType, Lines, SlotTable
  <2>2. PICK s \in Slots : FirstFree(s) /\ slots' = [slots EXCEPT ![s] = next]
                          /\ cur' = s
    BY <1>5, Zenon DEF ReadCommand
  <2>3. slots[s] = NULL
    BY <2>2, Zenon DEF FirstFree
  <2>4. next # NULL
    BY <2>1 DEF Lines, NULL
  <2>5. Occupied' = Occupied \cup {s} /\ s \in Slots \ Occupied
    BY <1>2, <2>2, <2>3, <2>4, Zenon DEF Occupied
  <2>6. /\ pc' = "start" /\ next' = next + 1 /\ running' = running \cup {next}
        /\ currBusy' = currBusy + 1
    BY <1>5, ZenonT(30) DEF ReadCommand, NextLine
  <2>7. currBusy' = Cardinality(Occupied')
    BY <1>1, <1>2, <2>5, <2>6, SlotsInUse, Zenon DEF SlotTable, TableType
  <2>8. \A l \in running' : \E t \in Slots : slots'[t] = l
    <3>1. \A l \in running : \E t \in Slots : slots[t] = l /\ l # NULL
      BY <1>1, <1>2, SMTT(30) DEF SlotTable, Lines, NULL
    <3> QED
      BY <1>2, <2>2, <2>3, <2>6, <3>1, Zenon
  <2>9. \A t, u \in Slots : slots'[t] = slots'[u] /\ slots'[t] # NULL => t = u
    BY <1>1, <1>2, <2>1, <2>2, SMTT(30) DEF SlotTable, Lines, NULL
  <2>10. \A t \in Slots : slots'[t] < next'
    BY <1>2, <1>3, <2>1, <2>2, <2>6, SMTT(30) DEF Lines, NULL
  <2>11. slots'[cur'] # NULL
    BY <1>2, <2>2, <2>4, Zenon
  <2> QED
    BY <2>6, <2>7, <2>8, <2>9, <2>10, <2>11, Zenon DEF SlotTable
<1>6. CASE FailsInStart
  BY <1>1, <1>2, <1>6, SlotTableReport, Zenon DEF FailsInStart, SlotTable
<1>7. CASE CmdDone
  <2>1. pc' \in {"loop", "lines", "post"} /\ next' = next /\ running' = running
    BY <1>2, <1>7, ZenonT(30) DEF CmdDone, CallPostResults, PostReturns, queue
  <2>2. slots[cur] # NULL /\ slots[cur] \notin running
    BY <1>1, <1>7, Zenon DEF CmdDone, SlotTable
  <2>3. CASE slots[cur] \in Stuck
    <3>1. slots' = slots /\ currBusy' = currBusy
      BY <1>7, <2>3, Zenon DEF CmdDone
    <3> QED
      BY <1>1, <1>3, <2>1, <3>1, SlotTableFrame, Zenon
  <2>4. CASE slots[cur] \notin Stuck
    <3>1. slots' = [slots EXCEPT ![cur] = NULL] /\ currBusy' = currBusy - 1
      BY <1>7, <2>4, Zenon DEF CmdDone
    <3>2. cur \in Occupied /\ Occupied' = Occupied \ {cur}
      BY <1>2, <2>2, <3>1, Zenon DEF Occupied
    <3>3. currBusy' = Cardinality(Occupied')
      BY <1>1, <1>2, <3>1, <3>2, SlotsInUse, Zenon DEF SlotTable, TableType
    <3>4. \A l \in running : \E s \in Slots : slots'[s] = l
      BY <1>1, <1>2, <2>2, <3>1, Zenon DEF SlotTable
    <3>5. \A s, t \in Slots : slots'[s] = slots'[t] /\ slots'[s] # NULL => s = t
      BY <1>1, <1>2, <3>1, Zenon DEF SlotTable
    <3>6. \A s \in Slots : slots'[s] < next
      <4>1. slots[cur] < next /\ slots[cur] \in Nat
        BY <1>1, <1>2, SMTT(30) DEF SlotTable, Lines, NULL
      <4> QED
        BY <1>1, <1>2, <1>3, <3>1, <4>1, SMTT(30) DEF SlotTable, NULL
    <3> QED
      BY <2>1, <3>3, <3>4, <3>5, <3>6, Zenon DEF SlotTable
  <2> QED
    BY <2>3, <2>4, Zenon
<1>8. CASE Crash
  <2>1. /\ slots' = [s \in Slots |-> NULL] /\ currBusy' = 0 /\ running' = {}
        /\ pc' = "loop" /\ next' = end + 1
    BY <1>8, Zenon DEF Crash
  <2>2. Occupied' = {}
    BY <2>1, Zenon DEF Occupied
  <2>3. \A s \in Slots : slots'[s] < next'
    BY <1>1, <2>1, ConstantsAssumption, SMTT(30) DEF QueueType, NULL
  <2> QED
    BY <2>1, <2>2, <2>3, FS_EmptySet, Zenon DEF SlotTable
<1>9. ASSUME NEW s \in Slots, Finish(s) PROVE SlotTable'
  <2>1. slots[s] # NULL
    BY <1>2, <1>9 DEF Finish, Lines, NULL
  <2> QED
    BY <1>1, <1>9, <2>1, SlotTableReport, Zenon DEF Finish
<1> QED
  BY <1>4, <1>5, <1>6, <1>7, <1>8, <1>9, Zenon
     DEF Next, CheckQueue, AddLine, PostResults, HttpPost, Thread

-----------------------------------------------------------------------------
LEMMA NextIInv == IInv /\ [Next]_vars => IInv'
<1> SUFFICES ASSUME IInv, [Next]_vars PROVE IInv'
  BY Zenon
<1>1. TypeOK'
  BY NextControl, NextFlags, NextQueue, NextTable, NextHistory, NextFiles,
     Zenon DEF TypeOK
<1> QED
  BY <1>1, NextSlotTable, NextReadPosition, NextPosting, NextStarted,
     NextNoResultLost, Zenon DEF IInv

LEMMA Invariance == Spec => []IInv
BY InitIInv, NextIInv, PTL DEF Spec

(* Type correctness of the daemon for all parameters: the busy count stays *)
(* within the slots and post_results within its number of attempts.        *)
THEOREM TypeCorrect == Spec => []TypeOK
BY Invariance, PTL DEF IInv

(* checkQueue never lets add_line look for a slot in vain: the branch that *)
(* dies with "no empty slot?" is dead code, for every number of slots.     *)
THEOREM SlotAlwaysAvailable == Spec => []SlotAvailable
<1>1. IInv => SlotAvailable
  <2> SUFFICES ASSUME IInv PROVE SlotAvailable
    BY Zenon
  <2>1. currBusy = Cardinality({s \in Slots : slots[s] # NULL})
    BY Zenon DEF IInv, SlotTable, Occupied
  <2>2. InLoop => \E s \in Slots : FirstFree(s)
    BY FreeSlotFound, Zenon DEF IInv, SlotTable, InLoop
  <2> QED
    BY <2>1, <2>2, Zenon DEF SlotAvailable
<1> QED
  BY <1>1, Invariance, PTL

(* No command is started twice, whatever happens to files and process.     *)
THEOREM AtMostOnce == Spec => []StartedAtMostOnce
BY Invariance, PTL DEF IInv

(* A result that was written is never lost before the controller has it,   *)
(* unless its file is too big for a post.                                  *)
THEOREM ResultsKept == Spec => []NoResultLost
BY Invariance, PTL DEF IInv

(* A barrier is only passed when everything before it has ended and        *)
(* nothing after it has begun.                                             *)
THEOREM BarriersSeparate == Spec => BarrierSeparates
<1> DEFINE Sep == \A b \in passed' \ passed :
                    /\ running = {}
                    /\ \A l \in Lines : l > b => started[l] = 0
<1>1. IInv /\ [Next]_vars => [Sep]_vars
  <2> SUFFICES ASSUME IInv, Next PROVE Sep
    BY Zenon
  <2>1. CASE BarrierCreate
    <3>1. Occupied = {}
      BY <2>1, SlotsInUse, Zenon DEF BarrierCreate, IInv, SlotTable
    <3>2. running = {}
      BY <3>1, SMTT(30)
         DEF IInv, SlotTable, Occupied, TypeOK, TableType, NULL, Lines
    <3>3. \A l \in Lines : l > barrier => started[l] = 0
      BY <2>1 DEF BarrierCreate, IInv, ReadPosition, TypeOK, QueueType, Lines
    <3> QED
      BY <2>1, <3>2, <3>3, Zenon DEF BarrierCreate
  <2>2. CASE ~BarrierCreate
    <3>1. passed' = passed
      <4> USE DEF history
      <4>1. CASE \/ Enqueue \/ ServerChange \/ ResolvConfChange \/ OpenQueue
                 \/ ResumeQueue \/ RePost \/ LoopEnds \/ Crash
        BY <4>1, Zenon DEF Enqueue, ServerChange, ResolvConfChange, OpenQueue,
           ResumeQueue, RePost, LoopEnds, Crash
      <4>2. CASE \/ BarrierWait \/ EndOfFile \/ ReadPost \/ ReadBarrier
                 \/ ReadReload \/ ReadBad \/ ReadCommand
        BY <4>2, Zenon DEF BarrierWait, EndOfFile, ReadPost, ReadBarrier,
           ReadReload, ReadBad, ReadCommand
      <4>3. CASE \/ FailsInStart \/ StartReturns \/ CmdDone \/ Gather
                 \/ RoundsOver \/ UnlinkOne \/ UnlinkDone
        BY <4>3, Zenon DEF FailsInStart, Report, StartReturns, CmdDone, Gather,
           RoundsOver, UnlinkOne, UnlinkDone
      <4>4. CASE SendOk \/ SendNotOk \/ SendFails
        BY <4>4, Zenon DEF SendOk, SendNotOk, SendFails
      <4>5. CASE NoPost \/ ListFiles \/ DropFile
        BY <4>5, ListingFrame, Zenon
      <4>6. CASE \E s \in Slots : Finish(s)
        BY <4>6, Zenon DEF Finish, Report
      <4> QED
        BY <2>2, <4>1, <4>2, <4>3, <4>4, <4>5, <4>6, Zenon
           DEF Next, CheckQueue, AddLine, PostResults, HttpPost, Thread
    <3> QED
      BY <3>1, Zenon
  <2> QED
    BY <2>1, <2>2, Zenon
<1> QED
  BY <1>1, Invariance, PTL DEF Spec, BarrierSeparates

=============================================================================
