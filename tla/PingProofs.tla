----------------------------- MODULE PingProofs -----------------------------
(***************************************************************************)
(* For any test, any number of runs and any network: an idle ping waits    *)
(* for nothing, a run is reported once, and over IPv4 a packet that was    *)
(* answered in time is not reported lost, and none is reported twice as    *)
(* long as no reply lives until its number is used again.                  *)
(***************************************************************************)
EXTENDS Ping, TLAPS

(* A test that is busy waits for the resolver or for packets, not for both.*)
Phases ==
  /\ dnsip => busy /\ ~timer /\ ~reading
  /\ timer => busy /\ reading /\ ~dnsip
  /\ reading => timer
  /\ ~busy => ~dnsip /\ ~timer /\ ~reading

(* The numbers, without the sets of packets.                               *)
Numbers ==
  /\ maxpkts \in 0..MaxPkts /\ sentpkts \in 0..MaxPkts /\ seq \in 0..SeqMod-1
  /\ starts \in 0..MaxStarts /\ reports \in Nat /\ dones \in Nat

(* The timer runs for a packet.                                            *)
Sending == timer => sentpkts \in 1..MaxPkts

(* Packet p was sent before now: in an earlier run, or in this one.        *)
Sent(p) == p[1] < starts \/ (~dnsip /\ p[1] = starts /\ p[2] <= sentpkts)

PacketsType ==
  /\ entries \subseteq {"reply", "dup", "x", "error"} \X Packets
  /\ network \subseteq Packets \X (0..SeqMod-1)

(* Replies and entries are about packets that were sent.                   *)
AllSent ==
  /\ \A e \in network : Sent(e[1])
  /\ \A e \in entries : Sent(e[2])

Last == <<starts, sentpkts>>

(* IPv4, before the first reply of a run: the last packet went out with    *)
(* the number that is expected, and the result says nothing of a reply.    *)
Unanswered ==
  ~v6 /\ timer /\ ~got_reply =>
    /\ \A e \in network : e[1] = Last => e[2] = seq
    /\ \A e \in entries : e[2] = Last => e[1] \notin {"reply", "dup"}

IInv ==
  /\ test \in Tests /\ FlagsType /\ Phases /\ Numbers /\ ReportedOnce
  /\ Sending /\ PacketsType /\ AllSent /\ Unanswered

-----------------------------------------------------------------------------
LEMMA Test == ASSUME test \in Tests PROVE maxpkts \in 0..MaxPkts
BY PingAssumption, Zenon DEF test

LEMMA SuccessorType == \A s \in 0..SeqMod-1 : Successor(s) \in 0..SeqMod-1
BY PingAssumption DEF Successor

LEMMA InitIInv == Init => IInv
<1> SUFFICES ASSUME Init PROVE IInv
  BY Zenon
<1>1. test \in Tests
  <2>1. PICK t \in Tests : v6 = t[1] /\ maxpkts = t[2]
    BY Zenon DEF Init
  <2>2. t = <<t[1], t[2]>>
    BY <2>1, PingAssumption
  <2> QED  BY <2>1, <2>2, Zenon DEF test
<1>2. FlagsType /\ Phases
  BY Zenon DEF Init, FlagsType, Phases
<1>3. Numbers
  BY <1>1, Test, PingAssumption DEF Init, Numbers
<1>4. ReportedOnce
  BY Zenon DEF Init, ReportedOnce
<1>5. Sending /\ PacketsType /\ AllSent /\ Unanswered
  BY Zenon DEF Init, Sending, PacketsType, AllSent, Unanswered
<1> QED  BY <1>1, <1>2, <1>3, <1>4, <1>5, Zenon DEF IInv

-----------------------------------------------------------------------------
(* ping_start2 finds no timer pending.                                     *)
LEMMA Start2Xmit ==
  ASSUME FlagsType, Phases, Start2
  PROVE  /\ Xmit(starts, 0, FALSE, seq, entries, FALSE)
         /\ dnsip /\ ~dnsip' /\ starts' = starts
<1>1. timer = FALSE
  BY Zenon DEF Start2, FlagsType, Phases
<1> QED  BY <1>1, Zenon DEF Start2

LEMMA NextFlags ==
  ASSUME FlagsType, Phases, [Next]_vars PROVE FlagsType' /\ Phases'
<1>1. CASE Start
  BY <1>1, Zenon DEF Start, FlagsType, Phases
<1>2. CASE ResolveFails
  BY <1>2, Zenon DEF ResolveFails, Report, FlagsType, Phases
<1>3. CASE ResolveNothing
  BY <1>3, Zenon DEF ResolveNothing, FlagsType, Phases
<1>4. CASE SocketFails
  BY <1>4, Zenon DEF SocketFails, Report, FlagsType, Phases
<1>5. CASE Start2
  BY <1>5, Start2Xmit, Zenon DEF Start2, Xmit, Report, FlagsType, Phases
<1>6. CASE NoReply
  BY <1>6, Zenon DEF NoReply, Xmit, Report, FlagsType, Phases
<1>7. ASSUME NEW p \in Packets, NEW s \in 0..SeqMod-1,
             ReadyCallback4(p, s) \/ ReadyCallback6(p, s)
      PROVE  FlagsType' /\ Phases'
  BY <1>7 DEF ReadyCallback4, ReadyCallback6, Answer, FlagsType, Phases
<1>8. CASE UNCHANGED vars
  BY <1>8, Zenon DEF vars, flags, FlagsType, Phases
<1> QED  BY <1>1, <1>2, <1>3, <1>4, <1>5, <1>6, <1>7, <1>8, Zenon DEF Next

LEMMA NextTest == ASSUME test \in Tests, [Next]_vars PROVE (test \in Tests)'
<1>1. test' = test
  BY Zenon
     DEF Next, vars, Start, ResolveFails, ResolveNothing, SocketFails, Start2,
     NoReply, Xmit, ReadyCallback4, ReadyCallback6, Answer
<1> QED  BY <1>1, Zenon

(* What ping_xmit does to the numbers, whoever calls it.                   *)
LEMMA XmitNumbers ==
  ASSUME Numbers, NEW sent \in 0..MaxPkts, NEW s \in 0..SeqMod-1,
         NEW failed, NEW said, starts' = starts,
         Xmit(starts, sent, failed, s, said, FALSE)
  PROVE  Numbers'
<1>1. maxpkts' = maxpkts
  BY Zenon DEF Xmit, test
<1>2. reports' \in Nat /\ dones' \in Nat
  BY DEF Xmit, Reported, Numbers
<1>3. sentpkts' \in 0..MaxPkts /\ seq' \in 0..SeqMod-1
  BY PingAssumption DEF Xmit, Numbers
<1> QED  BY <1>1, <1>2, <1>3, Zenon DEF Numbers

LEMMA NextNumbers ==
  ASSUME FlagsType, Phases, Numbers, [Next]_vars PROVE Numbers'
<1> USE PingAssumption
<1>1. CASE Start
  BY <1>1 DEF Start, Numbers, test
<1>2. CASE ResolveFails
  BY <1>2 DEF ResolveFails, Reported, Numbers, test
<1>3. CASE ResolveNothing
  BY <1>3 DEF ResolveNothing, Numbers, test
<1>4. CASE SocketFails
  BY <1>4 DEF SocketFails, Numbers, test
<1>5. CASE Start2
  <2>1. Xmit(starts, 0, FALSE, seq, entries, FALSE) /\ starts' = starts
    BY <1>5, Start2Xmit, Zenon
  <2>2. 0 \in 0..MaxPkts /\ seq \in 0..SeqMod-1
    BY DEF Numbers
  <2> QED  BY <2>1, <2>2, XmitNumbers, Zenon
<1>6. CASE NoReply
  <2> DEFINE lost == ~got_reply /\ ~send_error
             s == IF lost THEN Successor(seq) ELSE seq
             said == entries \cup IF lost THEN {<<"x", <<starts, sentpkts>>>>}
                                          ELSE {}
  <2>1. /\ Xmit(starts, sentpkts, send_error, s, said, FALSE) /\ starts' = starts
        /\ s \in {seq, Successor(seq)}
    BY <1>6, Zenon DEF NoReply
  <2> HIDE DEF s, said
  <2>2. s \in 0..SeqMod-1 /\ sentpkts \in 0..MaxPkts
    BY <2>1, SuccessorType, Zenon DEF Numbers
  <2> QED  BY <2>1, <2>2, XmitNumbers, Zenon
<1>7. ASSUME NEW p \in Packets, NEW s \in 0..SeqMod-1,
             ReadyCallback4(p, s) \/ ReadyCallback6(p, s)
      PROVE  Numbers'
  <2>1. seq' \in {seq, Successor(seq)}
    BY <1>7, Zenon DEF ReadyCallback4, ReadyCallback6
  <2>2. seq' \in 0..SeqMod-1
    BY <2>1, SuccessorType, Zenon DEF Numbers
  <2>3. UNCHANGED <<maxpkts, sentpkts, starts, reports, dones>>
    BY <1>7, Zenon DEF ReadyCallback4, ReadyCallback6, Answer, test
  <2> QED  BY <2>2, <2>3, Zenon DEF Numbers
<1>8. CASE UNCHANGED vars
  BY <1>8, Zenon DEF vars, test, Numbers
<1> QED  BY <1>1, <1>2, <1>3, <1>4, <1>5, <1>6, <1>7, <1>8, Zenon DEF Next

LEMMA NextReported ==
  ASSUME FlagsType, Phases, Numbers, ReportedOnce, [Next]_vars
  PROVE  ReportedOnce'
<1> starts \in Nat /\ reports \in Nat /\ dones \in Nat
  BY PingAssumption DEF Numbers
<1>1. CASE Start
  BY <1>1 DEF Start, ReportedOnce, Phases
<1>2. CASE ResolveFails
  BY <1>2 DEF ResolveFails, Report, Reported, ReportedOnce, Phases
<1>3. CASE ResolveNothing
  BY <1>3, Zenon DEF ResolveNothing, ReportedOnce, Phases
<1>4. CASE SocketFails
  BY <1>4 DEF SocketFails, Report, ReportedOnce, Phases
<1>5. CASE Start2
  BY <1>5 DEF Start2, Xmit, Report, Reported, ReportedOnce, Phases
<1>6. CASE NoReply
  BY <1>6 DEF NoReply, Xmit, Report, Reported, ReportedOnce, Phases
<1>7. ASSUME NEW p \in Packets, NEW s \in 0..SeqMod-1,
             ReadyCallback4(p, s) \/ ReadyCallback6(p, s)
      PROVE  ReportedOnce'
  BY <1>7 DEF ReadyCallback4, ReadyCallback6, Answer, ReportedOnce
<1>8. CASE UNCHANGED vars
  BY <1>8, Zenon DEF vars, flags, ReportedOnce
<1> QED  BY <1>1, <1>2, <1>3, <1>4, <1>5, <1>6, <1>7, <1>8, Zenon DEF Next

-----------------------------------------------------------------------------
Kinds == {"reply", "dup", "x", "error"}

(* A run that waits for the resolver or for packets has a number.          *)
LEMMA Running ==
  ASSUME Numbers, Phases, ReportedOnce, dnsip \/ timer
  PROVE  starts \in 1..MaxStarts
<1>1. busy
  BY Zenon DEF Phases
<1>2. reports = starts - 1
  BY <1>1, Zenon DEF ReportedOnce
<1> QED  BY <1>2, PingAssumption DEF Numbers

(* The sets of packets after ping_xmit: at most one more packet, the next. *)
LEMMA XmitSets ==
  ASSUME NEW sent, NEW failed, NEW s, NEW said,
         Xmit(starts, sent, failed, s, said, FALSE)
  PROVE  /\ network' \subseteq network \cup {<<<<starts, sentpkts'>>, s>>}
         /\ entries' \subseteq said \cup {<<"error", <<starts, sentpkts'>>>>}
         /\ timer' => sentpkts' = sent + 1 /\ sent < maxpkts
         /\ ~timer' => network' = network /\ entries' = said /\ sentpkts' = sent
         /\ seq' = s
BY Zenon DEF Xmit, Report, Alive

LEMMA XmitPackets ==
  ASSUME Numbers, PacketsType, starts \in 1..MaxStarts,
         NEW sent \in 0..MaxPkts, NEW s \in 0..SeqMod-1, NEW failed,
         NEW said, said \subseteq Kinds \X Packets,
         Xmit(starts, sent, failed, s, said, FALSE)
  PROVE  PacketsType'
<1>1. CASE ~timer'
  <2>1. network' = network /\ entries' = said
    BY <1>1, XmitSets, Zenon
  <2> QED  BY <2>1, Zenon DEF PacketsType, Kinds
<1>2. CASE timer'
  <2>1. sentpkts' = sent + 1 /\ sent < maxpkts
    BY <1>2, XmitSets, Zenon
  <2>2. sentpkts' \in 1..MaxPkts
    BY <2>1, PingAssumption DEF Numbers
  <2>3. <<starts, sentpkts'>> \in Packets
    BY <2>2, Zenon DEF Packets
  <2>4. <<<<starts, sentpkts'>>, s>> \in Packets \X (0..SeqMod-1)
    BY <2>3, Zenon
  <2>5. <<"error", <<starts, sentpkts'>>>> \in Kinds \X Packets
    BY <2>3, Zenon DEF Kinds
  <2> QED  BY <2>4, <2>5, XmitSets DEF PacketsType, Kinds
<1> QED  BY <1>1, <1>2, Zenon

LEMMA NextSending ==
  ASSUME FlagsType, Phases, Numbers, Sending, [Next]_vars PROVE Sending'
<1> SUFFICES ASSUME timer' PROVE sentpkts' \in 1..MaxPkts
  BY Zenon DEF Sending
<1>1. ASSUME NEW sent \in 0..MaxPkts, NEW failed, NEW s, NEW said,
             Xmit(starts, sent, failed, s, said, FALSE)
      PROVE  sentpkts' \in 1..MaxPkts
  <2>1. sentpkts' = sent + 1 /\ sent < maxpkts
    BY <1>1, XmitSets, Zenon
  <2>2. MaxPkts \in Nat /\ maxpkts \in 0..MaxPkts
    BY PingAssumption, Zenon DEF Numbers
  <2> QED  BY <2>1, <2>2
<1>2. CASE Start2
  <2>1. 0 \in 0..MaxPkts
    BY PingAssumption
  <2>2. Xmit(starts, 0, FALSE, seq, entries, FALSE)
    BY <1>2, Start2Xmit, Zenon
  <2> QED  BY <1>1, <2>1, <2>2, Zenon
<1>3. CASE NoReply
  BY <1>1, <1>3, Zenon DEF NoReply, Numbers
<1>4. CASE UNCHANGED <<timer, sentpkts>>
  BY <1>4, Zenon DEF Sending
<1>5. CASE SocketFails
  BY <1>5, Zenon DEF SocketFails, Phases
<1> QED
  BY <1>2, <1>3, <1>4, <1>5, Zenon
     DEF Next, Start, ResolveFails, ResolveNothing, ReadyCallback4,
     ReadyCallback6, Answer, vars, flags

LEMMA NextPackets ==
  ASSUME FlagsType, Numbers, Phases, ReportedOnce, Sending, PacketsType,
         [Next]_vars
  PROVE  PacketsType'
<1>1. CASE Start
  BY <1>1, Zenon DEF Start, PacketsType
<1>2. CASE ResolveFails \/ ResolveNothing \/ SocketFails \/ UNCHANGED vars
  BY <1>2, Zenon
     DEF ResolveFails, ResolveNothing, SocketFails, vars, PacketsType
<1>3. CASE Start2
  <2>1. Xmit(starts, 0, FALSE, seq, entries, FALSE) /\ dnsip
    BY <1>3, Start2Xmit, Zenon
  <2>2. starts \in 1..MaxStarts
    BY <2>1, Running, Zenon
  <2>3. 0 \in 0..MaxPkts /\ seq \in 0..SeqMod-1
    BY PingAssumption DEF Numbers
  <2>4. entries \subseteq Kinds \X Packets
    BY Zenon DEF PacketsType, Kinds
  <2> QED  BY <2>1, <2>2, <2>3, <2>4, XmitPackets, Zenon
<1>4. CASE NoReply
  <2> DEFINE lost == ~got_reply /\ ~send_error
             s == IF lost THEN Successor(seq) ELSE seq
             said == entries \cup IF lost THEN {<<"x", <<starts, sentpkts>>>>}
                                          ELSE {}
  <2>1. Xmit(starts, sentpkts, send_error, s, said, FALSE) /\ timer
    BY <1>4, Zenon DEF NoReply
  <2>2. starts \in 1..MaxStarts
    BY <2>1, Running, Zenon
  <2>3. sentpkts \in 0..MaxPkts /\ s \in 0..SeqMod-1
    BY SuccessorType, Zenon DEF Numbers
  <2>4. said \subseteq Kinds \X Packets
    <3>1. Last \in Packets
      BY <2>1, Running, Zenon DEF Sending, Last, Packets
    <3>2. entries \subseteq Kinds \X Packets
      BY Zenon DEF PacketsType, Kinds
    <3> QED  BY <3>1, <3>2 DEF Last, Kinds
  <2> HIDE DEF s, said
  <2> QED  BY <2>1, <2>2, <2>3, <2>4, XmitPackets, Zenon
<1>5. ASSUME NEW p \in Packets, NEW s \in 0..SeqMod-1,
             ReadyCallback4(p, s) \/ ReadyCallback6(p, s)
      PROVE  PacketsType'
  BY <1>5 DEF ReadyCallback4, ReadyCallback6, Answer, PacketsType
<1> QED  BY <1>1, <1>2, <1>3, <1>4, <1>5, Zenon DEF Next

(* ping_xmit in a run whose packets up to "sent" were sent.                *)
LEMMA XmitSent ==
  ASSUME Numbers, PacketsType, starts' = starts, ~dnsip',
         NEW sent \in 0..MaxPkts, NEW s, NEW failed, NEW said,
         said \subseteq Kinds \X Packets,
         Xmit(starts, sent, failed, s, said, FALSE),
         \A e \in network : e[1][1] < starts \/ (e[1][1] = starts /\ e[1][2] <= sent),
         \A e \in said : e[2][1] < starts \/ (e[2][1] = starts /\ e[2][2] <= sent)
  PROVE  AllSent'
<1> starts \in Nat /\ sent \in Nat
  BY PingAssumption DEF Numbers
<1> \A p \in Packets : p[1] \in Nat /\ p[2] \in Nat
  BY PingAssumption DEF Packets
<1>1. sentpkts' \in Nat /\ sent <= sentpkts'
  <2>1. CASE timer'
    <3>1. sentpkts' = sent + 1
      BY <2>1, XmitSets, Zenon
    <3> QED  BY <3>1
  <2>2. CASE ~timer'
    <3>1. sentpkts' = sent
      BY <2>2, XmitSets, Zenon
    <3> QED  BY <3>1
  <2> QED  BY <2>1, <2>2, Zenon
<1>2. ASSUME NEW e \in network' PROVE Sent(e[1])'
  <2>1. CASE e \in network
    BY <2>1, <1>1 DEF Sent, PacketsType
  <2>2. CASE e = <<<<starts, sentpkts'>>, s>>
    BY <2>2, <1>1 DEF Sent
  <2> QED  BY <2>1, <2>2, XmitSets, Zenon
<1>3. ASSUME NEW e \in entries' PROVE Sent(e[2])'
  <2>1. CASE e \in said
    BY <2>1, <1>1 DEF Sent, PacketsType
  <2>2. CASE e = <<"error", <<starts, sentpkts'>>>>
    BY <2>2, <1>1 DEF Sent
  <2> QED  BY <2>1, <2>2, XmitSets, Zenon
<1> QED  BY <1>2, <1>3, Zenon DEF AllSent

LEMMA NextSent ==
  ASSUME FlagsType, Numbers, Phases, ReportedOnce, Sending, PacketsType,
         AllSent, [Next]_vars
  PROVE  AllSent'
<1> USE DEF AllSent, Sent
<1> starts \in Nat /\ sentpkts \in Nat
  BY PingAssumption DEF Numbers
<1> \A p \in Packets : p[1] \in Nat /\ p[2] \in Nat
  BY PingAssumption DEF Packets
<1> \A e \in network : e[1] \in Packets
  BY Zenon DEF PacketsType
<1>1. CASE Start
  <2>1. starts' = starts + 1 /\ network' = network /\ entries' = {}
    BY <1>1, Zenon DEF Start
  <2> QED  BY <2>1
<1>2. CASE ResolveFails \/ ResolveNothing
  <2>1. starts' = starts /\ network' = network /\ entries' = entries /\ dnsip
    BY <1>2, Zenon DEF ResolveFails, ResolveNothing
  <2> QED  BY <2>1, Zenon
<1>3. CASE SocketFails
  <2>1. starts' = starts /\ network' = network /\ entries' = entries /\ dnsip
    BY <1>3, Zenon DEF SocketFails
  <2> QED  BY <2>1, Zenon
<1>4. CASE Start2
  <2>1. /\ Xmit(starts, 0, FALSE, seq, entries, FALSE)
        /\ dnsip /\ ~dnsip' /\ starts' = starts
    BY <1>4, Start2Xmit, Zenon
  <2>2. 0 \in 0..MaxPkts
    BY PingAssumption
  <2>3. entries \subseteq Kinds \X Packets
    BY Zenon DEF PacketsType, Kinds
  <2> QED  BY <2>1, <2>2, <2>3, XmitSent, Zenon
<1>5. CASE NoReply
  <2> DEFINE lost == ~got_reply /\ ~send_error
             s == IF lost THEN Successor(seq) ELSE seq
             said == entries \cup IF lost THEN {<<"x", <<starts, sentpkts>>>>}
                                          ELSE {}
  <2>1. Xmit(starts, sentpkts, send_error, s, said, FALSE) /\ timer
    BY <1>5, Zenon DEF NoReply
  <2>2. ~dnsip /\ ~dnsip' /\ starts' = starts
    BY <2>1, <1>5, Zenon DEF NoReply, Phases
  <2>3. sentpkts \in 0..MaxPkts
    BY Zenon DEF Numbers
  <2>4. said \subseteq Kinds \X Packets
    <3>1. Last \in Packets
      BY <2>1, Running, Zenon DEF Sending, Last, Packets
    <3>2. entries \subseteq Kinds \X Packets
      BY Zenon DEF PacketsType, Kinds
    <3> QED  BY <3>1, <3>2 DEF Last, Kinds
  <2>5. \A e \in said : e[2][1] < starts \/ (e[2][1] = starts /\ e[2][2] <= sentpkts)
    BY <2>2
  <2>6. \A e \in network : e[1][1] < starts \/ (e[1][1] = starts /\ e[1][2] <= sentpkts)
    BY <2>2, Zenon
  <2> HIDE DEF s, said, AllSent
  <2> QED  BY <2>1, <2>2, <2>3, <2>4, <2>5, <2>6, XmitSent, Zenon
<1>6. ASSUME NEW p \in Packets, NEW s \in 0..SeqMod-1,
             ReadyCallback4(p, s) \/ ReadyCallback6(p, s)
      PROVE  AllSent'
  <2>1. UNCHANGED <<network, starts, sentpkts, dnsip>>
    BY <1>6, Zenon DEF ReadyCallback4, ReadyCallback6, Answer
  <2>2. PICK k : entries' = entries \cup {<<k, p>>}
    BY <1>6, Zenon DEF ReadyCallback4, ReadyCallback6, Answer
  <2>3. <<p, s>> \in network
    BY <1>6, Zenon DEF ReadyCallback4, ReadyCallback6, Answer
  <2> QED  BY <2>1, <2>2, <2>3
<1>7. CASE UNCHANGED vars
  BY <1>7, Zenon DEF vars, flags
<1> QED  BY <1>1, <1>2, <1>3, <1>4, <1>5, <1>6, <1>7, Zenon DEF Next

-----------------------------------------------------------------------------
(* The next packet of a run is a new one.                                  *)
LEMMA XmitUnanswered ==
  ASSUME Numbers, starts' = starts, PacketsType, starts \in 1..MaxStarts,
         NEW sent \in 0..MaxPkts, NEW s, NEW failed, NEW said,
         said \subseteq Kinds \X Packets,
         Xmit(starts, sent, failed, s, said, FALSE),
         \A e \in network : e[1][1] < starts \/ (e[1][1] = starts /\ e[1][2] <= sent),
         \A e \in said : e[2][1] < starts \/ (e[2][1] = starts /\ e[2][2] <= sent)
  PROVE  Unanswered'
<1> SUFFICES ASSUME timer'
             PROVE  /\ \A e \in network' : e[1] = Last' => e[2] = seq'
                    /\ \A e \in entries' : e[2] = Last' => e[1] \notin {"reply", "dup"}
  BY Zenon DEF Unanswered
<1>1. sentpkts' = sent + 1 /\ seq' = s
  BY XmitSets, Zenon
<1> starts \in Nat /\ sent \in Nat
  BY PingAssumption DEF Numbers
<1> \A p \in Packets : p = <<p[1], p[2]>> /\ p[1] \in Nat /\ p[2] \in Nat
  BY PingAssumption DEF Packets
<1>2. ASSUME NEW e \in network', e[1] = Last' PROVE e[2] = s
  <2>1. CASE e \in network
    BY <2>1, <1>1, <1>2 DEF Last
  <2>2. CASE e = <<<<starts, sentpkts'>>, s>>
    BY <2>2, Zenon
  <2> QED  BY <2>1, <2>2, XmitSets, Zenon
<1>3. ASSUME NEW e \in entries', e[2] = Last' PROVE e[1] \notin {"reply", "dup"}
  <2>1. CASE e \in said
    BY <2>1, <1>1, <1>3 DEF Last
  <2>2. CASE e = <<"error", <<starts, sentpkts'>>>>
    BY <2>2, Zenon
  <2> QED  BY <2>1, <2>2, XmitSets, ZenonT(40)
<1> QED  BY <1>1, <1>2, <1>3, Zenon

LEMMA NextUnanswered ==
  ASSUME FlagsType, Numbers, Phases, ReportedOnce, Sending, PacketsType,
         AllSent, Unanswered, [Next]_vars
  PROVE  Unanswered'
<1> starts \in Nat /\ sentpkts \in Nat
  BY PingAssumption DEF Numbers
<1>1. CASE Start
  <2>1. ~timer'
    BY <1>1, Zenon DEF Start, Phases
  <2> QED  BY <2>1, Zenon DEF Unanswered
<1>2. CASE ResolveFails \/ ResolveNothing \/ SocketFails
  <2>1. ~timer'
    BY <1>2, Zenon
       DEF ResolveFails, ResolveNothing, SocketFails, Report, Phases
  <2> QED  BY <2>1, Zenon DEF Unanswered
<1>4. CASE Start2
  <2>1. /\ Xmit(starts, 0, FALSE, seq, entries, FALSE)
        /\ dnsip /\ ~dnsip' /\ starts' = starts
    BY <1>4, Start2Xmit, Zenon
  <2>2. 0 \in 0..MaxPkts /\ starts \in 1..MaxStarts
    BY <2>1, PingAssumption, Running
  <2>3. entries \subseteq Kinds \X Packets
    BY Zenon DEF PacketsType, Kinds
  <2> QED  BY <2>1, <2>2, <2>3, XmitUnanswered, Zenon DEF AllSent, Sent
<1>5. CASE NoReply
  <2> DEFINE lost == ~got_reply /\ ~send_error
             s == IF lost THEN Successor(seq) ELSE seq
             said == entries \cup IF lost THEN {<<"x", <<starts, sentpkts>>>>}
                                          ELSE {}
  <2>1. Xmit(starts, sentpkts, send_error, s, said, FALSE) /\ timer
    BY <1>5, Zenon DEF NoReply
  <2>2. ~dnsip /\ starts' = starts
    BY <2>1, <1>5, Zenon DEF NoReply, Phases
  <2>3. sentpkts \in 0..MaxPkts /\ starts \in 1..MaxStarts
    BY <2>1, Running, Zenon DEF Numbers
  <2>4. said \subseteq Kinds \X Packets
    <3>1. Last \in Packets
      BY <2>1, Running, Zenon DEF Sending, Last, Packets
    <3>2. entries \subseteq Kinds \X Packets
      BY Zenon DEF PacketsType, Kinds
    <3> QED  BY <3>1, <3>2 DEF Last, Kinds
  <2>5. \A e \in said : e[2][1] < starts \/ (e[2][1] = starts /\ e[2][2] <= sentpkts)
    BY <2>2 DEF AllSent, Sent
  <2>6. \A e \in network : e[1][1] < starts \/ (e[1][1] = starts /\ e[1][2] <= sentpkts)
    BY <2>2, Zenon DEF AllSent, Sent
  <2> HIDE DEF s, said
  <2> QED  BY <2>1, <2>2, <2>3, <2>4, <2>5, <2>6, XmitUnanswered, Zenon
<1>6. ASSUME NEW p \in Packets, NEW s \in 0..SeqMod-1, ReadyCallback4(p, s)
      PROVE  Unanswered'
  <2> SUFFICES ASSUME timer', ~v6', ~got_reply' PROVE Unanswered'
    BY Zenon DEF Unanswered
  <2>1. /\ UNCHANGED <<network, starts, sentpkts, timer>>
        /\ v6' = v6 /\ <<p, s>> \in network
        /\ got_reply' = (got_reply \/ s = seq)
        /\ entries' = entries \cup {<<IF s = seq THEN "reply" ELSE "dup", p>>}
        /\ seq' = IF s = seq THEN Successor(seq) ELSE seq
    BY <1>6, Zenon DEF ReadyCallback4, Answer, test
  <2>2. ~got_reply /\ s # seq
    BY <2>1, Zenon
  <2>3. /\ \A e \in network : e[1] = Last => e[2] = seq
        /\ \A e \in entries : e[2] = Last => e[1] \notin {"reply", "dup"}
    BY <2>1, <2>2, Zenon DEF Unanswered
  <2>4. p # Last
    BY <2>1, <2>2, <2>3, Zenon
  <2>5. Last' = Last /\ seq' = seq
    BY <2>1, <2>2, Zenon DEF Last
  <2> QED  BY <2>1, <2>3, <2>4, <2>5 DEF Unanswered
<1>7. ASSUME NEW p \in Packets, NEW s \in 0..SeqMod-1, ReadyCallback6(p, s)
      PROVE  Unanswered'
  BY <1>7, Zenon DEF ReadyCallback6, Answer, test, Unanswered
<1>8. CASE UNCHANGED vars
  BY <1>8, Zenon DEF vars, flags, test, Unanswered, Last
<1> QED  BY <1>1, <1>2, <1>4, <1>5, <1>6, <1>7, <1>8, Zenon DEF Next

LEMMA Invariance == Spec => []IInv
<1>1. ASSUME IInv, [Next]_vars PROVE IInv'
  BY <1>1, NextTest, NextFlags, NextNumbers, NextReported, NextSending,
     NextPackets, NextSent, NextUnanswered, Zenon DEF IInv
<1> QED  BY InitIInv, <1>1, PTL DEF Spec

-----------------------------------------------------------------------------
(* IPv4: no packet is reported twice                                       *)

(* The last packet so far, in the order in which they are sent.            *)
Latest == IF timer THEN Ordinal(starts, sentpkts)
          ELSE IF dnsip THEN Ordinal(starts, 0) ELSE Ordinal(starts, MaxPkts)

(* How many numbers ago s was expected, if c is expected now.              *)
Age(s, c) == IF c >= s THEN c - s ELSE c - s + SeqMod

Within(c, k) ==
  \A e \in network : Age(e[2], c) + Ordinal(e[1][1], e[1][2]) <= k

(* No reply under way is for a packet before the last Life ones.           *)
Lives(k) ==
  \A e \in network : k - Ordinal(e[1][1], e[1][2]) < Life

Carried(c) == \E e \in network : e[2] = c

(* A number is given up only for a packet that was sent with it, so that a *)
(* packet's number is not older than the packets sent since, itself        *)
(* included, and is younger while some packet has the expected number.     *)
Young(c, k) == Within(c, k + 1) /\ (Carried(c) => Within(c, k))

Numbered == ~v6 => Young(seq, Latest)

(* The last packet was sent with the number that is expected.              *)
Current == timer /\ ~got_reply /\ ~send_error => <<Last, seq>> \in network

(* ReportedOnceOnly, also between two runs.                                *)
Said(p, said) == <<"reply", p>> \in said \/ <<"x", p>> \in said

Settled(c, said) == \A e \in network : Said(e[1], said) => e[2] # c

Once == ~v6 => Settled(seq, entries)

OInv == Numbered /\ (~v6 /\ timer => Lives(Latest)) /\ (~v6 => Current) /\ Once

LEMMA OrdinalType ==
  ASSUME NEW n \in Int, NEW k \in Int
  PROVE  /\ Ordinal(n, k) \in Int
         /\ Ordinal(n, k + 1) = Ordinal(n, k) + 1
         /\ \A j \in Int : k <= j => Ordinal(n, k) <= Ordinal(n, j)
<1>1. (n - 1) * MaxPkts \in Int
  BY PingAssumption
<1> QED  BY <1>1 DEF Ordinal

LEMMA OrdinalStart ==
  ASSUME NEW n \in Int
  PROVE  Ordinal(n + 1, 0) = Ordinal(n, MaxPkts)
<1>1. MaxPkts \in Nat
  BY PingAssumption
<1>2. ((n + 1) - 1) * MaxPkts + 0 = (n - 1) * MaxPkts + MaxPkts
  BY <1>1
<1> QED  BY <1>2, Zenon DEF Ordinal

LEMMA OrdinalPositive ==
  ASSUME NEW p \in Packets
  PROVE  Ordinal(p[1], p[2]) \in Int /\ Ordinal(p[1], p[2]) >= 1
<1>1. MaxPkts \in Nat /\ p[1] \in Int /\ p[2] \in Int /\ p[1] >= 1 /\ p[2] >= 1
  BY PingAssumption DEF Packets
<1>2. p[1] - 1 \in Nat
  BY <1>1
<1>3. (p[1] - 1) * MaxPkts \in Nat
  BY <1>1, <1>2
<1> QED  BY <1>1, <1>3 DEF Ordinal

LEMMA LatestType ==
  ASSUME Numbers
  PROVE  Latest \in Int
<1>1. MaxPkts \in Nat /\ starts \in Int /\ sentpkts \in Int
  BY PingAssumption DEF Numbers
<1>2. \A k \in {0, sentpkts, MaxPkts} : Ordinal(starts, k) \in Int
  BY <1>1, OrdinalType
<1> QED  BY <1>2, Zenon DEF Latest

LEMMA SuccessorIs ==
  ASSUME NEW c \in 0..SeqMod-1
  PROVE  /\ c + 1 < SeqMod => Successor(c) = c + 1
         /\ c + 1 = SeqMod => Successor(c) = 0
BY PingAssumption DEF Successor

(* The next number makes every number that is not the oldest one older.    *)
LEMMA Older ==
  ASSUME NEW c \in 0..SeqMod-1, NEW s \in 0..SeqMod-1, Age(s, c) < SeqMod - 1
  PROVE  /\ Age(s, c) \in Int /\ Age(s, Successor(c)) = Age(s, c) + 1
         /\ s # Successor(c)
<1>1. SeqMod \in Nat /\ SeqMod >= 2
  BY PingAssumption
<1>2. CASE c + 1 < SeqMod
  <2>1. Successor(c) = c + 1
    BY <1>2, SuccessorIs
  <2> QED  BY <1>1, <1>2, <2>1 DEF Age
<1>3. CASE c + 1 = SeqMod
  <2>1. Successor(c) = 0
    BY <1>3, SuccessorIs
  <2> QED  BY <1>1, <1>3, <2>1 DEF Age
<1> QED  BY <1>1, <1>2, <1>3

LEMMA Ages ==
  ASSUME PacketsType, NEW c \in 0..SeqMod-1, NEW e \in network
  PROVE  /\ Age(e[2], c) \in Int /\ e[2] \in 0..SeqMod-1
         /\ Ordinal(e[1][1], e[1][2]) \in Int /\ Ordinal(e[1][1], e[1][2]) >= 1
<1>1. e[2] \in 0..SeqMod-1 /\ e[1] \in Packets
  BY Zenon DEF PacketsType
<1>2. Age(e[2], c) \in Int
  BY <1>1, PingAssumption DEF Age
<1> QED  BY <1>1, <1>2, OrdinalPositive, Zenon

LEMMA WithinMore ==
  ASSUME PacketsType, NEW c \in 0..SeqMod-1, NEW k \in Int, NEW m \in Int,
         Within(c, k), k <= m
  PROVE  Within(c, m)
<1> SUFFICES ASSUME NEW e \in network
             PROVE  Age(e[2], c) + Ordinal(e[1][1], e[1][2]) <= m
  BY Zenon DEF Within
<1>1. Age(e[2], c) + Ordinal(e[1][1], e[1][2]) <= k
  BY Zenon DEF Within
<1> QED  BY <1>1, Ages

LEMMA YoungMore ==
  ASSUME PacketsType, NEW c \in 0..SeqMod-1, NEW k \in Int, NEW m \in Int,
         Young(c, k), k <= m
  PROVE  Young(c, m)
<1>1. k + 1 \in Int /\ m + 1 \in Int /\ k + 1 <= m + 1
  OBVIOUS
<1> QED  BY <1>1, WithinMore, Zenon DEF Young

(* A number that some packet has is given up: none has the next one, also  *)
(* when that is a number used before.                                      *)
LEMMA YoungNext ==
  ASSUME PacketsType, NEW c \in 0..SeqMod-1, NEW k \in Int, Lives(k),
         Young(c, k), Carried(c)
  PROVE  Young(Successor(c), k) /\ \A e \in network : e[2] # Successor(c)
<1>1. ASSUME NEW e \in network
      PROVE  /\ Age(e[2], Successor(c)) + Ordinal(e[1][1], e[1][2]) <= k + 1
             /\ e[2] # Successor(c)
  <2>1. Age(e[2], c) + Ordinal(e[1][1], e[1][2]) <= k
    BY Zenon DEF Young, Within
  <2>2. /\ Age(e[2], c) \in Int /\ e[2] \in 0..SeqMod-1
        /\ Ordinal(e[1][1], e[1][2]) \in Int /\ Ordinal(e[1][1], e[1][2]) >= 1
    BY Ages, Zenon
  <2>5. k - Ordinal(e[1][1], e[1][2]) < Life
    BY Zenon DEF Lives
  <2>3. Age(e[2], c) < SeqMod - 1
    BY <2>1, <2>2, <2>5, PingAssumption
  <2>4. /\ Age(e[2], Successor(c)) = Age(e[2], c) + 1
        /\ e[2] # Successor(c)
    BY <2>2, <2>3, Older, Zenon
  <2> QED  BY <2>1, <2>2, <2>4
<1> QED  BY <1>1, Zenon DEF Young, Within, Carried

LEMMA XmitNumbered ==
  ASSUME Numbers, PacketsType, starts' = starts, ~dnsip',
         NEW sent \in 0..MaxPkts, NEW s \in 0..SeqMod-1, NEW failed, NEW said,
         Xmit(starts, sent, failed, s, said, FALSE), Young(s, Ordinal(starts, sent))
  PROVE  Young(seq, Latest)'
<1> DEFINE k == Ordinal(starts, sent)
<1>1. /\ starts \in Int /\ sent \in Int /\ MaxPkts \in Int /\ sent <= MaxPkts
      /\ SeqMod \in Nat
  BY PingAssumption DEF Numbers
<1>2. k \in Int /\ Ordinal(starts, sent + 1) = k + 1 /\ k <= Ordinal(starts, MaxPkts)
  BY <1>1, OrdinalType
<1>3. Ordinal(starts, MaxPkts) \in Int
  BY <1>1, OrdinalType
<1>4. seq' = s
  BY XmitSets, Zenon
<1>5. CASE ~timer'
  <2>1. network' = network
    BY <1>5, XmitSets, Zenon
  <2>2. Latest' = Ordinal(starts, MaxPkts)
    BY <1>5, Zenon DEF Latest, Ordinal
  <2>3. Young(s, Ordinal(starts, MaxPkts))
    BY <1>2, <1>3, YoungMore, Zenon
  <2> QED  BY <1>4, <2>1, <2>2, <2>3, Zenon DEF Young, Within, Carried, Age,
              Ordinal
<1>6. CASE timer'
  <2>1. sentpkts' = sent + 1
    BY <1>6, XmitSets, Zenon
  <2>2. Latest' = k + 1
    <3>1. Latest' = Ordinal(starts, sent + 1)
      BY <1>6, <2>1, Zenon DEF Latest, Ordinal
    <3> QED  BY <1>2, <3>1, Zenon
  <2>3. ASSUME NEW e \in network'
        PROVE  Age(e[2], s) + Ordinal(e[1][1], e[1][2]) <= k + 1
    <3>1. CASE e \in network
      BY <3>1, Zenon DEF Young, Within
    <3>2. CASE e = <<<<starts, sentpkts'>>, s>>
      <4>1. e[2] = s /\ e[1][1] = starts /\ e[1][2] = sent + 1
        BY <2>1, <3>2, Zenon
      <4>2. Age(s, s) = 0
        BY <1>1 DEF Age
      <4> HIDE DEF k
      <4> QED  BY <1>2, <4>1, <4>2
    <3> QED  BY <3>1, <3>2, XmitSets, Zenon
  <2>4. ASSUME NEW e \in network'
        PROVE  Age(e[2], s) + Ordinal(e[1][1], e[1][2]) <= (k + 1) + 1
    <3>1. e[2] \in 0..SeqMod-1
      <4>1. e \in network => e[2] \in 0..SeqMod-1
        BY Zenon DEF PacketsType
      <4>2. e = <<<<starts, sentpkts'>>, s>> => e[2] = s
        OBVIOUS
      <4> QED  BY <4>1, <4>2, XmitSets, Zenon
    <3>2. Age(e[2], s) \in Int
      BY <3>1, <1>1 DEF Age
    <3>3. Ordinal(e[1][1], e[1][2]) \in Int
      <4>1. CASE e \in network
        BY <4>1, Ages, Zenon
      <4>2. CASE e = <<<<starts, sentpkts'>>, s>>
        <5>1. e[1][1] = starts /\ e[1][2] = sent + 1
          BY <2>1, <4>2, Zenon
        <5>2. sent + 1 \in Int
          BY <1>1
        <5> QED  BY <1>1, <5>1, <5>2, OrdinalType, Zenon
      <4> QED  BY <4>1, <4>2, XmitSets, Zenon
    <3> HIDE DEF k
    <3> QED  BY <1>2, <2>3, <3>2, <3>3
  <2> HIDE DEF k
  <2> QED  BY <1>4, <2>2, <2>3, <2>4, Zenon DEF Young, Within, Age, Ordinal
<1> QED  BY <1>5, <1>6, Zenon

(* With a packet the replies that are too old are gone.                    *)
LEMMA XmitLives ==
  ASSUME Numbers, starts' = starts, NEW sent \in 0..MaxPkts, NEW s, NEW failed,
         NEW said, Xmit(starts, sent, failed, s, said, FALSE), timer'
  PROVE  Lives(Latest)'
<1>1. starts \in Int /\ sent + 1 \in Int /\ Life > 0
  BY PingAssumption DEF Numbers
<1>6. sentpkts' = sent + 1
  BY XmitSets, Zenon
<1>2. Ordinal(starts, sent + 1) \in Int
  BY <1>1, OrdinalType, Zenon
<1>3. Latest' = Ordinal(starts, sent + 1)
  BY <1>6, Zenon DEF Latest, Ordinal
<1>4. network' \subseteq Alive(starts, sent + 1) \cup {<<<<starts, sent + 1>>, s>>}
  BY Zenon DEF Xmit
<1>5. ASSUME NEW e \in network'
      PROVE  Ordinal(starts, sent + 1) - Ordinal(e[1][1], e[1][2]) < Life
  <2>1. CASE e \in Alive(starts, sent + 1)
    BY <2>1, Zenon DEF Alive
  <2>2. CASE e = <<<<starts, sent + 1>>, s>>
    <3>1. e[1][1] = starts /\ e[1][2] = sent + 1
      BY <2>2
    <3> QED  BY <1>1, <1>2, <3>1, PingAssumption
  <2> QED  BY <1>4, <2>1, <2>2, Zenon
<1> QED  BY <1>3, <1>5, Zenon DEF Lives, Ordinal

LEMMA XmitCurrent ==
  ASSUME starts' = starts, NEW sent, NEW s, NEW failed, NEW said,
         Xmit(starts, sent, failed, s, said, FALSE)
  PROVE  Current'
BY Zenon DEF Xmit, Report, Current, Last

(* A packet that is sent was not spoken of before.                         *)
LEMMA XmitOnce ==
  ASSUME Numbers, starts' = starts, NEW sent \in 0..MaxPkts, NEW s, NEW failed,
         NEW said, Xmit(starts, sent, failed, s, said, FALSE), Settled(s, said),
         \A e \in said : e[2][1] < starts \/ (e[2][1] = starts /\ e[2][2] <= sent)
  PROVE  Settled(seq, entries)'
<1>1. seq' = s
  BY XmitSets, Zenon
<1>2. \A p : Said(p, entries') => Said(p, said)
  <2>1. entries' \subseteq said \cup {<<"error", <<starts, sentpkts'>>>>}
    BY XmitSets, Zenon
  <2> QED  BY <2>1, Zenon DEF Said
<1>3. ASSUME NEW e \in network', Said(e[1], entries') PROVE e[2] # s
  <2>1. Said(e[1], said)
    BY <1>2, <1>3, Zenon
  <2>2. CASE e \in network
    BY <2>1, <2>2, Zenon DEF Settled
  <2>3. CASE e \notin network
    <3>1. e = <<<<starts, sentpkts'>>, s>> /\ timer'
      BY <2>3, XmitSets
    <3>2. sentpkts' = sent + 1
      BY <3>1, XmitSets, Zenon
    <3>3. e[1] = <<starts, sent + 1>>
      BY <3>1, <3>2, Zenon
    <3>4. PICK f \in said : f[2] = <<starts, sent + 1>>
      BY <2>1, <3>3 DEF Said
    <3>5. f[2][1] = starts /\ f[2][2] = sent + 1
      BY <3>4
    <3>6. starts < starts \/ sent + 1 <= sent
      BY <3>4, <3>5, Zenon
    <3>7. starts \in Int /\ sent \in Int
      BY PingAssumption DEF Numbers
    <3> QED  BY <3>6, <3>7
  <2> QED  BY <2>2, <2>3, Zenon
<1> QED  BY <1>1, <1>3, Zenon DEF Settled, Said

LEMMA NextOnce ==
  ASSUME IInv, OInv, [Next]_vars
  PROVE  OInv'
<1>1. /\ FlagsType /\ Phases /\ Numbers /\ ReportedOnce /\ Sending
      /\ PacketsType /\ AllSent /\ Unanswered
  BY Zenon DEF IInv
<1>2. v6' = v6
  BY Zenon
     DEF Next, vars, Start, ResolveFails, ResolveNothing, SocketFails, Start2,
     NoReply, Xmit, ReadyCallback4, ReadyCallback6, Answer, test
<1> DEFINE Goal == /\ Young(seq, Latest) /\ (timer => Lives(Latest))
                   /\ Current /\ Settled(seq, entries)
<1> SUFFICES ASSUME ~v6 PROVE Goal'
  BY <1>2, Zenon DEF OInv, Numbered, Once
<1>3. /\ Young(seq, Latest) /\ (timer => Lives(Latest))
      /\ Current /\ Settled(seq, entries)
  BY Zenon DEF OInv, Numbered, Once
<1>4. /\ Latest \in Int /\ seq \in 0..SeqMod-1
      /\ starts \in Int /\ sentpkts \in Int /\ sentpkts <= MaxPkts
      /\ MaxPkts \in Int /\ 0 <= MaxPkts
  BY <1>1, LatestType, PingAssumption DEF Numbers
(* A step that ends a run, or starts one, without a packet.                *)
<1>5. ASSUME network' = network, seq' = seq, entries' \subseteq entries, ~timer',
             Latest' \in Int, Latest <= Latest'
      PROVE  Goal'
  <2>1. Young(seq, Latest')
    BY <1>1, <1>3, <1>4, <1>5, YoungMore, Zenon
  <2>2. Young(seq, Latest)'
    BY <2>1, <1>5, Zenon DEF Young, Within, Carried, Age, Ordinal
  <2>3. Settled(seq, entries)'
    BY <1>3, <1>5, Zenon DEF Settled, Said
  <2> QED  BY <1>5, <2>2, <2>3, Zenon DEF Current
<1>6. CASE Start
  <2>1. /\ network' = network /\ seq' = seq /\ entries' = {} /\ dnsip'
        /\ starts' = starts + 1 /\ timer' = timer /\ ~busy
    BY <1>6, Zenon DEF Start
  <2>2. ~timer /\ ~dnsip
    BY <1>1, <2>1, Zenon DEF Phases
  <2>3. Latest' = Ordinal(starts + 1, 0) /\ Latest = Ordinal(starts, MaxPkts)
    BY <2>1, <2>2, Zenon DEF Latest, Ordinal
  <2>4. Latest' = Latest
    BY <1>4, <2>3, OrdinalStart, Zenon
  <2>5. Latest' \in Int /\ Latest <= Latest'
    BY <1>4, <2>4
  <2> QED  BY <1>5, <2>1, <2>2, <2>5, Zenon
<1>7. CASE ResolveFails \/ ResolveNothing \/ SocketFails
  <2>1. /\ network' = network /\ seq' = seq /\ entries' = entries /\ dnsip
        /\ ~dnsip' /\ starts' = starts /\ (timer' => timer)
    <3>1. CASE ResolveFails
      BY <3>1, Zenon DEF ResolveFails
    <3>2. CASE ResolveNothing
      BY <3>2 DEF ResolveNothing
    <3>3. CASE SocketFails
      BY <3>3, Zenon DEF SocketFails
    <3> QED  BY <1>7, <3>1, <3>2, <3>3, Zenon
  <2>2. ~timer /\ ~timer'
    BY <1>1, <2>1, Zenon DEF Phases
  <2>3. Latest' = Ordinal(starts, MaxPkts) /\ Latest = Ordinal(starts, 0)
    BY <2>1, <2>2, Zenon DEF Latest, Ordinal
  <2>4. Latest' \in Int /\ Latest <= Latest'
    BY <1>4, <2>3, OrdinalType
  <2> QED  BY <1>5, <2>1, <2>2, <2>4, Zenon
<1>8. CASE Start2
  <2>1. /\ Xmit(starts, 0, FALSE, seq, entries, FALSE)
        /\ dnsip /\ ~dnsip' /\ starts' = starts
    BY <1>1, <1>8, Start2Xmit, Zenon
  <2>2. 0 \in 0..MaxPkts
    BY PingAssumption
  <2>3. Latest = Ordinal(starts, 0)
    BY <1>1, <2>1, Zenon DEF Latest, Phases
  <2>4. Young(seq, Latest)'
    BY <1>1, <1>3, <1>4, <2>1, <2>2, <2>3, XmitNumbered, Zenon
  <2>5. Settled(seq, entries)'
    BY <1>1, <1>3, <2>1, <2>2, XmitOnce, Zenon DEF AllSent, Sent
  <2>6. timer' => Lives(Latest)'
    BY <1>1, <2>1, <2>2, XmitLives, Zenon
  <2> QED  BY <2>1, <2>4, <2>5, <2>6, XmitCurrent, Zenon
<1>9. CASE NoReply
  <2> DEFINE lost == ~got_reply /\ ~send_error
             s == IF lost THEN Successor(seq) ELSE seq
             said == entries \cup IF lost THEN {<<"x", <<starts, sentpkts>>>>}
                                          ELSE {}
  <2>1. Xmit(starts, sentpkts, send_error, s, said, FALSE) /\ timer
    BY <1>9, Zenon DEF NoReply
  <2>2. ~dnsip /\ ~dnsip' /\ starts' = starts
    BY <1>1, <1>9, <2>1, Zenon DEF NoReply, Phases
  <2>3. sentpkts \in 0..MaxPkts /\ s \in 0..SeqMod-1
    BY <1>1, SuccessorType, Zenon DEF Numbers
  <2>4. Latest = Ordinal(starts, sentpkts)
    BY <2>1, Zenon DEF Latest
  <2>5. \A e \in said : e[2][1] < starts \/ (e[2][1] = starts /\ e[2][2] <= sentpkts)
    <3>1. \A e \in entries : e[2][1] < starts \/ (e[2][1] = starts /\ e[2][2] <= sentpkts)
      BY <1>1, <2>2, Zenon DEF AllSent, Sent
    <3>2. sentpkts <= sentpkts
      BY <1>4
    <3>3. /\ <<"x", <<starts, sentpkts>>>>[2][1] = starts
          /\ <<"x", <<starts, sentpkts>>>>[2][2] = sentpkts
      OBVIOUS
    <3> QED  BY <3>1, <3>2, <3>3, Zenon
  <2>6. Young(s, Latest) /\ Settled(s, said)
    <3>1. CASE lost
      <4>1. Carried(seq)
        BY <1>3, <2>1, <3>1 DEF Current, Carried
      <4>2. Young(Successor(seq), Latest) /\ \A e \in network : e[2] # Successor(seq)
        BY <1>1, <1>3, <1>4, <2>1, <4>1, YoungNext, Zenon
      <4> QED  BY <3>1, <4>2, Zenon DEF Settled
    <3>2. CASE ~lost
      BY <1>3, <3>2, Zenon DEF Settled, Said
    <3> QED  BY <3>1, <3>2, Zenon
  <2> HIDE DEF s, said
  <2>7. Young(seq, Latest)'
    BY <1>1, <2>1, <2>2, <2>3, <2>4, <2>6, XmitNumbered, Zenon
  <2>8. Settled(seq, entries)'
    BY <1>1, <2>1, <2>2, <2>3, <2>5, <2>6, XmitOnce, Zenon
  <2>9. timer' => Lives(Latest)'
    BY <1>1, <2>1, <2>2, <2>3, XmitLives, Zenon
  <2> QED  BY <2>1, <2>2, <2>7, <2>8, <2>9, XmitCurrent, Zenon
<1>10. ASSUME NEW p \in Packets, NEW s \in 0..SeqMod-1, ReadyCallback4(p, s)
       PROVE  Goal'
  <2>1. /\ UNCHANGED <<network, starts, sentpkts, timer, dnsip, send_error>>
        /\ <<p, s>> \in network
        /\ got_reply' = (got_reply \/ s = seq)
        /\ entries' = entries \cup {<<IF s = seq THEN "reply" ELSE "dup", p>>}
        /\ seq' = IF s = seq THEN Successor(seq) ELSE seq
    BY <1>10, Zenon DEF ReadyCallback4, Answer
  <2>2. Latest' = Latest
    BY <2>1, Zenon DEF Latest, Ordinal
  <2>5. timer
    BY <1>1, <1>10, Zenon DEF ReadyCallback4, Answer, Phases
  <2>6. Lives(Latest)'
    BY <1>3, <2>1, <2>2, <2>5, Zenon DEF Lives, Ordinal
  <2>3. CASE s = seq
    <3>1. Carried(seq)
      BY <2>1, <2>3 DEF Carried
    <3>2. Young(Successor(seq), Latest) /\ \A e \in network : e[2] # Successor(seq)
      BY <1>1, <1>3, <1>4, <2>5, <3>1, YoungNext, Zenon
    <3>3. seq' = Successor(seq) /\ got_reply'
      BY <2>1, <2>3, Zenon
    <3>4. Young(seq, Latest)'
      BY <2>1, <2>2, <3>2, <3>3, Zenon DEF Young, Within, Carried, Age, Ordinal
    <3> QED  BY <2>1, <2>6, <3>2, <3>3, <3>4, Zenon DEF Settled, Current
  <2>4. CASE s # seq
    <3>1. seq' = seq /\ (got_reply' <=> got_reply) /\ entries' = entries \cup {<<"dup", p>>}
      BY <2>1, <2>4, Zenon
    <3>2. Young(seq, Latest)'
      BY <1>3, <2>1, <2>2, <3>1, Zenon DEF Young, Within, Carried, Age, Ordinal
    <3>3. Current'
      BY <1>3, <2>1, <3>1, Zenon DEF Current, Last
    <3>4. Settled(seq, entries)'
      BY <1>3, <2>1, <3>1, Zenon DEF Settled, Said
    <3> QED  BY <2>6, <3>2, <3>3, <3>4, Zenon
  <2> QED  BY <2>3, <2>4, Zenon
<1>11. CASE UNCHANGED vars
  <2>1. /\ network' = network /\ seq' = seq /\ entries' = entries
        /\ timer' = timer /\ got_reply' = got_reply /\ send_error' = send_error
        /\ starts' = starts /\ sentpkts' = sentpkts /\ dnsip' = dnsip
    BY <1>11, Zenon DEF vars, flags
  <2>2. Young(seq, Latest)' /\ Settled(seq, entries)'
    BY <1>3, <2>1, Zenon
       DEF Young, Within, Carried, Age, Ordinal, Latest, Settled, Said
  <2>3. timer' => Lives(Latest)'
    BY <1>3, <2>1, Zenon DEF Lives, Latest, Ordinal
  <2> QED  BY <1>3, <2>1, <2>2, <2>3, Zenon DEF Current, Last
<1> QED
  BY <1>6, <1>7, <1>8, <1>9, <1>10, <1>11, Zenon
     DEF Next, ReadyCallback6

-----------------------------------------------------------------------------
(* Every variable has its type, whatever replies arrive in whatever order. *)
THEOREM TypeCorrect == Spec => []TypeOK
<1>1. IInv => TypeOK
  BY Zenon DEF IInv, TypeOK, Numbers, PacketsType
<1> QED  BY <1>1, Invariance, PTL

(* An idle test waits for nothing, so that ping_delete may free it.        *)
THEOREM IdleQuiet == Spec => []IdleIsQuiet
<1>1. IInv => IdleIsQuiet
  BY Zenon DEF IInv, Phases, IdleIsQuiet
<1> QED  BY <1>1, Invariance, PTL

(* Every run that ends is reported once and calls done once, whichever of  *)
(* its ends it meets.                                                      *)
THEOREM RunsReported == Spec => []ReportedOnce
<1>1. IInv => ReportedOnce
  BY Zenon DEF IInv
<1> QED  BY <1>1, Invariance, PTL

(* Over IPv4 noreply_callback never reports a packet lost whose reply was  *)
(* read, for any number of packets and any modulus of the sequence number. *)
THEOREM AnsweredNotLost == Spec => AnsweredIsNotLost
<1> DEFINE Step == \A p \in Packets :
       ~v6 /\ <<"x", p>> \in entries' \ entries
          => entries \cap {<<"reply", p>>, <<"dup", p>>} = {}
<1>1. ASSUME IInv, Next PROVE Step
  <2> SUFFICES ASSUME NEW p \in Packets, ~v6, <<"x", p>> \in entries' \ entries
               PROVE  entries \cap {<<"reply", p>>, <<"dup", p>>} = {}
    BY Zenon
  <2>1. NoReply
    <3>1. Start2 => entries' \subseteq entries \cup {<<"error", <<starts, sentpkts'>>>>}
      BY <1>1, Start2Xmit, XmitSets, Zenon DEF IInv
    <3>2. ~Start2
      BY <3>1, Zenon
    <3>3. ASSUME NEW r \in Packets, NEW s \in 0..SeqMod-1,
                 ReadyCallback4(r, s) \/ ReadyCallback6(r, s)
          PROVE  FALSE
      <4>1. PICK k \in {"reply", "dup"} : entries' = entries \cup {<<k, r>>}
        BY <3>3, Zenon DEF ReadyCallback4, ReadyCallback6, Answer
      <4> QED  BY <4>1, Zenon
    <3>4. ~Start /\ ~ResolveFails /\ ~ResolveNothing /\ ~SocketFails
      BY Zenon DEF Start, ResolveFails, ResolveNothing, SocketFails
    <3> QED  BY <1>1, <3>2, <3>3, <3>4, Zenon DEF Next
  <2>2. /\ timer /\ ~got_reply
        /\ p = Last
    <3> DEFINE lost == ~got_reply /\ ~send_error
               said == entries \cup IF lost THEN {<<"x", <<starts, sentpkts>>>>}
                                            ELSE {}
    <3>1. PICK s : timer /\ Xmit(starts, sentpkts, send_error, s, said, FALSE)
      BY <2>1, Zenon DEF NoReply
    <3>2. entries' \subseteq said \cup {<<"error", <<starts, sentpkts'>>>>}
      <4> HIDE DEF said
      <4> QED  BY <3>1, XmitSets, Zenon
    <3>3. <<"x", p>> \in said
      BY <3>2, Zenon
    <3> QED  BY <3>1, <3>3, Zenon DEF Last
  <2>3. \A e \in entries : e[2] = Last => e[1] \notin {"reply", "dup"}
    BY <1>1, <2>2, Zenon DEF IInv, Unanswered
  <2> QED  BY <2>2, <2>3
<1>2. ASSUME IInv, [Next]_vars PROVE [Step]_vars
  BY <1>1, <1>2, Zenon
<1> QED  BY <1>2, Invariance, PTL DEF AnsweredIsNotLost, Spec

(* Over IPv4 ready_callback4 takes no reply for the expected one if its    *)
(* packet was already reported answered or lost, whatever the order in     *)
(* which replies come, in whichever run and however often the number has   *)
(* wrapped, as long as a reply is gone when its number is used again       *)
(* (Life < SeqMod in PingAssumption).                                      *)
THEOREM OneReportEach == Spec => []ReportedOnceOnly
<1>1. Init => OInv
  BY Zenon DEF Init, OInv, Numbered, Young, Within, Carried, Lives, Current,
     Once, Settled
<1>2. IInv /\ OInv /\ [Next]_vars => OInv'
  BY NextOnce, Zenon
<1>3. OInv => ReportedOnceOnly
  <2> SUFFICES ASSUME OInv, ~v6, NEW p \in Packets, NEW s \in 0..SeqMod-1,
                      <<p, s>> \in network,
                      entries \cap {<<"reply", p>>, <<"x", p>>} # {}
               PROVE  s # seq
    BY Zenon DEF ReportedOnceOnly
  <2>1. Said(p, entries)
    BY Zenon DEF Said
  <2>2. Settled(seq, entries)
    BY Zenon DEF OInv, Once
  <2>3. <<p, s>>[1] = p /\ <<p, s>>[2] = s
    OBVIOUS
  <2> QED  BY <2>1, <2>2, <2>3, Zenon DEF Settled
<1> QED  BY <1>1, <1>2, <1>3, Invariance, PTL DEF Spec
=============================================================================
