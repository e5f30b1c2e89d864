-------------------------- MODULE TracerouteProofs --------------------------
(***************************************************************************)
(* For any options, hops, gap limit and number of runs, and whatever       *)
(* answers come in whatever order: traceroute enters every packet once in  *)
(* its result, closes every bracket it opens (unless it ends for want of   *)
(* an address), and ends short of the hop limit only where it heard the    *)
(* target.                                                                 *)
(***************************************************************************)
EXTENDS Traceroute, TLAPS

Flag == BOOLEAN

(* struct trtstate and the history.                                        *)
Trt ==
  [busy : Flag, dnsip : Flag, timer : Flag, hop : Nat, sent : Nat, seq : Nat,
   done : Flag, notDone : Flag, lastditch : Flag, gotresp : Flag, open : Flag,
   lastResp : Nat, depth : Int, verdict : Seq(Nat), taken : Nat,
   target : Flag, transit : Flag, error : Flag,
   old : Nat, noaddr : Flag, dead : Flag]

(* Of k packets each before the last was entered once, the last n times.   *)
Entered(s, k, n) ==
  /\ Len(s) = k
  /\ \A i \in 1..k : s[i] = IF i < k THEN 1 ELSE n

(* An answer is taken for one to the packet whose number it carries.       *)
Taken(r) == r.taken \in {0, r.seq} \/ opt.paris # "no" \/ opt.proto = "tcp"

(* What the flags of a hop stand for.  done is set where the target or an  *)
(* unreachable was heard, or together with not_done; not_done wherever a   *)
(* router answered in time.                                                *)
Signs(r) ==
  /\ r.done => r.notDone \/ r.target
  /\ r.transit => r.notDone
  /\ r.lastditch => r.hop >= LastDitch

(* A packet is out.                                                        *)
Out(r) == r.busy /\ ~r.dnsip

(* Its object is open in the packet list of the hop, in the hop list:      *)
(* three brackets.                                                         *)
Waiting(r) ==
  /\ r.depth = 3 /\ r.sent # 0 /\ r.seq # 0 /\ Signs(r)
  /\ r.gotresp => r.open /\ Entered(r.verdict, r.seq, 1)
  /\ ~r.gotresp => Entered(r.verdict, r.seq, 0)

(* The hop where a run ended.                                              *)
Reached(r) == r.hop >= MaxHops \/ (r.target /\ ~r.transit)

Inv(r, n) ==
  /\ r \in Trt /\ Taken(r)
  /\ r.timer => Out(r)
  /\ Out(r) => Waiting(r)
  /\ ~Out(r) => Entered(r.verdict, r.seq, 1)
  /\ ~r.busy /\ ~r.noaddr => r.depth = 0
  /\ ~r.busy /\ ~r.error => n = 0 \/ Reached(r)

IInv == opt \in Options /\ runs \in Nat /\ Inv(t, runs)

-----------------------------------------------------------------------------
LEMMA Flags == TRUE \in Flag /\ FALSE \in Flag /\ \A a, b : (a \/ b) \in Flag
BY Zenon DEF Flag

LEMMA Constants ==
  /\ FirstHop \in Nat /\ MaxHops \in Nat /\ LastDitch \in Nat
  /\ LastDitch >= MaxHops
  /\ opt \in Options => opt.count \in Nat /\ opt.count # 0
BY TracerouteAssumption, Zenon

(* Another packet is sent.                                                 *)
LEMMA OneMore ==
  ASSUME NEW s \in Seq(Nat), NEW k \in Nat, Entered(s, k, 1)
  PROVE  Append(s, 0) \in Seq(Nat) /\ Entered(Append(s, 0), k + 1, 0)
<1>1. Len(s) = k /\ \A i \in 1..k : s[i] = 1
  BY Zenon DEF Entered
<1>2. Append(s, 0) \in Seq(Nat) /\ Len(Append(s, 0)) = k + 1
  BY <1>1
<1>3. ASSUME NEW i \in 1..(k + 1)
      PROVE  Append(s, 0)[i] = IF i < k + 1 THEN 1 ELSE 0
  <2>1. CASE i < k + 1
    <3>1. i \in 1..k
      BY <2>1
    <3>2. Append(s, 0)[i] = s[i]
      BY <1>1, <3>1
    <3> QED  BY <1>1, <2>1, <3>1, <3>2, Zenon
  <2>2. CASE ~(i < k + 1)
    <3>1. i = k + 1
      BY <2>2
    <3> QED  BY <1>1, <2>2, <3>1
  <2> QED  BY <2>1, <2>2, Zenon
<1> QED  BY <1>2, <1>3, Zenon DEF Entered

(* The last packet is entered.                                             *)
LEMMA LastEntered ==
  ASSUME NEW s \in Seq(Nat), NEW k \in Nat, k # 0, Entered(s, k, 0)
  PROVE  /\ [s EXCEPT ![k] = s[k] + 1] \in Seq(Nat)
         /\ Entered([s EXCEPT ![k] = s[k] + 1], k, 1)
<1> DEFINE e == [s EXCEPT ![k] = s[k] + 1]
<1>1. Len(s) = k /\ \A i \in 1..k : s[i] = IF i < k THEN 1 ELSE 0
  BY Zenon DEF Entered
<1>2. k \in 1..k /\ ~(k < k)
  OBVIOUS
<1>3. s[k] = 0
  BY <1>1, <1>2, Zenon
<1>4. e \in Seq(Nat) /\ Len(e) = k
  BY <1>1, <1>2
<1>5. ASSUME NEW i \in 1..k PROVE e[i] = IF i < k THEN 1 ELSE 1
  <2>1. CASE i = k
    BY <1>1, <1>3, <2>1
  <2>2. CASE i # k
    <3>1. i < k /\ e[i] = s[i]
      BY <1>1, <2>2
    <3> QED  BY <1>1, <3>1, Zenon
  <2> QED  BY <2>1, <2>2, Zenon
<1> QED  BY <1>4, <1>5, Zenon DEF Entered

-----------------------------------------------------------------------------
(* report and send_pkt                                                     *)

(* What send_pkt finds: the object of the previous packet is open, or the  *)
(* packet list of a hop is; every packet sent has been entered.            *)
Ready(u) ==
  /\ u \in Trt /\ Out(u) /\ Taken(u) /\ Signs(u)
  /\ Entered(u.verdict, u.seq, 1)
  /\ u.sent = 0 => u.depth = 2 /\ ~u.open
  /\ u.sent # 0 => u.depth = 3 /\ u.open

(* The run is reported, its text complete.                                 *)
Reported(u, d, e) ==
  [u EXCEPT !.depth = d, !.busy = FALSE, !.timer = FALSE, !.error = e]

LEMMA ReportedInv ==
  ASSUME NEW u \in Trt, NEW n, NEW e \in Flag, NEW w, w = Reported(u, 0, e),
         Taken(u), Entered(u.verdict, u.seq, 1), ~e => n = 0 \/ Reached(u)
  PROVE  Inv(w, n)
<1>1. 0 \in Int
  OBVIOUS
<1>2. w \in Trt
  BY <1>1, Flags, Zenon DEF Trt, Reported
<1>3. /\ ~w.busy /\ ~w.timer /\ w.error = e /\ w.depth = 0
      /\ w.taken = u.taken /\ w.seq = u.seq /\ w.verdict = u.verdict
      /\ w.hop = u.hop /\ w.target = u.target /\ w.transit = u.transit
  BY Zenon DEF Trt, Reported
<1> QED  BY <1>2, <1>3, Zenon DEF Inv, Taken, Reached, Out

(* A packet has been sent.                                                 *)
Launched(u, k, m, d, v) ==
  [u EXCEPT !.seq = k, !.sent = m, !.timer = TRUE, !.depth = d, !.open = FALSE,
            !.verdict = v, !.taken = 0]

LEMMA LaunchedInv ==
  ASSUME NEW u \in Trt, NEW n, NEW k \in Nat, NEW m \in Nat,
         NEW v \in Seq(Nat), NEW w, w = Launched(u, k, m, 3, v),
         Out(u), Signs(u), ~u.gotresp, k # 0, m # 0, Entered(v, k, 0)
  PROVE  Inv(w, n)
<1>1. 3 \in Int /\ 0 \in Nat
  OBVIOUS
<1>2. w \in Trt
  BY <1>1, Flags, Zenon DEF Trt, Launched
<1>3. /\ w.busy = u.busy /\ w.dnsip = u.dnsip /\ w.gotresp = u.gotresp
      /\ w.seq = k /\ w.sent = m /\ w.depth = 3 /\ w.verdict = v /\ w.taken = 0
      /\ w.hop = u.hop /\ w.lastditch = u.lastditch /\ w.done = u.done
      /\ w.notDone = u.notDone /\ w.target = u.target /\ w.transit = u.transit
  BY Zenon DEF Trt, Launched
<1>4. Out(w) /\ w.busy
  BY <1>3, Zenon DEF Out
<1>5. Waiting(w)
  BY <1>3, Zenon DEF Waiting, Signs
<1> QED  BY <1>2, <1>3, <1>4, <1>5, Zenon DEF Inv, Taken

LEMMA TransmitInv ==
  ASSUME NEW n, NEW u, Ready(u), ~u.gotresp, NEW w \in Transmit(u)
  PROVE  Inv(w, n)
<1> DEFINE d == (IF u.sent > 0 THEN u.depth - 1 ELSE u.depth) - 2
           k == u.seq + 1
           m == u.sent + 1
           h == (IF u.open THEN u.depth - 1 ELSE u.depth) + 1
           v == Append(u.verdict, 0)
<1>1. /\ u \in Trt /\ Out(u) /\ Taken(u) /\ Signs(u)
      /\ u.seq \in Nat /\ u.sent \in Nat /\ u.verdict \in Seq(Nat)
      /\ Entered(u.verdict, u.seq, 1)
  BY Zenon DEF Ready, Trt
<1>2. k \in Nat /\ k # 0 /\ m \in Nat /\ m # 0
  BY <1>1
<1>3. d = 0 /\ h = 3
  <2>1. CASE u.sent = 0
    <3>1. u.depth = 2 /\ ~u.open
      BY <2>1, Zenon DEF Ready
    <3> QED  BY <2>1, <3>1
  <2>2. CASE u.sent # 0
    <3>1. u.depth = 3 /\ u.open
      BY <2>2, Zenon DEF Ready
    <3>2. u.sent > 0
      BY <1>1, <2>2
    <3> QED  BY <3>1, <3>2
  <2> QED  BY <2>1, <2>2, Zenon
<1>4. v \in Seq(Nat) /\ Entered(v, k, 0)
  BY <1>1, OneMore, Zenon
<1>5. w = Reported(u, d, TRUE) \/ w = Launched(u, k, m, h, v)
  <2>1. /\ [[u EXCEPT !.depth = d] EXCEPT !.busy = FALSE, !.timer = FALSE,
                                          !.error = TRUE]
             = Reported(u, d, TRUE)
    BY <1>1 DEF Trt, Reported
  <2> QED  BY <2>1, Zenon DEF Transmit, Report, Launched
<1> HIDE DEF d, k, m, h, v
<1>6. CASE w = Reported(u, d, TRUE)
  BY <1>1, <1>3, <1>6, Flags, ReportedInv, Zenon
<1>7. CASE w = Launched(u, k, m, h, v)
  BY <1>1, <1>2, <1>3, <1>4, <1>7, LaunchedInv, Zenon
<1> QED  BY <1>5, <1>6, <1>7, Zenon

(* The packet list of another hop is open.                                 *)
Moved(u, h, l, d) ==
  [u EXCEPT !.hop = h, !.lastditch = l, !.sent = 0, !.depth = d, !.open = FALSE,
            !.done = FALSE, !.notDone = FALSE,
            !.target = FALSE, !.transit = FALSE]

LEMMA MovedReady ==
  ASSUME NEW u \in Trt, NEW h \in Nat, NEW l \in Flag, NEW w,
         w = Moved(u, h, l, 2), Out(u), Taken(u), l => h >= LastDitch,
         Entered(u.verdict, u.seq, 1)
  PROVE  Ready(w) /\ w.gotresp = u.gotresp
<1>1. 2 \in Int /\ 0 \in Nat
  OBVIOUS
<1>2. w \in Trt
  BY <1>1, Flags, Zenon DEF Trt, Moved
<1>3. /\ w.busy = u.busy /\ w.dnsip = u.dnsip /\ w.gotresp = u.gotresp
      /\ w.seq = u.seq /\ w.sent = 0 /\ w.depth = 2 /\ w.verdict = u.verdict
      /\ w.taken = u.taken /\ ~w.open
      /\ w.hop = h /\ w.lastditch = l /\ ~w.done /\ ~w.transit
  BY Zenon DEF Trt, Moved
<1> QED  BY <1>2, <1>3, Zenon DEF Ready, Out, Taken, Signs

LEMMA SendPktInv ==
  ASSUME opt \in Options, NEW n, NEW v, Ready(v), NEW w \in SendPkt(v)
  PROVE  Inv(w, n)
<1> DEFINE u == [v EXCEPT !.gotresp = FALSE]
           d == u.depth - 3
           c == [u EXCEPT !.depth = d]
<1>1. v \in Trt
  BY Zenon DEF Ready
<1>2. u \in Trt
  BY <1>1, Flags, Zenon DEF Trt
<1>3. /\ u.busy = v.busy /\ u.dnsip = v.dnsip /\ ~u.gotresp
      /\ u.seq = v.seq /\ u.sent = v.sent /\ u.depth = v.depth
      /\ u.verdict = v.verdict /\ u.taken = v.taken /\ u.open = v.open
      /\ u.hop = v.hop /\ u.lastditch = v.lastditch /\ u.done = v.done
      /\ u.notDone = v.notDone /\ u.target = v.target /\ u.transit = v.transit
  BY <1>1, Zenon DEF Trt
<1>4. w \in IF u.sent < opt.count THEN Transmit(u)
            ELSE IF Over(u) THEN {Report(c, FALSE)}
            ELSE Transmit(NextHop(c))
  BY Zenon DEF SendPkt
<1> HIDE DEF u
<1>5. Ready(u)
  BY <1>2, <1>3, Zenon DEF Ready, Out, Taken, Signs
<1>6. CASE u.sent < opt.count
  <2>1. w \in Transmit(u)
    BY <1>4, <1>6, Zenon
  <2> QED  BY <1>3, <1>5, <2>1, TransmitInv, Zenon
<1>7. CASE ~(u.sent < opt.count)
  <2>1. u.sent # 0 /\ u.hop \in Nat
    <3>1. u.sent \in Nat /\ u.hop \in Nat
      BY <1>2, Zenon DEF Trt
    <3> QED  BY <1>7, <3>1, Constants
  <2>2. d = 0 /\ d \in Int /\ d + 2 = 2
    <3>1. u.depth = 3
      BY <1>5, <2>1, Zenon DEF Ready
    <3> QED  BY <3>1
  <2> HIDE DEF d
  <2>3. c \in Trt
    BY <1>2, <2>2, Zenon DEF Trt
  <2>4. /\ c.busy = u.busy /\ c.dnsip = u.dnsip /\ c.gotresp = u.gotresp
        /\ c.seq = u.seq /\ c.verdict = u.verdict /\ c.taken = u.taken
        /\ c.hop = u.hop /\ c.lastditch = u.lastditch /\ c.depth = 0
        /\ c.lastResp = u.lastResp /\ c.target = u.target
        /\ c.transit = u.transit
    BY <1>2, <2>2, Zenon DEF Trt
  <2>5. Out(c) /\ Taken(c) /\ Entered(c.verdict, c.seq, 1)
    BY <1>5, <2>4, Zenon DEF Ready, Out, Taken
  <2>6. u.lastditch => u.hop >= MaxHops
    <3>1. u.lastditch => u.hop >= LastDitch
      BY <1>5, Zenon DEF Ready, Signs
    <3>2. u.hop >= LastDitch => u.hop >= MaxHops
      BY <2>1, Constants
    <3> QED  BY <3>1, <3>2, Zenon
  <2>7. CASE Over(u)
    <3>1. Reached(c)
      BY <1>5, <2>4, <2>6, <2>7, Zenon DEF Over, Reached, Ready, Signs
    <3>2. w = Report(c, FALSE)
      BY <1>4, <1>7, <2>7, Zenon
    <3>3. Report(c, FALSE) = Reported(u, 0, FALSE)
      BY <1>2, <2>2 DEF Trt, Report, Reported
    <3>4. Reached(u)
      BY <2>4, <3>1, Zenon DEF Reached
    <3> QED
      BY <1>2, <1>5, <3>2, <3>3, <3>4, Flags, ReportedInv, Zenon DEF Ready
  <2>8. CASE ~Over(u)
    <3> DEFINE far == c.hop + 1 - c.lastResp > GapLimit
               h == IF far THEN LastDitch ELSE c.hop + 1
               l == c.lastditch \/ far
               x == NextHop(c)
    <3>1. w \in Transmit(x)
      BY <1>4, <1>7, <2>8, Zenon
    <3>2. x = Moved(c, h, l, 2)
      <4>1. x = Moved(c, h, l, c.depth + 2)
        BY Zenon DEF NextHop, Moved
      <4>2. c.depth + 2 = 2
        BY <2>4
      <4> QED  BY <4>1, <4>2, Zenon
    <3>3. h \in Nat /\ l \in Flag
      <4>1. c.hop + 1 \in Nat
        BY <2>1, <2>4
      <4> QED  BY <4>1, Constants, Flags, Zenon
    <3>4. l => h >= LastDitch
      <4>1. CASE far
        <5>1. h = LastDitch
          BY <4>1, Zenon
        <5> QED  BY <5>1, Constants
      <4>2. CASE ~far
        <5>1. h = c.hop + 1 /\ (l => u.lastditch)
          BY <2>4, <4>2, Zenon
        <5>2. u.lastditch => u.hop >= LastDitch
          BY <1>5, Zenon DEF Ready, Signs
        <5>3. c.hop >= LastDitch => c.hop + 1 >= LastDitch
          BY <2>1, <2>4, Constants
        <5> QED  BY <2>4, <5>1, <5>2, <5>3, Zenon
      <4> QED  BY <4>1, <4>2, Zenon
    <3> HIDE DEF h, l, x
    <3>5. Ready(x) /\ x.gotresp = c.gotresp
      BY <2>3, <2>5, <3>2, <3>3, <3>4, MovedReady, Zenon
    <3> QED  BY <1>3, <2>4, <3>1, <3>5, TransmitInv, Zenon
  <2> QED  BY <2>7, <2>8, Zenon
<1> QED  BY <1>6, <1>7, Zenon

-----------------------------------------------------------------------------
(* The answers                                                             *)

Pending(u) == u \in Trt /\ Out(u) /\ Taken(u) /\ Waiting(u)

(* u with its last packet entered.                                         *)
Recorded(u, v, s, b) ==
  [u EXCEPT !.open = TRUE, !.timer = b, !.verdict = v, !.taken = s]

LEMMA RecordedReady ==
  ASSUME NEW u, Pending(u), NEW v \in Seq(Nat), NEW s \in Nat, NEW b \in Flag,
         NEW w, w = Recorded(u, v, s, b), Entered(v, u.seq, 1),
         s \in {0, u.seq} \/ opt.paris # "no" \/ opt.proto = "tcp"
  PROVE  Ready(w) /\ w.sent # 0 /\ w.seq # 0
<1>1. u \in Trt
  BY Zenon DEF Pending
<1>2. w \in Trt
  BY <1>1, Flags, Zenon DEF Trt, Recorded
<1>3. /\ w.busy = u.busy /\ w.dnsip = u.dnsip
      /\ w.seq = u.seq /\ w.sent = u.sent /\ w.depth = u.depth
      /\ w.verdict = v /\ w.taken = s /\ w.open
      /\ w.hop = u.hop /\ w.lastditch = u.lastditch /\ w.done = u.done
      /\ w.notDone = u.notDone /\ w.target = u.target /\ w.transit = u.transit
  BY <1>1, Zenon DEF Trt, Recorded
<1>4. /\ u.busy /\ ~u.dnsip /\ u.depth = 3 /\ u.sent # 0 /\ u.seq # 0
      /\ Signs(u)
  BY Zenon DEF Pending, Out, Waiting
<1>5. Taken(w) /\ Signs(w) /\ Out(w)
  BY <1>3, <1>4, Zenon DEF Taken, Signs, Out
<1> QED  BY <1>2, <1>3, <1>4, <1>5, Zenon DEF Ready

(* The packet that has no answer yet is entered once.                      *)
LEMMA EnterLast ==
  ASSUME NEW u, Pending(u), ~u.gotresp
  PROVE  /\ [u.verdict EXCEPT ![u.seq] = u.verdict[u.seq] + 1] \in Seq(Nat)
         /\ Entered([u.verdict EXCEPT ![u.seq] = u.verdict[u.seq] + 1], u.seq, 1)
<1>1. u.verdict \in Seq(Nat) /\ u.seq \in Nat
  BY Zenon DEF Pending, Trt
<1>2. u.seq # 0 /\ Entered(u.verdict, u.seq, 0)
  BY Zenon DEF Pending, Waiting
<1> QED  BY <1>1, <1>2, LastEntered, Zenon

(* An answer that comes late or twice is only written down; one in time    *)
(* enters the packet, whose number it carries.                             *)
LEMMA AnsweredInv ==
  ASSUME opt \in Options, NEW k, NEW u, Pending(u), NEW n, NEW s \in Nat,
         InTime(u, n) => s = u.seq \/ opt.paris # "no" \/ opt.proto = "tcp",
         NEW w \in Answered(u, n, s)
  PROVE  Inv(w, k)
<1>1. u \in Trt /\ Out(u) /\ Taken(u) /\ Waiting(u) /\ u.busy
  BY Zenon DEF Pending, Out
<1>2. CASE ~InTime(u, n)
  <2>1. w = [u EXCEPT !.open = TRUE]
    BY <1>2, Zenon DEF Answered, Entry
  <2>2. w \in Trt
    BY <1>1, <2>1, Flags, Zenon DEF Trt
  <2>3. /\ w.busy = u.busy /\ w.dnsip = u.dnsip /\ w.gotresp = u.gotresp
        /\ w.seq = u.seq /\ w.sent = u.sent /\ w.depth = u.depth
        /\ w.verdict = u.verdict /\ w.taken = u.taken /\ w.open
        /\ w.hop = u.hop /\ w.lastditch = u.lastditch /\ w.done = u.done
        /\ w.notDone = u.notDone /\ w.target = u.target /\ w.transit = u.transit
    BY <1>1, <2>1, Zenon DEF Trt
  <2>4. Taken(w) /\ Out(w) /\ Waiting(w) /\ w.busy
    BY <1>1, <2>3, Zenon DEF Taken, Out, Waiting, Signs
  <2> QED  BY <2>2, <2>4, Zenon DEF Inv
<1>3. CASE InTime(u, n)
  <2> DEFINE v == [u.verdict EXCEPT ![u.seq] = u.verdict[u.seq] + 1]
             x == Recorded(u, v, s, u.timer)
  <2>1. ~u.gotresp /\ u.timer \in Flag
    BY <1>1, <1>3, Zenon DEF InTime, Trt
  <2>2. v \in Seq(Nat) /\ Entered(v, u.seq, 1)
    BY <2>1, EnterLast, Zenon
  <2>3. [Entry(u) EXCEPT !.verdict[u.seq] = @ + 1, !.taken = s] = x
    BY <1>1 DEF Entry, Recorded, Trt
  <2>4. w \in IF opt.dup THEN {[x EXCEPT !.gotresp = TRUE]} ELSE SendPkt(x)
    BY <1>3, <2>3, Zenon DEF Answered
  <2> HIDE DEF v, x
  <2>5. Ready(x) /\ x.sent # 0 /\ x.seq # 0
    BY <1>3, <2>1, <2>2, RecordedReady, Zenon DEF x
  <2>6. CASE ~opt.dup
    BY <2>4, <2>5, <2>6, SendPktInv, Zenon
  <2>7. CASE opt.dup
    <3>1. w = [x EXCEPT !.gotresp = TRUE] /\ x \in Trt
      BY <2>4, <2>5, <2>7, Zenon DEF Ready
    <3>2. w \in Trt
      BY <3>1, Flags, Zenon DEF Trt
    <3>3. /\ w.busy = x.busy /\ w.dnsip = x.dnsip /\ w.gotresp
          /\ w.seq = x.seq /\ w.sent = x.sent /\ w.depth = x.depth
          /\ w.verdict = x.verdict /\ w.taken = x.taken /\ w.open = x.open
          /\ w.hop = x.hop /\ w.lastditch = x.lastditch /\ w.done = x.done
          /\ w.notDone = x.notDone /\ w.target = x.target
          /\ w.transit = x.transit
      BY <3>1, Zenon DEF Trt
    <3>4. Taken(w) /\ Out(w) /\ Waiting(w) /\ w.busy
      BY <2>5, <3>3, Zenon DEF Taken, Out, Waiting, Signs, Ready
    <3> QED  BY <3>2, <3>4, Zenon DEF Inv
  <2> QED  BY <2>6, <2>7, Zenon
<1> QED  BY <1>2, <1>3, Zenon

(* u with what an answer says of the hop.                                  *)
Marked(u, l, a, b) ==
  [[u EXCEPT !.lastResp = l] EXCEPT !.done = a, !.notDone = b]

(* A packet is out, but for the flags of the hop.                          *)
Core(u) ==
  /\ u \in Trt /\ Out(u) /\ Taken(u)
  /\ u.depth = 3 /\ u.sent # 0 /\ u.seq # 0
  /\ u.gotresp => u.open /\ Entered(u.verdict, u.seq, 1)
  /\ ~u.gotresp => Entered(u.verdict, u.seq, 0)
  /\ u.lastditch => u.hop >= LastDitch

LEMMA MarkedPending ==
  ASSUME NEW u, Core(u), NEW l \in Nat,
         NEW a \in Flag, NEW b \in Flag, NEW w, w = Marked(u, l, a, b),
         a => b \/ u.target, u.transit => b
  PROVE  Pending(w) /\ w.seq = u.seq /\ w.gotresp = u.gotresp
<1>0. u \in Trt
  BY Zenon DEF Core
<1> DEFINE x == [u EXCEPT !.lastResp = l]
<1>1. x \in Trt
  BY <1>0, Zenon DEF Trt
<1>2. /\ x.busy = u.busy /\ x.dnsip = u.dnsip /\ x.gotresp = u.gotresp
      /\ x.seq = u.seq /\ x.sent = u.sent /\ x.depth = u.depth
      /\ x.verdict = u.verdict /\ x.taken = u.taken /\ x.open = u.open
      /\ x.hop = u.hop /\ x.lastditch = u.lastditch
      /\ x.target = u.target /\ x.transit = u.transit
  BY <1>0, Zenon DEF Trt
<1> HIDE DEF x
<1>3. w = [x EXCEPT !.done = a, !.notDone = b]
  BY Zenon DEF Marked, x
<1>4. w \in Trt
  BY ONLY a \in Flag, b \in Flag, <1>1, <1>3, ZenonT(40) DEF Trt
<1>5. /\ w.busy = x.busy /\ w.dnsip = x.dnsip /\ w.gotresp = x.gotresp
      /\ w.seq = x.seq /\ w.sent = x.sent /\ w.depth = x.depth
      /\ w.verdict = x.verdict /\ w.taken = x.taken /\ w.open = x.open
      /\ w.hop = x.hop /\ w.lastditch = x.lastditch /\ w.done = a
      /\ w.notDone = b /\ w.target = x.target /\ w.transit = x.transit
  BY ONLY <1>1, <1>3, ZenonT(40) DEF Trt
<1>6. /\ w.busy = u.busy /\ w.dnsip = u.dnsip /\ w.gotresp = u.gotresp
      /\ w.seq = u.seq /\ w.sent = u.sent /\ w.depth = u.depth
      /\ w.verdict = u.verdict /\ w.taken = u.taken /\ w.open = u.open
      /\ w.hop = u.hop /\ w.lastditch = u.lastditch /\ w.done = a
      /\ w.notDone = b /\ w.target = u.target /\ w.transit = u.transit
  BY ONLY <1>2, <1>5, Zenon
<1>7. Taken(w) /\ Out(w)
  BY ONLY <1>6, Core(u), Zenon DEF Core, Taken, Out
<1>8. Signs(w)
  BY ONLY <1>6, Core(u), a => b \/ u.target, u.transit => b, Zenon
     DEF Core, Signs
<1>9. /\ w.depth = 3 /\ w.sent # 0 /\ w.seq # 0
      /\ w.gotresp => w.open /\ Entered(w.verdict, w.seq, 1)
      /\ ~w.gotresp => Entered(w.verdict, w.seq, 0)
  BY ONLY <1>6, Core(u), Zenon DEF Core
<1>10. Waiting(w)
  BY ONLY <1>8, <1>9, Zenon DEF Waiting
<1> QED  BY ONLY <1>4, <1>6, <1>7, <1>10, Zenon DEF Pending

LEMMA KeptFields ==
  ASSUME NEW u \in Trt, NEW n
  PROVE  /\ u.hop \in Nat /\ u.lastResp \in Nat
         /\ u.done \in Flag /\ u.notDone \in Flag
         /\ Heard(u, n).done = u.done /\ Heard(u, n).notDone = u.notDone
BY Zenon DEF Trt, Heard

(* The last hop heard of.                                                  *)
Last(u, n) == IF InTime(u, n) THEN u.hop ELSE u.lastResp

LEMMA LastType == ASSUME NEW u \in Trt, NEW n PROVE Last(u, n) \in Nat
BY KeptFields, Zenon DEF Last

LEMMA ErrorPending ==
  ASSUME NEW u, Core(u), NEW n, NEW kind \in {"te", "du", "big"},
         u.done => u.notDone \/ u.target,
         kind = "du" /\ ~Late(u, n) => u.target,
         u.transit => u.notDone \/ (kind \in {"te", "big"} /\ InTime(u, n)),
         NEW w \in {Error4(u, n, kind), IcmpError4(u, n, kind),
                    Error6(u, n, kind)}
  PROVE  Pending(w) /\ w.seq = u.seq /\ w.gotresp = u.gotresp
<1> DEFINE l == Last(u, n)
           a4 == u.done \/ (kind \in {"du", "big"} /\ ~Late(u, n))
           b4 == u.notDone \/ (kind \in {"te", "big"} /\ ~Late(u, n))
           a6 == u.done \/ (kind = "du" /\ ~Late(u, n))
           b6 == u.notDone \/ (kind = "te" /\ InTime(u, n))
                           \/ (kind = "big" /\ ~Late(u, n))
<1>1. u \in Trt /\ InTime(u, n) => ~Late(u, n)
  BY Zenon DEF Core, InTime
<1>2. /\ l \in Nat /\ a4 \in Flag /\ b4 \in Flag /\ a6 \in Flag /\ b6 \in Flag
      /\ Heard(u, n).done = u.done /\ Heard(u, n).notDone = u.notDone
  <2>1. u \in Trt
    BY Zenon DEF Core
  <2> QED  BY <2>1, LastType, KeptFields, Flags, Zenon
<1>3. Heard(u, n) = [u EXCEPT !.lastResp = l]
  BY Zenon DEF Heard, Last
<1>4. /\ Error4(u, n, kind) = Marked(u, l, a4, b4)
      /\ IcmpError4(u, n, kind) = Marked(u, l, a4, b6)
      /\ Error6(u, n, kind) = Marked(u, l, a6, b6)
  BY <1>2, <1>3, Zenon DEF Error4, IcmpError4, Error6, Marked
<1>5. /\ a4 => b4 \/ u.target
      /\ a4 => b6 \/ u.target
      /\ a6 => b6 \/ u.target
  BY Zenon
<1>6. (u.transit => b4) /\ (u.transit => b6)
  BY Zenon DEF InTime
<1> HIDE DEF l, a4, b4, a6, b6
<1>7. CASE w = Marked(u, l, a4, b4)
  BY <1>2, <1>5, <1>6, <1>7, MarkedPending
<1>8. CASE w = Marked(u, l, a4, b6)
  BY <1>2, <1>5, <1>6, <1>8, MarkedPending
<1>9. CASE w = Marked(u, l, a6, b6)
  BY <1>2, <1>5, <1>6, <1>9, MarkedPending
<1> QED  BY <1>4, <1>7, <1>8, <1>9, Zenon

(* t with the history of the hop.                                          *)
Noted(u, a, b) == [u EXCEPT !.target = a, !.transit = b]

LEMMA NotedCore ==
  ASSUME NEW u, Pending(u), NEW a \in Flag, NEW b \in Flag,
         NEW w, w = Noted(u, a, b)
  PROVE  /\ Core(w) /\ w.seq = u.seq /\ w.gotresp = u.gotresp
         /\ w.done = u.done /\ w.notDone = u.notDone /\ w.lastResp = u.lastResp
         /\ w.target = a /\ w.transit = b
<1>1. u \in Trt
  BY Zenon DEF Pending
<1>2. w \in Trt
  BY <1>1, Zenon DEF Trt, Noted
<1>3. /\ w.busy = u.busy /\ w.dnsip = u.dnsip /\ w.gotresp = u.gotresp
      /\ w.seq = u.seq /\ w.sent = u.sent /\ w.depth = u.depth
      /\ w.verdict = u.verdict /\ w.taken = u.taken /\ w.open = u.open
      /\ w.hop = u.hop /\ w.lastditch = u.lastditch
      /\ w.done = u.done /\ w.notDone = u.notDone /\ w.lastResp = u.lastResp
      /\ w.target = a /\ w.transit = b
  BY <1>1, Zenon DEF Trt, Noted
<1>4. Out(w) /\ Taken(w)
  BY <1>3, Zenon DEF Pending, Out, Taken
<1> QED  BY <1>2, <1>3, <1>4, Zenon DEF Core, Pending, Waiting, Signs

LEMMA Answerable ==
  ASSUME IInv, t.busy, ~t.dnsip
  PROVE  opt \in Options /\ Pending(t) /\ Signs(t) /\ t.seq \in Nat
BY Zenon DEF IInv, Inv, Out, Pending, Waiting, Trt

LEMMA IcmpErrorInv ==
  ASSUME IInv, NEW s \in Nat, NEW kind \in {"te", "du", "big"},
         IcmpError(s, kind)
  PROVE  Inv(t', runs)
<1>0. PICK n \in ErrorSeq(s) :
        LET v == [t EXCEPT !.target = @ \/ (kind = "du" /\ ~Late(t, n)),
                           !.transit = @ \/ (kind \in {"te", "big"} /\ InTime(t, n))]
        IN  /\ t.busy /\ ~t.dnsip /\ n <= t.seq
            /\ t' \in Answered(IF opt.v6 THEN Error6(v, n, kind)
                               ELSE IF opt.proto = "icmp" THEN IcmpError4(v, n, kind)
                               ELSE Error4(v, n, kind), n, s)
  BY Zenon DEF IcmpError
<1> DEFINE a == t.target \/ (kind = "du" /\ ~Late(t, n))
           b == t.transit \/ (kind \in {"te", "big"} /\ InTime(t, n))
           u == Noted(t, a, b)
           w == IF opt.v6 THEN Error6(u, n, kind)
                ELSE IF opt.proto = "icmp" THEN IcmpError4(u, n, kind)
                ELSE Error4(u, n, kind)
<1>1. opt \in Options /\ Pending(t) /\ Signs(t) /\ t.seq \in Nat
  BY <1>0, Answerable, Zenon
<1>2. t' \in Answered(w, n, s) /\ n <= t.seq
  BY <1>0, Zenon DEF Noted
<1>4. /\ a \in Flag /\ b \in Flag
      /\ a <=> t.target \/ (kind = "du" /\ ~Late(t, n))
      /\ b <=> t.transit \/ (kind \in {"te", "big"} /\ InTime(t, n))
  BY Flags, Zenon
<1>5. n = s \/ opt.paris # "no"
  BY Zenon DEF ErrorSeq
<1> HIDE DEF a, b, u
<1>6. /\ Core(u) /\ u.seq = t.seq /\ u.gotresp = t.gotresp
      /\ u.done = t.done /\ u.notDone = t.notDone
      /\ u.target = a /\ u.transit = b
  <2>1. u = Noted(t, a, b)
    BY Zenon DEF u
  <2> QED  BY <1>1, <1>4, <2>1, NotedCore
<1>7. (Late(u, n) <=> Late(t, n)) /\ (InTime(u, n) <=> InTime(t, n))
  BY <1>6, Zenon DEF Late, InTime
<1>8. /\ u.done => u.notDone \/ u.target
      /\ kind = "du" /\ ~Late(u, n) => u.target
      /\ u.transit => u.notDone \/ (kind \in {"te", "big"} /\ InTime(u, n))
  BY <1>1, <1>4, <1>6, <1>7, Zenon DEF Signs
<1>9. w \in {Error4(u, n, kind), IcmpError4(u, n, kind), Error6(u, n, kind)}
  BY Zenon
<1> HIDE DEF w
<1>10. Pending(w) /\ w.seq = u.seq
  BY <1>6, <1>8, <1>9, ErrorPending
<1>11. InTime(w, n) => s = w.seq \/ opt.paris # "no"
  <2>1. s <= t.seq /\ ~(s < t.seq) => s = t.seq
    BY <1>1
  <2> QED  BY <1>2, <1>5, <1>6, <1>10, <2>1, Zenon DEF InTime, Late
<1> QED  BY <1>1, <1>2, <1>10, <1>11, AnsweredInv, Zenon

LEMMA ReplyInv ==
  ASSUME IInv, NEW s \in Nat, Reply(s)
  PROVE  Inv(t', runs)
<1> DEFINE n == ReplySeq(s)
           yes == TRUE
           u == [t EXCEPT !.target = yes]
           a == u.done \/ InTime(u, n)
           w == IF opt.v6 /\ opt.proto = "icmp" THEN Reply6(u, n) ELSE Reply4(u)
<1>1. /\ opt \in Options /\ Pending(t) /\ Signs(t) /\ t.seq \in Nat
      /\ t \in Trt /\ t.transit \in Flag
  BY Answerable, Zenon DEF Reply, Pending, Trt
<1>2. t' \in Answered(w, n, s)
  BY Zenon DEF Reply
<1>4. (n = s /\ n <= t.seq) \/ opt.proto = "tcp"
  BY Zenon DEF Reply, ReplySeq
<1>5. yes \in Flag
  BY Flags, Zenon
<1>6. Reply4(u) = [u EXCEPT !.done = yes]
  BY Zenon DEF Reply4
<1> HIDE DEF n, yes
<1>7. u = Noted(t, yes, t.transit)
  BY <1>1 DEF Trt, Noted
<1> HIDE DEF u
<1>8. /\ Core(u) /\ u.seq = t.seq /\ u.notDone = t.notDone
      /\ u.target /\ u.transit = t.transit /\ u \in Trt
  <2>1. Core(u) => u \in Trt
    BY Zenon DEF Core
  <2>2. /\ Core(u) /\ u.seq = t.seq /\ u.notDone = t.notDone
        /\ u.target = yes /\ u.transit = t.transit
    BY <1>1, <1>5, <1>7, NotedCore
  <2> QED  BY <2>1, <2>2, Zenon DEF yes
<1>9. /\ Last(u, n) \in Nat /\ u.lastResp \in Nat /\ u.notDone \in Flag
      /\ a \in Flag
  BY <1>8, LastType, KeptFields, Flags, Zenon
<1>10. Reply6(u, n) = Marked(u, Last(u, n), a, u.notDone)
  <2>1. Heard(u, n) = [u EXCEPT !.lastResp = Last(u, n)]
    BY Zenon DEF Heard, Last
  <2>2. Reply6(u, n) = [Heard(u, n) EXCEPT !.done = a]
    <3>1. Heard(u, n).done = u.done
      BY <1>8, KeptFields, Zenon
    <3> QED  BY <3>1, Zenon DEF Reply6
  <2> HIDE DEF a
  <2> QED  BY ONLY <1>8, <1>9, <2>1, <2>2, ZenonT(40)
           DEF Marked, Trt
<1>11. Reply4(u) = Marked(u, u.lastResp, yes, u.notDone)
  BY <1>6, <1>8 DEF Marked, Trt
<1>12. u.transit => u.notDone
  BY <1>1, <1>8, Zenon DEF Signs
<1> HIDE DEF a
<1>13. /\ Pending(Reply6(u, n)) /\ Reply6(u, n).seq = u.seq
       /\ Pending(Reply4(u)) /\ Reply4(u).seq = u.seq
  <2>1. a => u.notDone \/ u.target
    BY <1>8, Zenon
  <2>2. Pending(Reply6(u, n)) /\ Reply6(u, n).seq = u.seq
    BY <1>8, <1>9, <1>10, <1>12, <2>1, MarkedPending
  <2>3. Pending(Reply4(u)) /\ Reply4(u).seq = u.seq
    <3>1. yes => u.notDone \/ u.target
      BY <1>8, Zenon
    <3> QED  BY <1>5, <1>8, <1>9, <1>11, <1>12, <3>1, MarkedPending
  <2> QED  BY <2>2, <2>3, Zenon
<1>14. Pending(w) /\ w.seq = t.seq
  BY <1>8, <1>13, Zenon
<1> HIDE DEF w
<1>15. InTime(w, n) => s = w.seq \/ opt.proto = "tcp"
  <2>1. s <= t.seq /\ ~(s < t.seq) => s = t.seq
    BY <1>1
  <2> QED  BY <1>4, <1>14, <2>1, Zenon DEF InTime, Late
<1> QED  BY <1>1, <1>2, <1>14, <1>15, AnsweredInv, Zenon

-----------------------------------------------------------------------------
(* The timer, the start of a run, and the theorems                         *)

LEMMA TimeoutInv ==
  ASSUME IInv, Timeout
  PROVE  Inv(t', runs)
<1>1. /\ opt \in Options /\ Pending(t) /\ t \in Trt /\ Signs(t)
      /\ t.taken \in Nat /\ Taken(t)
  BY Zenon DEF IInv, Inv, Pending, Waiting, Timeout, Trt
<1>2. CASE t.gotresp
  <2> DEFINE x == [t EXCEPT !.timer = FALSE]
  <2>1. t' \in SendPkt(x)
    BY <1>2, Zenon DEF Timeout
  <2>2. x \in Trt
    BY <1>1, Flags, Zenon DEF Trt
  <2>3. /\ x.busy = t.busy /\ x.dnsip = t.dnsip /\ x.taken = t.taken
        /\ x.seq = t.seq /\ x.sent = t.sent /\ x.depth = t.depth
        /\ x.verdict = t.verdict /\ x.open = t.open
        /\ x.hop = t.hop /\ x.lastditch = t.lastditch /\ x.done = t.done
        /\ x.notDone = t.notDone /\ x.target = t.target /\ x.transit = t.transit
    BY <1>1, Zenon DEF Trt
  <2> HIDE DEF x
  <2>4. Out(x) /\ Taken(x) /\ Signs(x)
    BY <1>1, <2>3, Zenon DEF Out, Taken, Signs, Pending
  <2>5. Ready(x)
    BY <1>1, <1>2, <2>2, <2>3, <2>4, Zenon DEF Ready, Pending, Waiting
  <2> QED  BY <1>1, <2>1, <2>5, SendPktInv, Zenon
<1>3. CASE ~t.gotresp
  <2> DEFINE v == [t.verdict EXCEPT ![t.seq] = t.verdict[t.seq] + 1]
             x == Recorded(t, v, t.taken, FALSE)
  <2>1. [Entry(t) EXCEPT !.timer = FALSE, !.verdict[t.seq] = @ + 1] = x
    BY <1>1 DEF Entry, Recorded, Trt
  <2>2. t' \in SendPkt(x)
    BY <1>3, <2>1, Zenon DEF Timeout
  <2>3. v \in Seq(Nat) /\ Entered(v, t.seq, 1)
    BY <1>1, <1>3, EnterLast, Zenon
  <2> HIDE DEF v
  <2>4. Ready(x)
    BY <1>1, <2>3, Flags, RecordedReady, Zenon DEF Taken
  <2> HIDE DEF x
  <2> QED  BY <1>1, <2>2, <2>4, SendPktInv, Zenon
<1> QED  BY <1>2, <1>3, Zenon

LEMMA StartInv ==
  ASSUME IInv, Start
  PROVE  Inv(t', runs + 1) /\ runs + 1 \in Nat
<1>1. t \in Trt /\ Taken(t) /\ ~t.busy /\ runs \in Nat
  BY Zenon DEF IInv, Inv, Start
<1>2. ~t.timer /\ Entered(t.verdict, t.seq, 1)
  BY <1>1, Zenon DEF IInv, Inv, Out
<1>3. t' = [t EXCEPT !.busy = TRUE, !.dnsip = TRUE, !.noaddr = FALSE]
  BY Zenon DEF Start
<1>4. t' \in Trt
  BY <1>1, <1>3, Flags, Zenon DEF Trt
<1>5. /\ t'.busy /\ t'.dnsip /\ t'.timer = t.timer /\ t'.taken = t.taken
      /\ t'.seq = t.seq /\ t'.verdict = t.verdict
  BY <1>1, <1>3, Zenon DEF Trt
<1>6. Inv(t', runs + 1)
  BY <1>1, <1>2, <1>4, <1>5, Zenon DEF Inv, Taken, Out
<1>7. runs + 1 \in Nat
  BY <1>1
<1> QED  BY <1>6, <1>7, Zenon

LEMMA NothingEntered ==
  <<>> \in Seq(Nat) /\ \A n : Entered(<<>>, 0, n)
BY DEF Entered

(* A run ends for want of an address, in a report or in a crash.           *)
Homeless(u, d, b, c) ==
  [u EXCEPT !.dnsip = FALSE, !.noaddr = TRUE, !.depth = d, !.busy = FALSE,
            !.timer = b, !.error = TRUE, !.dead = c]

LEMMA HomelessInv ==
  ASSUME NEW u \in Trt, NEW n, NEW d \in Int, NEW b \in Flag, NEW c \in Flag,
         NEW w, w = Homeless(u, d, b, c), Taken(u), Entered(u.verdict, u.seq, 1),
         ~b
  PROVE  Inv(w, n)
<1>1. w \in Trt
  BY Flags, Zenon DEF Trt, Homeless
<1>2. /\ ~w.busy /\ w.timer = b /\ w.error /\ w.noaddr
      /\ w.taken = u.taken /\ w.seq = u.seq /\ w.verdict = u.verdict
  BY Flags, Zenon DEF Trt, Homeless
<1> QED  BY <1>1, <1>2, Zenon DEF Inv, Taken, Out

LEMMA NoAddressInv ==
  ASSUME t \in Trt, Taken(t), Entered(t.verdict, t.seq, 1), ~t.timer, NEW n,
         NEW w \in NoAddress
  PROVE  Inv(w, n)
<1> DEFINE u == [t EXCEPT !.dnsip = FALSE, !.noaddr = TRUE]
<1>1. t.timer \in Flag /\ t.dead \in Flag /\ t.depth \in Int
  BY Zenon DEF Trt
<1>2. \/ \E d \in Int : w = Report([u EXCEPT !.depth = d], TRUE)
      \/ w = [u EXCEPT !.busy = FALSE, !.error = TRUE, !.dead = TRUE]
  <2>1. -2 \in Int /\ \A d \in -3..0 : d \in Int
    OBVIOUS
  <2> QED  BY <2>1, Zenon DEF NoAddress
<1>3. ASSUME NEW d \in Int, w = Report([u EXCEPT !.depth = d], TRUE)
      PROVE  Inv(w, n)
  <2>1. w = Homeless(t, d, FALSE, t.dead)
    BY <1>3 DEF Trt, Report, Homeless
  <2> QED  BY <1>1, <2>1, Flags, HomelessInv, Zenon
<1>4. CASE w = [u EXCEPT !.busy = FALSE, !.error = TRUE, !.dead = TRUE]
  <2>1. w = Homeless(t, t.depth, t.timer, TRUE)
    BY <1>4 DEF Trt, Homeless
  <2> QED  BY <1>1, <2>1, Flags, HomelessInv, Zenon
<1> QED  BY <1>2, <1>3, <1>4, Zenon

(* A run that begins has entered nothing and has one bracket open.         *)
LEMMA DnsCbInv ==
  ASSUME IInv, DnsCb
  PROVE  Inv(t', runs)
<1> DEFINE l == IF FirstHop > 1 THEN FirstHop - 1 ELSE 0
           o == IF t.seq > t.old THEN t.seq ELSE t.old
           f == Fresh(t)
           u == [f EXCEPT !.dnsip = FALSE]
           d == u.depth - 1
           e == u.depth + 1
           x == [u EXCEPT !.depth = e]
<1>1. /\ opt \in Options /\ t \in Trt /\ Taken(t) /\ t.busy /\ t.dnsip
      /\ Entered(t.verdict, t.seq, 1) /\ ~t.timer
  BY Zenon DEF IInv, Inv, DnsCb, Out
<1>2. \/ \E b \in Flag : t' = Report([t EXCEPT !.depth = 0, !.dnsip = b], TRUE)
      \/ t' \in NoAddress
      \/ t' = Report([u EXCEPT !.depth = d], TRUE)
      \/ t' \in SendPkt(x)
  BY Zenon DEF DnsCb, Flag
<1>3. l \in Nat /\ o \in Nat /\ FirstHop \in Nat /\ 0 \in Nat /\ 1 \in Int
  <2>1. t.seq \in Nat /\ t.old \in Nat
    BY <1>1, Zenon DEF Trt
  <2> QED  BY <2>1, Constants
<1>4. f = [t EXCEPT !.hop = FirstHop, !.sent = 0, !.seq = 0, !.done = FALSE,
            !.notDone = FALSE, !.lastditch = FALSE, !.open = FALSE,
            !.lastResp = l, !.depth = 1, !.verdict = <<>>, !.taken = 0,
            !.target = FALSE, !.transit = FALSE, !.old = o]
  BY Zenon DEF Fresh
<1> HIDE DEF l, o
<1>5. f \in Trt
  <2> DEFINE p == [t EXCEPT !.hop = FirstHop, !.sent = 0, !.seq = 0,
                            !.done = FALSE, !.notDone = FALSE,
                            !.lastditch = FALSE, !.open = FALSE]
  <2>1. p \in Trt
    BY <1>1, <1>3, Flags, Zenon DEF Trt
  <2> DEFINE q == [p EXCEPT !.lastResp = l, !.depth = 1, !.taken = 0,
                            !.target = FALSE, !.transit = FALSE, !.old = o]
             v == <<>>
  <2>2. f = [q EXCEPT !.verdict = v]
    BY <1>4
  <2>3. v \in Seq(Nat)
    BY NothingEntered, Zenon
  <2> HIDE DEF p, v
  <2>4. q \in Trt
    BY <1>3, <2>1, Flags, Zenon DEF Trt
  <2> HIDE DEF q
  <2> QED  BY <2>2, <2>3, <2>4, ZenonT(40) DEF Trt
<1>6. /\ f.seq = 0 /\ f.sent = 0 /\ f.verdict = <<>> /\ f.taken = 0
      /\ f.depth = 1 /\ f.busy = t.busy /\ ~f.open /\ ~f.done /\ ~f.transit
      /\ ~f.lastditch
  BY <1>1, <1>4, ZenonT(80) DEF Trt
<1> HIDE DEF f
<1>7. u \in Trt
  BY <1>5, Flags, Zenon DEF Trt
<1>8. /\ u.seq = 0 /\ u.sent = 0 /\ u.verdict = <<>> /\ u.taken = 0
      /\ u.depth = 1 /\ u.busy /\ ~u.dnsip /\ ~u.open /\ ~u.done /\ ~u.transit
      /\ ~u.lastditch
  BY <1>1, <1>5, <1>6, Zenon DEF Trt
<1> HIDE DEF u
<1>9. d = 0 /\ e = 2 /\ e \in Int
  BY <1>8
<1>10. Taken(u) /\ Entered(u.verdict, u.seq, 1)
  BY <1>8, NothingEntered, Zenon DEF Taken
<1> HIDE DEF d, e
<1>11. ASSUME NEW b \in Flag,
              t' = Report([t EXCEPT !.depth = 0, !.dnsip = b], TRUE)
       PROVE  Inv(t', runs)
  <2> DEFINE y == [t EXCEPT !.dnsip = b]
  <2>1. t' = Reported(y, 0, TRUE)
    BY <1>1, <1>11 DEF Report, Reported, Trt
  <2>2. y \in Trt
    BY <1>1, <1>11, Zenon DEF Trt
  <2>3. y.taken = t.taken /\ y.seq = t.seq /\ y.verdict = t.verdict
    BY <1>1, Zenon DEF Trt
  <2> HIDE DEF y
  <2>4. Taken(y) /\ Entered(y.verdict, y.seq, 1)
    BY <1>1, <2>3, Zenon DEF Taken
  <2> QED  BY <2>1, <2>2, <2>4, Flags, ReportedInv, Zenon
<1>12. CASE t' = Report([u EXCEPT !.depth = d], TRUE)
  <2>1. t' = Reported(u, d, TRUE)
    BY <1>7, <1>12 DEF Report, Reported, Trt
  <2> QED  BY <1>7, <1>9, <1>10, <2>1, Flags, ReportedInv, Zenon
<1>13. CASE t' \in SendPkt(x)
  <2>1. x \in Trt
    BY <1>7, <1>9, ZenonT(40) DEF Trt
  <2>2. /\ x.seq = 0 /\ x.sent = 0 /\ x.verdict = <<>> /\ x.taken = 0
        /\ x.depth = 2 /\ x.busy /\ ~x.dnsip /\ ~x.open /\ ~x.done
        /\ ~x.transit /\ ~x.lastditch
    BY <1>7, <1>8, <1>9, Zenon DEF Trt
  <2> HIDE DEF x
  <2>3. Ready(x)
    BY <2>1, <2>2, NothingEntered, Zenon DEF Ready, Out, Taken, Signs
  <2> QED  BY <1>1, <1>13, <2>3, SendPktInv, Zenon
<1>14. CASE t' \in NoAddress
  BY <1>1, <1>14, NoAddressInv, Zenon
<1> QED  BY <1>2, <1>11, <1>12, <1>13, <1>14, Zenon

LEMMA InitIInv == Init => IInv
<1> SUFFICES ASSUME Init PROVE IInv
  BY Zenon
<1>1. opt \in Options /\ t = Idle /\ runs = 0
  BY Zenon DEF Init
<1>2. 0 \in Nat /\ 0 \in Int
  OBVIOUS
<1>3. Idle \in Trt
  BY <1>2, Flags, NothingEntered, Zenon DEF Idle, Trt
<1>4. /\ Idle.taken = 0 /\ ~Idle.timer /\ ~Idle.busy /\ Idle.depth = 0
      /\ Idle.verdict = <<>> /\ Idle.seq = 0
  BY Zenon DEF Idle
<1>5. Inv(Idle, 0)
  BY <1>3, <1>4, NothingEntered, Zenon DEF Inv, Taken, Out
<1> QED  BY <1>1, <1>2, <1>5, Zenon DEF IInv

(* The options never change, so that the invariant of the state that a     *)
(* step leaves is the invariant after it.                                  *)
LEMMA Primed ==
  ASSUME opt' = opt, opt \in Options, runs' \in Nat, Inv(t', runs')
  PROVE  IInv'
BY Zenon DEF IInv, Inv, Taken

LEMMA Numbered == IInv => \A s \in Packets : s \in Nat
<1> SUFFICES ASSUME IInv PROVE \A s \in Packets : s \in Nat
  BY Zenon
<1>1. t.seq \in Nat /\ t.old \in Nat
  BY Zenon DEF IInv, Inv, Trt
<1> QED  BY <1>1 DEF Packets

LEMMA NextIInv == IInv /\ [Next]_vars => IInv'
<1> SUFFICES ASSUME IInv, [Next]_vars PROVE IInv'
  BY Zenon
<1>1. opt \in Options /\ runs \in Nat /\ Inv(t, runs)
  BY Zenon DEF IInv
<1>2. CASE Start
  <2>1. opt' = opt /\ runs' = runs + 1
    BY <1>2, Zenon DEF Start
  <2> QED  BY <1>1, <1>2, <2>1, StartInv, Primed, Zenon
<1>3. CASE DnsCb
  <2>1. opt' = opt /\ runs' = runs
    BY <1>3, Zenon DEF DnsCb
  <2> QED  BY <1>1, <1>3, <2>1, DnsCbInv, Primed, Zenon
<1>4. CASE Timeout
  <2>1. opt' = opt /\ runs' = runs
    BY <1>4, Zenon DEF Timeout
  <2> QED  BY <1>1, <1>4, <2>1, TimeoutInv, Primed, Zenon
<1>5. ASSUME NEW s \in Packets, Reply(s) PROVE IInv'
  <2>1. opt' = opt /\ runs' = runs /\ s \in Nat
    BY <1>5, Numbered, Zenon DEF Reply
  <2> QED  BY <1>1, <1>5, <2>1, ReplyInv, Primed, Zenon
<1>6. ASSUME NEW s \in Packets, NEW kind \in {"te", "du", "big"},
             IcmpError(s, kind)
      PROVE  IInv'
  <2>1. opt' = opt /\ runs' = runs /\ s \in Nat
    BY <1>6, Numbered, Zenon DEF IcmpError
  <2> QED  BY <1>1, <1>6, <2>1, IcmpErrorInv, Primed, Zenon
<1>7. CASE UNCHANGED vars
  <2>1. opt' = opt /\ t' = t /\ runs' = runs
    BY <1>7, Zenon DEF vars
  <2> QED  BY <1>1, <2>1, Primed, Zenon
<1> QED  BY <1>2, <1>3, <1>4, <1>5, <1>6, <1>7, Zenon DEF Next

LEMMA Invariance == Spec => []IInv
BY InitIInv, NextIInv, PTL DEF Spec

(* OneVerdict: whatever late, repeated and missing answers send_pkt meets, *)
(* those to packets of earlier runs among them, every packet is entered    *)
(* once in the result, and as answered only by an answer to a packet of    *)
(* its number, in this run or an earlier one; but for TCP and for Paris    *)
(* mode over UDP and IPv4, where the number may be read as another.        *)
THEOREM PacketsEnteredOnce == Spec => []OneVerdict
<1>1. IInv => OneVerdict
  <2> SUFFICES ASSUME IInv PROVE OneVerdict
    BY Zenon
  <2>1. Taken(t) /\ t.seq \in Nat
    BY Zenon DEF IInv, Inv, Trt
  <2>2. PICK n \in {0, 1} : /\ Entered(t.verdict, t.seq, n)
                            /\ ~t.busy => n = 1
    BY Zenon DEF IInv, Inv, Out, Waiting
  <2>3. ASSUME NEW i \in 1..Len(t.verdict)
        PROVE  /\ t.verdict[i] <= 1
               /\ (i < t.seq \/ (~t.busy /\ ~t.error)) => t.verdict[i] = 1
    <3>1. t.verdict[i] = IF i < t.seq THEN 1 ELSE n
      BY <2>2, Zenon DEF Entered
    <3>2. n <= 1 /\ 1 <= 1
      BY <2>2
    <3> QED  BY <2>2, <3>1, <3>2, Zenon
  <2> QED  BY <2>1, <2>3, Zenon DEF OneVerdict, Taken
<1> QED  BY <1>1, Invariance, PTL

(* Balanced: the text of a reported result closes every bracket that       *)
(* dns_cb and send_pkt opened, on every path by which a run ends but one:  *)
(* the end of dns_cb for want of an address.                               *)
THEOREM ResultsBalanced == Spec => []Balanced
<1>1. IInv => Balanced
  BY Zenon DEF IInv, Inv, Balanced
<1> QED  BY <1>1, Invariance, PTL

(* EndsAtTarget: send_pkt ends a run short of the hop limit, and without   *)
(* an error, only at a hop where the target or an unreachable was heard    *)
(* and no router in between answered in time.                              *)
THEOREM StopsAtTarget == Spec => []EndsAtTarget
<1>1. IInv => EndsAtTarget
  <2>1. runs > 0 => runs # 0
    OBVIOUS
  <2> QED  BY <2>1, Zenon DEF IInv, Inv, Reached, EndsAtTarget
<1> QED  BY <1>1, Invariance, PTL
=============================================================================
