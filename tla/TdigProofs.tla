----------------------------- MODULE TdigProofs -----------------------------
(***************************************************************************)
(* For any options, any number of resolvers and any number of starts: a    *)
(* result of evtdig has one object for every resolver, a query that is     *)
(* free waits for nothing, and a run ends in one result.                   *)
(***************************************************************************)
EXTENDS Tdig, TLAPS

Flag == BOOLEAN

(* struct query_state and the history.                                     *)
States == {"free", "next", "again", "dns", "wait", "send", "died"}
Conns == {"none", "connecting", "connected"}
Text == Seq(Nat)

Query ==
  [qst : States, retry : Nat, i : Nat, max : Nat, timer : Flag, next : Flag,
   doneT : Flag, dns : Nat, dnsip : Flag, sock : Flag, conn : Conns,
   text : Text, there : Flag, last : Text, of : Nat, macro : Flag,
   runs : Nat, written : Nat, dones : Nat, early : Flag, leftover : Flag]

(* The text with the objects 1 to n.                                       *)
Counting(s, n) == Len(s) = n /\ \A k \in 1..n : s[k] = k

(* EveryResolverOnce, of the state r.                                      *)
Complete(r) ==
  r.written > 0 =>
    IF r.macro THEN Len(r.last) = 1
    ELSE Counting(r.last, IF opt.resolv /\ r.of > 0 THEN r.of ELSE 1)

(* The objects of the run so far: those of the resolvers before i.         *)
Texts(r) ==
  /\ ~opt.resolv => r.text = <<>> /\ r.i = 0
  /\ opt.resolv /\ r.qst = "free" => r.text = <<>> /\ r.max <= r.i
  /\ opt.resolv /\ r.qst # "free" => r.i < r.max /\ Counting(r.text, r.i)

(* What does not depend on where the query is.                             *)
Frame(r) ==
  /\ r \in Query
  /\ r.conn # "none" => opt.proto # "udp"
  /\ r.leftover => ~opt.resolv
  /\ r.doneT => opt.host = "eooqd" /\ r.there
  /\ opt.host = "eooqd" => ~r.early
  /\ r.there => r.dones = 0
  /\ r.dones <= 1

Quiet(r) == ~r.timer /\ r.dns = 0 /\ ~r.sock /\ r.conn = "none"

Gap == {"next", "again"}

(* What may call back into a query, by its state: next_qry_timer in the    *)
(* gap between two queries, else only after a start in the gap.            *)
Phase(r) ==
  /\ r.qst = "free" => Quiet(r)
  /\ r.qst \in Gap => Quiet(r) /\ r.next
  /\ r.qst = "dns" => /\ r.dns = 1 /\ ~r.timer /\ ~r.sock /\ r.conn = "none"
                      /\ opt.proto # "udp" => r.dnsip
  /\ r.qst \in {"wait", "send"} => r.dns = 0
  /\ r.next /\ r.qst \notin Gap => r.early
  /\ r.doneT => r.qst = "free"
  /\ r.qst = "died" => ~r.there

(* OneResult, if n starts were asked for; a next_qry_timer left behind may *)
(* begin one more run.                                                     *)
Counts(r, n) ==
  /\ r.runs <= n
  /\ r.next /\ r.qst \notin Gap => r.runs + 1 <= n
  /\ r.qst = "free" => r.written = r.runs
  /\ r.qst # "free" => r.written + 1 = r.runs

(* done_qry_timer is armed when eooqd's query goes free.                   *)
Told(r) == r.there /\ r.qst = "free" /\ opt.host = "eooqd" => r.doneT

Inv(r, n) ==
  /\ n # 0 => Told(r)
  /\ Frame(r) /\ Texts(r) /\ Complete(r)
  /\ ~r.leftover => Phase(r) /\ Counts(r, n)

(* Before the first start.                                                 *)
Still(r) == r.qst = "free" /\ Quiet(r) /\ ~r.next /\ ~r.doneT

IInv ==
  /\ opt \in Options
  /\ starts \in Nat /\ starts <= MaxStarts + 1
  /\ Inv(q, starts)
  /\ starts = 0 => Still(q)

-----------------------------------------------------------------------------
LEMMA Flags == TRUE \in Flag /\ FALSE \in Flag /\ \A a, b : (a \/ b) \in Flag
BY Zenon DEF Flag

LEMMA TheOptions ==
  ASSUME opt \in Options
  PROVE  /\ opt.proto \in {"udp", "tcp", "tls"} /\ opt.resolv \in BOOLEAN
         /\ opt.resolv => ~(opt.addrs > 1)
<1>1. /\ opt.proto \in {"udp", "tcp", "tls"} /\ opt.resolv \in BOOLEAN
      /\ opt.resolv => opt.addrs = 1
  BY TdigAssumption, Zenon
<1>2. ~(1 > 1)
  OBVIOUS
<1> QED  BY <1>1, <1>2, Zenon

LEMMA Appended ==
  ASSUME NEW s \in Text, NEW n \in Nat, Counting(s, n)
  PROVE  Append(s, n + 1) \in Text /\ Counting(Append(s, n + 1), n + 1)
<1>1. s \in Seq(Nat) /\ n + 1 \in Nat /\ Len(s) = n /\ \A k \in 1..n : s[k] = k
  BY DEF Text, Counting
<1>2. Append(s, n + 1) \in Seq(Nat) /\ Len(Append(s, n + 1)) = n + 1
  BY <1>1
<1>3. ASSUME NEW k \in 1..(n + 1) PROVE Append(s, n + 1)[k] = k
  <2>1. CASE k = n + 1
    BY <1>1, <2>1
  <2>2. CASE k # n + 1
    <3>1. k \in 1..n
      BY <2>2
    <3>2. Append(s, n + 1)[k] = s[k]
      BY <1>1, <3>1
    <3> QED  BY <1>1, <3>1, <3>2, Zenon
  <2> QED  BY <2>1, <2>2, Zenon
<1> QED  BY <1>2, <1>3, Zenon DEF Text, Counting

LEMMA AppendType ==
  ASSUME NEW s \in Text, NEW n \in Nat
  PROVE  Append(s, n + 1) \in Text
BY DEF Text

LEMMA NoText == <<>> \in Text /\ Counting(<<>>, 0)
BY DEF Text, Counting

-----------------------------------------------------------------------------
(* What free_qry_inst, printReply and the end of noreply_callback change   *)

SameRun(w, u) ==
  /\ w.there = u.there /\ w.dones = u.dones /\ w.early = u.early
  /\ w.runs = u.runs /\ w.max = u.max

SameText(w, u) ==
  /\ w.i = u.i /\ w.text = u.text /\ w.last = u.last /\ w.of = u.of
  /\ w.written = u.written /\ w.macro = u.macro

LEMMA FreeQryInstFields ==
  ASSUME NEW u \in Query, NEW w, w = FreeQryInst(u)
  PROVE  /\ w \in Query
         /\ SameRun(w, u) /\ SameText(w, u)
         /\ w.dns = u.dns /\ w.leftover = u.leftover
         /\ ~w.sock /\ w.conn = "none"
         /\ opt.proto # "udp" => ~w.timer
         /\ opt.proto = "udp" => w.timer = u.timer
         /\ opt.resolv /\ u.i < u.max =>
              w.qst = "next" /\ w.next /\ w.doneT = u.doneT
         /\ ~(opt.resolv /\ u.i < u.max) /\ u.qst = "again" =>
              w.qst = "again" /\ w.next = u.next /\ w.doneT = u.doneT
         /\ ~(opt.resolv /\ u.i < u.max) /\ u.qst # "again" =>
              /\ w.qst = "free" /\ w.next = u.next
              /\ w.doneT <=> u.doneT \/ opt.host = "eooqd"
<1> DEFINE v == [u EXCEPT !.sock = FALSE, !.conn = "none",
                          !.timer = IF opt.proto # "udp" THEN FALSE ELSE @]
           Rest(x) == /\ SameRun(x, u) /\ SameText(x, u)
                      /\ x.dns = u.dns /\ x.leftover = u.leftover
                      /\ ~x.sock /\ x.conn = "none"
                      /\ opt.proto # "udp" => ~x.timer
                      /\ opt.proto = "udp" => x.timer = u.timer
           Same(x, y) == /\ SameRun(x, y) /\ SameText(x, y)
                         /\ x.dns = y.dns /\ x.leftover = y.leftover
                         /\ x.sock = y.sock /\ x.conn = y.conn
                         /\ x.timer = y.timer
<1>1. v \in Query
  BY Flags, Zenon DEF Query, Conns
<1>2. Rest(v) /\ v.qst = u.qst /\ v.next = u.next /\ v.doneT = u.doneT
  BY Zenon DEF Query, SameRun, SameText
<1> HIDE DEF v
<1>3. w = IF opt.resolv /\ u.i < u.max THEN [v EXCEPT !.qst = "next", !.next = TRUE]
          ELSE IF u.qst = "again" THEN v
          ELSE [v EXCEPT !.qst = "free", !.doneT = @ \/ opt.host = "eooqd"]
  BY Zenon DEF v, FreeQryInst
<1>4. CASE opt.resolv /\ u.i < u.max
  <2>1. w = [v EXCEPT !.qst = "next", !.next = TRUE]
    BY <1>3, <1>4, Zenon
  <2>2. w \in Query
    BY ONLY <1>1, <2>1, Flags, Zenon DEF Query, States
  <2>3. w.qst = "next" /\ w.next /\ w.doneT = v.doneT
    BY ONLY <1>1, <2>1, Zenon DEF Query
  <2>4. Same(w, v)
    BY ONLY <1>1, <2>1, Zenon DEF Query, SameRun, SameText
  <2>5. Rest(w)
    BY ONLY <1>2, <2>4, Zenon DEF SameRun, SameText
  <2> QED  BY <1>2, <1>4, <2>2, <2>3, <2>5, Zenon
<1>5. CASE ~(opt.resolv /\ u.i < u.max) /\ u.qst = "again"
  <2>1. w = v
    BY <1>3, <1>5, Zenon
  <2> QED  BY <1>1, <1>2, <1>5, <2>1, Zenon
<1>6. CASE ~(opt.resolv /\ u.i < u.max) /\ u.qst # "again"
  <2>1. w = [v EXCEPT !.qst = "free", !.doneT = @ \/ opt.host = "eooqd"]
    BY <1>3, <1>6, Zenon
  <2>2. w \in Query
    BY ONLY <1>1, <2>1, Flags, Zenon DEF Query, States
  <2>3. /\ w.qst = "free" /\ w.next = v.next
        /\ w.doneT <=> v.doneT \/ opt.host = "eooqd"
    BY ONLY <1>1, <2>1, Zenon DEF Query
  <2>4. Same(w, v)
    BY ONLY <1>1, <2>1, Zenon DEF Query, SameRun, SameText
  <2>5. Rest(w)
    BY ONLY <1>2, <2>4, Zenon DEF SameRun, SameText
  <2> QED  BY <1>2, <1>6, <2>2, <2>3, <2>5, Zenon
<1> QED  BY <1>4, <1>5, <1>6, Zenon

LEMMA PrintedType ==
  ASSUME NEW u \in Query, NEW a \in Nat, NEW b \in Text, NEW c \in Text,
         NEW d \in Nat, NEW e \in Nat, NEW f \in Nat, NEW g \in Flag,
         NEW h \in Flag
  PROVE  [u EXCEPT !.i = a, !.text = b, !.last = c, !.of = d, !.macro = h,
                   !.written = e, !.retry = f, !.leftover = g] \in Query
BY Zenon DEF Query

(* The record printReply hands to free_qry_inst.                           *)
More(u) == opt.resolv /\ u.i + 1 < u.max

LEMMA PrintReplyFields ==
  ASSUME opt \in Options, NEW u \in Query, NEW w, w = PrintReply(u)
  PROVE  /\ w \in Query /\ SameRun(w, u) /\ w.dns = u.dns
         /\ w.leftover <=> u.leftover \/ (u.timer /\ opt.proto = "udp")
         /\ ~w.sock /\ w.conn = "none"
         /\ opt.proto # "udp" => ~w.timer
         /\ opt.proto = "udp" => w.timer = u.timer
         /\ opt.resolv => w.i = u.i + 1
         /\ ~opt.resolv => w.i = u.i
         /\ More(u) =>
              /\ w.text = Append(u.text, u.i + 1) /\ w.last = u.last
              /\ w.of = u.of /\ w.written = u.written /\ w.macro = u.macro
              /\ w.qst = "next" /\ w.next /\ w.doneT = u.doneT
         /\ ~More(u) =>
              /\ w.text = <<>> /\ w.last = Append(u.text, u.i + 1)
              /\ w.of = u.max /\ ~w.macro
              /\ u.written <= MaxStarts => w.written = u.written + 1
              /\ u.qst = "again" => w.qst = "again" /\ w.doneT = u.doneT
              /\ u.qst # "again" => /\ w.qst = "free"
                                    /\ w.doneT <=> u.doneT \/ opt.host = "eooqd"
              /\ w.next = u.next
<1> DEFINE i == IF opt.resolv THEN u.i + 1 ELSE u.i
           text == Append(u.text, u.i + 1)
           out == ~opt.resolv \/ i >= u.max
           p == [u EXCEPT !.i = i, !.text = IF out THEN <<>> ELSE text,
                  !.last = IF out THEN text ELSE @,
                  !.of = IF out THEN u.max ELSE @,
                  !.macro = IF out THEN FALSE ELSE @,
                  !.written = IF out /\ @ <= MaxStarts THEN @ + 1 ELSE @,
                  !.retry = 0,
                  !.leftover = @ \/ (u.timer /\ opt.proto = "udp")]
<1>1. /\ u.i \in Nat /\ u.max \in Nat /\ u.text \in Text /\ u.written \in Nat
      /\ u.last \in Text /\ u.of \in Nat
  BY Zenon DEF Query
<1>2. u.i + 1 \in Nat /\ i \in Nat /\ u.written + 1 \in Nat /\ 0 \in Nat
  BY <1>1
<1>3. text \in Text
  BY <1>1, AppendType, Zenon
<1>4. out <=> ~More(u)
  BY <1>1 DEF More
<1>5. (opt.resolv /\ i < u.max) <=> More(u)
  BY <1>1 DEF More
<1>6. w = FreeQryInst(p)
  BY Zenon DEF PrintReply
<1>7. p \in Query
  <2> DEFINE tx == IF out THEN <<>> ELSE text
             la == IF out THEN text ELSE u.last
             of == IF out THEN u.max ELSE u.of
             wr == IF out /\ u.written <= MaxStarts THEN u.written + 1 ELSE u.written
             ma == IF out THEN FALSE ELSE u.macro
             le == u.leftover \/ (u.timer /\ opt.proto = "udp")
  <2>1. tx \in Text /\ la \in Text /\ of \in Nat /\ wr \in Nat /\ le \in Flag
        /\ ma \in Flag
    <3>1. u.macro \in Flag
      BY Zenon DEF Query
    <3> QED  BY <1>1, <1>2, <1>3, <3>1, NoText, Flags, Zenon
  <2>2. p = [u EXCEPT !.i = i, !.text = tx, !.last = la, !.of = of,
                      !.macro = ma, !.written = wr, !.retry = 0, !.leftover = le]
    BY Zenon
  <2> HIDE DEF i, tx, la, of, wr, le, ma, p
  <2> QED  BY ONLY u \in Query, <1>2, <2>1, <2>2, PrintedType, ZenonT(40)
<1>8. /\ SameRun(p, u) /\ p.dns = u.dns /\ p.qst = u.qst /\ p.next = u.next
      /\ p.doneT = u.doneT /\ p.timer = u.timer /\ p.i = i
      /\ p.text = (IF out THEN <<>> ELSE text)
      /\ p.last = (IF out THEN text ELSE u.last)
      /\ p.of = (IF out THEN u.max ELSE u.of)
      /\ p.macro = (IF out THEN FALSE ELSE u.macro)
      /\ p.leftover <=> u.leftover \/ (u.timer /\ opt.proto = "udp")
  BY Zenon DEF Query, SameRun
<1>9. /\ out /\ u.written <= MaxStarts => p.written = u.written + 1
      /\ ~out => p.written = u.written
  BY Zenon DEF Query
<1> HIDE DEF p
<1>10. /\ w \in Query /\ SameRun(w, p) /\ SameText(w, p) /\ w.dns = p.dns
       /\ w.leftover = p.leftover /\ ~w.sock /\ w.conn = "none"
       /\ opt.proto # "udp" => ~w.timer
       /\ opt.proto = "udp" => w.timer = p.timer
  BY <1>6, <1>7, FreeQryInstFields, Zenon
<1>11. p.max = u.max /\ p.i = i
  BY <1>8, Zenon DEF SameRun
<1>12. /\ More(u) => w.qst = "next" /\ w.next /\ w.doneT = p.doneT
       /\ ~More(u) /\ p.qst = "again" =>
            w.qst = "again" /\ w.next = p.next /\ w.doneT = p.doneT
       /\ ~More(u) /\ p.qst # "again" =>
            /\ w.qst = "free" /\ w.next = p.next
            /\ w.doneT <=> p.doneT \/ opt.host = "eooqd"
  <2>1. (opt.resolv /\ p.i < p.max) <=> More(u)
    BY <1>5, <1>11, Zenon
  <2> QED  BY <2>1, <1>6, <1>7, FreeQryInstFields, Zenon
<1>13. SameRun(w, u)
  BY <1>8, <1>10, Zenon DEF SameRun
<1>14. /\ opt.resolv => w.i = u.i + 1
       /\ ~opt.resolv => w.i = u.i
  BY <1>8, <1>10, Zenon DEF SameText
<1>15. /\ More(u) => /\ w.text = text /\ w.last = u.last
                     /\ w.of = u.of /\ w.written = u.written
                     /\ w.macro = u.macro
       /\ ~More(u) => /\ w.text = <<>> /\ w.last = text /\ w.of = u.max
                      /\ ~w.macro
                      /\ u.written <= MaxStarts => w.written = u.written + 1
  BY <1>4, <1>8, <1>9, <1>10, Zenon DEF SameText
<1> QED  BY <1>8, <1>10, <1>12, <1>13, <1>14, <1>15, Zenon

-----------------------------------------------------------------------------
(* A query that printReply is called for: the run has not been reported.   *)
Printable(u, n) ==
  /\ u.there /\ Frame(u) /\ (More(u) => Counting(u.text, u.i))
  /\ ~opt.resolv => u.i = 0
  /\ u.timer /\ opt.proto = "udp" => ~opt.resolv
  /\ ~u.leftover => /\ u.qst \notin Gap /\ u.dns = 0 /\ ~u.doneT
                    /\ u.runs <= n /\ u.written + 1 = u.runs
                    /\ u.next => u.early /\ u.runs + 1 <= n

LEMMA Printed ==
  ASSUME opt \in Options, NEW n \in Nat, n <= MaxStarts + 1,
         NEW u, Printable(u, n), NEW w, w = PrintReply(u)
  PROVE  /\ Told(w) /\ Frame(w) /\ Texts(w)
         /\ ~w.leftover => Phase(w) /\ Counts(w, n)
<1>1. /\ u \in Query /\ Frame(u) /\ u.there
      /\ u.i \in Nat /\ u.max \in Nat /\ u.text \in Text
  BY Zenon DEF Printable, Frame, Query
<1>2. /\ w \in Query /\ SameRun(w, u) /\ w.dns = u.dns
      /\ w.leftover <=> u.leftover \/ (u.timer /\ opt.proto = "udp")
      /\ ~w.sock /\ w.conn = "none"
      /\ opt.proto # "udp" => ~w.timer
      /\ opt.proto = "udp" => w.timer = u.timer
      /\ opt.resolv => w.i = u.i + 1
      /\ ~opt.resolv => w.i = u.i
  BY <1>1, PrintReplyFields, ZenonT(40)
<1>3. More(u) => /\ w.text = Append(u.text, u.i + 1) /\ w.written = u.written
                 /\ w.qst = "next" /\ w.next /\ w.doneT = u.doneT
  BY <1>1, PrintReplyFields
<1>4. ~More(u) => /\ w.text = <<>>
                  /\ u.written <= MaxStarts => w.written = u.written + 1
                  /\ u.qst = "again" => w.qst = "again" /\ w.doneT = u.doneT
                  /\ u.qst # "again" => /\ w.qst = "free"
                                        /\ w.doneT <=> u.doneT \/ opt.host = "eooqd"
                  /\ w.next = u.next
  BY <1>1, PrintReplyFields
<1>5. Told(w)
  BY <1>3, <1>4, Zenon DEF Told
<1>6. Frame(w)
  BY <1>1, <1>2, <1>3, <1>4, Zenon DEF Frame, SameRun, Printable
<1>7. opt.resolv => u.qst \notin Gap
  BY <1>1, Zenon DEF Printable, Frame
<1>8. Texts(w)
  <2>1. CASE More(u)
    <3>1. Counting(Append(u.text, u.i + 1), u.i + 1)
      BY <1>1, <2>1, Appended, Zenon DEF Printable
    <3>2. w.i < w.max /\ Counting(w.text, w.i)
      BY <1>2, <1>3, <2>1, <3>1, Zenon DEF More, SameRun
    <3> QED  BY <1>3, <2>1, <3>2, Zenon DEF Texts, More
  <2>2. CASE ~More(u)
    <3>1. opt.resolv => w.max <= w.i
      <4>1. opt.resolv => u.max <= u.i + 1
        BY <1>1, <2>2 DEF More
      <4> QED  BY <1>2, <4>1, Zenon DEF SameRun
    <3> QED  BY <1>2, <1>4, <1>7, <2>2, <3>1, Zenon DEF Texts, Printable, Gap
  <2> QED  BY <2>1, <2>2, Zenon
<1>10. ASSUME ~w.leftover PROVE Phase(w) /\ Counts(w, n)
  <2>1. ~u.leftover /\ ~w.timer
    BY <1>2, <1>10, TheOptions, Zenon
  <2>2. /\ u.qst \notin Gap /\ u.dns = 0 /\ ~u.doneT
        /\ u.runs <= n /\ u.written + 1 = u.runs
        /\ u.next => u.early /\ u.runs + 1 <= n
    BY <2>1, Zenon DEF Printable
  <2>3. Quiet(w) /\ w.runs = u.runs /\ w.early = u.early
    BY <1>2, <2>1, <2>2, Zenon DEF Quiet, SameRun
  <2>4. u.written <= MaxStarts
    <3>1. u.written \in Nat /\ u.runs \in Nat /\ MaxStarts \in Nat
      BY <1>1, TdigAssumption, Zenon DEF Query
    <3> QED  BY ONLY <3>1, <2>2, n \in Nat, n <= MaxStarts + 1
  <2>5. CASE More(u)
    <3>1. w.qst = "next" /\ w.next /\ w.doneT = u.doneT /\ w.written = u.written
      BY <1>3, <2>5, Zenon
    <3> QED  BY <2>2, <2>3, <3>1, Zenon DEF Phase, Counts, Gap
  <2>6. CASE ~More(u)
    <3>1. w.qst = "free" /\ w.next = u.next /\ w.written = u.written + 1
      BY <1>4, <2>2, <2>4, <2>6, Zenon DEF Gap
    <3> QED  BY <2>2, <2>3, <3>1, Zenon DEF Phase, Counts, Gap
  <2> QED  BY <2>5, <2>6, Zenon
<1> QED  BY <1>5, <1>6, <1>8, <1>10, Zenon

(* The objects before i are there.                                         *)
Active(u, n) ==
  /\ Printable(u, n) /\ Complete(u) /\ Counting(u.text, u.i)
  /\ opt.resolv => u.i < u.max \/ (u.i = 0 /\ u.max = 0)

LEMMA PrintReplyInv ==
  ASSUME opt \in Options, NEW n \in Nat, n <= MaxStarts + 1,
         NEW u, Active(u, n), NEW w, w = PrintReply(u)
  PROVE  Inv(w, n)
<1>1. /\ u \in Query /\ Counting(u.text, u.i) /\ Frame(u) /\ Complete(u)
      /\ u.i \in Nat /\ u.max \in Nat /\ u.text \in Text
      /\ Printable(u, n)
  BY Zenon DEF Active, Printable, Frame, Query
<1>2. More(u) => /\ w.last = u.last /\ w.of = u.of /\ w.written = u.written
                 /\ w.macro = u.macro
  BY <1>1, PrintReplyFields
<1>3. ~More(u) => w.last = Append(u.text, u.i + 1) /\ w.of = u.max /\ ~w.macro
  BY <1>1, PrintReplyFields
<1>4. Counting(Append(u.text, u.i + 1), u.i + 1)
  BY <1>1, Appended, Zenon
<1>5. Complete(w)
  <2>1. CASE More(u)
    BY <1>1, <1>2, <2>1, Zenon DEF Complete
  <2>2. CASE ~More(u)
    <3>1. CASE opt.resolv /\ u.max > 0
      <4>1. u.i + 1 = u.max
        BY <1>1, <2>2, <3>1 DEF More, Active
      <4> QED  BY <1>3, <1>4, <2>2, <3>1, <4>1, Zenon DEF Complete
    <3>2. CASE ~(opt.resolv /\ u.max > 0)
      <4>1. u.i + 1 = 1
        BY <1>1, <3>2 DEF Active, Printable
      <4> QED  BY <1>3, <1>4, <2>2, <3>2, <4>1, Zenon DEF Complete
    <3> QED  BY <3>1, <3>2, Zenon
  <2> QED  BY <2>1, <2>2, Zenon
<1> QED  BY <1>1, <1>5, Printed, Zenon DEF Inv

(* The macro does not expand: one object, whatever its subid.              *)
LEMMA MacroFailsInv ==
  ASSUME opt \in Options, NEW n \in Nat, n <= MaxStarts + 1,
         NEW u, Printable(u, n), ~More(u), u.text = <<>>,
         NEW w, w = MacroFails(u)
  PROVE  Inv(w, n)
<1> DEFINE p == PrintReply(u)
<1>1. u \in Query /\ u.i \in Nat /\ w = [p EXCEPT !.macro = TRUE]
  BY Zenon DEF Printable, Frame, Query, MacroFails
<1>2. p \in Query /\ p.last = Append(<<>>, u.i + 1)
  BY <1>1, PrintReplyFields
<1>3. Len(p.last) = 1
  BY <1>1, <1>2
<1>4. /\ Told(p) /\ Frame(p) /\ Texts(p)
      /\ ~p.leftover => Phase(p) /\ Counts(p, n)
  BY Printed, Zenon
<1> HIDE DEF p
<1>5. w \in Query
  BY ONLY <1>1, <1>2, Flags, Zenon DEF Query
<1>6. /\ w.macro /\ w.last = p.last /\ w.written = p.written /\ w.text = p.text
      /\ w.i = p.i /\ w.dns = p.dns /\ w.dnsip = p.dnsip
      /\ w.leftover = p.leftover /\ w.doneT = p.doneT /\ w.timer = p.timer
      /\ w.sock = p.sock /\ w.conn = p.conn /\ w.next = p.next
      /\ w.qst = p.qst /\ SameRun(w, p)
  BY ONLY <1>1, <1>2, Zenon DEF Query, SameRun
<1>7. Complete(w)
  BY <1>3, <1>6, Zenon DEF Complete
<1>8. Told(w) /\ Frame(w) /\ Texts(w)
  BY <1>4, <1>5, <1>6, Zenon DEF Told, Frame, Texts, SameRun
<1>9. ~w.leftover => Phase(w) /\ Counts(w, n)
  BY <1>4, <1>6, Zenon DEF Phase, Counts, Quiet, SameRun
<1> QED  BY <1>7, <1>8, <1>9, Zenon DEF Inv

LEMMA ArmedType ==
  ASSUME NEW u \in Query, NEW v, v = [u EXCEPT !.next = TRUE]
  PROVE  /\ v \in Query /\ v.next
         /\ SameRun(v, u) /\ SameText(v, u) /\ v.dns = u.dns
         /\ v.leftover = u.leftover /\ v.doneT = u.doneT /\ v.timer = u.timer
         /\ v.sock = u.sock /\ v.conn = u.conn /\ v.qst = u.qst
<1>1. v \in Query
  BY Flags, Zenon DEF Query
<1> QED  BY <1>1, ZenonT(40) DEF Query, SameRun, SameText

(* The query is sent again, or printReply is called.                       *)
LEMMA FailedInv ==
  ASSUME opt \in Options, NEW n \in Nat, n <= MaxStarts + 1,
         NEW u, Active(u, n), opt.resolv => u.i < u.max,
         ~opt.resolv => u.text = <<>>, opt.proto = "udp" => ~u.timer,
         NEW w, w = Failed(u)
  PROVE  Inv(w, n)
<1>1. CASE ~(u.retry < opt.retry)
  BY <1>1, PrintReplyInv, Zenon DEF Failed
<1>2. CASE u.retry < opt.retry
  <2> DEFINE k == u.retry + 1
             v == [u EXCEPT !.retry = k, !.qst = "again"]
             x == FreeQryInst(v)
  <2>1. u \in Query /\ Frame(u) /\ Complete(u) /\ Counting(u.text, u.i)
    BY Zenon DEF Active, Printable, Frame
  <2>2. k \in Nat
    <3>1. u.retry \in Nat
      BY <2>1, Zenon DEF Query
    <3> QED  BY <3>1
  <2>3. w = [x EXCEPT !.next = TRUE]
    BY <1>2, Zenon DEF Failed
  <2>4. /\ v \in Query /\ SameRun(v, u) /\ SameText(v, u) /\ v.dns = u.dns
        /\ v.leftover = u.leftover /\ v.doneT = u.doneT /\ v.timer = u.timer
        /\ v.qst = "again"
    <3> HIDE DEF k
    <3>1. v \in Query
      BY <2>1, <2>2, Zenon DEF Query, States
    <3> QED  BY <2>1, <3>1, Zenon DEF Query, SameRun, SameText
  <2> HIDE DEF v
  <2>5. /\ x \in Query /\ SameRun(x, v) /\ SameText(x, v) /\ x.dns = v.dns
        /\ x.leftover = v.leftover /\ ~x.sock /\ x.conn = "none"
        /\ opt.proto # "udp" => ~x.timer
        /\ opt.proto = "udp" => x.timer = v.timer
        /\ x.qst \in Gap /\ x.doneT = v.doneT
    <3>1. CASE opt.resolv /\ v.i < v.max
      BY <2>4, <3>1, FreeQryInstFields, ZenonT(40) DEF Gap
    <3>2. CASE ~(opt.resolv /\ v.i < v.max)
      BY <2>4, <3>2, FreeQryInstFields, Zenon DEF Gap
    <3> QED  BY <3>1, <3>2, Zenon
  <2> HIDE DEF x
  <2>6. /\ w \in Query /\ w.next
        /\ SameRun(w, u) /\ SameText(w, u) /\ w.dns = u.dns
        /\ w.leftover = u.leftover /\ ~w.sock /\ w.conn = "none" /\ ~w.timer
        /\ w.qst \in Gap /\ w.doneT = u.doneT
    <3>1. /\ w \in Query /\ w.next
          /\ SameRun(w, x) /\ SameText(w, x) /\ w.dns = x.dns
          /\ w.leftover = x.leftover /\ w.doneT = x.doneT /\ w.timer = x.timer
          /\ w.sock = x.sock /\ w.conn = x.conn /\ w.qst = x.qst
      BY <2>3, <2>5, ArmedType, Zenon
    <3>2. SameRun(w, u) /\ SameText(w, u)
      <4>1. SameRun(w, u)
        BY ONLY <2>4, <2>5, <3>1, Zenon DEF SameRun
      <4>2. SameText(w, u)
        BY ONLY <2>4, <2>5, <3>1, Zenon DEF SameText
      <4> QED  BY <4>1, <4>2, Zenon
    <3>3. ~w.timer
      BY <2>4, <2>5, <3>1, TheOptions, Zenon
    <3> QED  BY <2>4, <2>5, <3>1, <3>2, <3>3, Zenon
  <2>7. Frame(w)
    BY <2>1, <2>6, Zenon DEF Frame, SameRun
  <2>8. Texts(w)
    BY <2>1, <2>6, Zenon DEF Texts, SameText, SameRun, Gap, Active,
       Printable
  <2>9. Complete(w)
    BY <2>1, <2>6, Zenon DEF Complete, SameText
  <2>10. ASSUME ~w.leftover PROVE Phase(w) /\ Counts(w, n)
    <3>1. /\ u.dns = 0 /\ ~u.doneT /\ u.runs <= n /\ u.written + 1 = u.runs
      BY <2>6, <2>10, Zenon DEF Active, Printable
    <3>2. Quiet(w) /\ w.runs = u.runs /\ w.written = u.written /\ ~w.doneT
      BY <2>6, <3>1, Zenon DEF Quiet, SameRun, SameText
    <3> QED  BY <2>6, <3>1, <3>2, Zenon DEF Phase, Counts, Gap
  <2>11. Told(w)
    BY <2>6, Zenon DEF Told, Gap
  <2> QED  BY <2>7, <2>8, <2>9, <2>10, <2>11, Zenon DEF Inv
<1> QED  BY <1>1, <1>2, Zenon

-----------------------------------------------------------------------------
(* tdig_start                                                              *)

LEMMA ResolveInv ==
  ASSUME opt \in Options, NEW n \in Nat, NEW u, Frame(u), Complete(u),
         ~opt.resolv => u.text = <<>> /\ u.i = 0,
         opt.resolv => u.i < u.max /\ Counting(u.text, u.i),
         ~u.leftover => /\ Quiet(u) /\ ~u.doneT
                        /\ u.runs <= n /\ u.written + 1 = u.runs
                        /\ u.next => u.early /\ u.runs + 1 <= n,
         NEW w, w = Resolve(u)
  PROVE  Inv(w, n)
<1>1. u \in Query /\ u.dns \in Nat /\ u.dns + 1 \in Nat
  <2>1. u \in Query /\ u.dns \in Nat
    BY Zenon DEF Frame, Query
  <2> QED  BY <2>1
<1>2. /\ w \in Query /\ SameRun(w, u) /\ SameText(w, u)
      /\ w.leftover = u.leftover /\ w.doneT = u.doneT /\ w.timer = u.timer
      /\ w.sock = u.sock /\ w.conn = u.conn /\ w.next = u.next
      /\ w.qst = "dns" /\ w.dns = u.dns + 1
      /\ opt.proto # "udp" => w.dnsip
  <2> DEFINE d == u.dns + 1
             f == opt.proto # "udp"
             v == [u EXCEPT !.qst = "dns", !.dns = d, !.dnsip = f]
  <2>1. w = v
    BY Zenon DEF Resolve
  <2>2. d \in Nat /\ f \in Flag /\ "dns" \in States
    BY <1>1, Zenon DEF Flag, States
  <2>3. f <=> opt.proto # "udp"
    BY Zenon
  <2> HIDE DEF d, f
  <2>4. v \in Query
    BY <1>1, <2>2, Zenon DEF Query
  <2>5. /\ SameRun(v, u) /\ SameText(v, u)
        /\ v.leftover = u.leftover /\ v.doneT = u.doneT /\ v.timer = u.timer
        /\ v.sock = u.sock /\ v.conn = u.conn /\ v.next = u.next
        /\ v.qst = "dns" /\ v.dns = d /\ v.dnsip = f
    BY <1>1, Zenon DEF Query, SameRun, SameText
  <2> HIDE DEF v
  <2> QED  BY <2>1, <2>3, <2>4, <2>5, Zenon DEF d
<1>3. Frame(w)
  BY <1>2, Zenon DEF Frame, SameRun
<1>4. Texts(w) /\ Complete(w)
  BY <1>2, Zenon DEF Texts, Complete, SameRun, SameText
<1>5. ASSUME ~w.leftover PROVE Phase(w) /\ Counts(w, n)
  <2>1. /\ Quiet(u) /\ ~u.doneT /\ u.runs <= n /\ u.written + 1 = u.runs
        /\ u.next => u.early /\ u.runs + 1 <= n
    BY <1>2, <1>5, Zenon
  <2>2. w.dns = 1
    <3>1. u.dns = 0
      BY <2>1, Zenon DEF Quiet
    <3> QED  BY <1>2, <3>1
  <2> QED
    BY <1>2, <2>1, <2>2, Zenon
       DEF Phase, Counts, Gap, Quiet, SameRun, SameText
<1>6. Told(w)
  BY <1>2, Zenon DEF Told
<1> QED  BY <1>3, <1>4, <1>5, <1>6, Zenon DEF Inv

(* What tdig_start finds, if n counts the start it belongs to.             *)
Startable(u, n) ==
  /\ u.there /\ Frame(u) /\ Texts(u) /\ Complete(u)
  /\ ~u.leftover =>
       /\ u.qst = "free" => /\ Quiet(u) /\ ~u.doneT /\ u.written = u.runs
                            /\ u.runs + 1 <= n
                            /\ u.next => u.early /\ u.runs + 2 <= n
       /\ u.qst \in Gap => /\ Quiet(u) /\ ~u.doneT /\ u.runs <= n
                           /\ u.written + 1 = u.runs
                           /\ u.next => u.early /\ u.runs + 1 <= n
       /\ u.qst \notin Gap \cup {"free"} => Phase(u) /\ Counts(u, n)

(* A run that begins: r is the number of runs.                             *)
LEMMA FreshInv ==
  ASSUME opt \in Options, NEW n \in Nat, n <= MaxStarts + 1,
         NEW u, Startable(u, n), u.qst = "free", NEW r \in Nat,
         ~u.leftover => r = u.runs + 1, NEW w, w \in Fresh([u EXCEPT !.runs = r])
  PROVE  Inv(w, n)
<1>1. /\ u \in Query /\ Frame(u) /\ Texts(u) /\ Complete(u) /\ u.max \in Nat
      /\ u.there /\ u.i \in Nat
  BY Zenon DEF Startable, Frame, Query
<1>2. ~u.leftover => /\ Quiet(u) /\ ~u.doneT /\ u.written + 1 = r /\ r <= n
                     /\ u.next => u.early /\ r + 1 <= n
  <2>1. SUFFICES ASSUME ~u.leftover
                 PROVE  /\ Quiet(u) /\ ~u.doneT /\ u.written + 1 = r /\ r <= n
                        /\ u.next => u.early /\ r + 1 <= n
    BY Zenon
  <2>2. /\ Quiet(u) /\ ~u.doneT /\ u.written = u.runs /\ u.runs + 1 <= n
        /\ u.next => u.early /\ u.runs + 2 <= n
    BY <2>1, Zenon DEF Startable
  <2>3. u.runs + 1 = r /\ u.runs \in Nat
    BY <1>1, <2>1, Zenon DEF Query
  <2>4. u.runs + 2 <= n => r + 1 <= n
    BY ONLY <2>3, n \in Nat
  <2> QED  BY <2>2, <2>3, <2>4, Zenon
<1>3. u.text = <<>>
  BY <1>1, Zenon DEF Texts
<1> DEFINE v(m) == [u EXCEPT !.runs = r, !.i = 0, !.max = m]
<1>4. ASSUME NEW m \in Nat
      PROVE  /\ Frame(v(m)) /\ Complete(v(m)) /\ v(m).i = 0 /\ v(m).max = m
             /\ v(m).text = <<>> /\ Counting(v(m).text, v(m).i)
             /\ v(m).qst = "free" /\ v(m).leftover = u.leftover
             /\ v(m).timer = u.timer /\ v(m).there
             /\ ~u.leftover => /\ Quiet(v(m)) /\ ~v(m).doneT
                               /\ v(m).written + 1 = v(m).runs /\ v(m).runs <= n
                               /\ v(m).next => v(m).early /\ v(m).runs + 1 <= n
  <2> DEFINE x == v(m)
  <2>1. /\ x \in Query /\ x.i = 0 /\ x.max = m /\ x.runs = r
        /\ x.text = u.text /\ x.last = u.last /\ x.of = u.of
        /\ x.written = u.written /\ x.there = u.there /\ x.dones = u.dones
        /\ x.macro = u.macro
        /\ x.early = u.early /\ x.leftover = u.leftover /\ x.doneT = u.doneT
        /\ x.timer = u.timer /\ x.sock = u.sock /\ x.conn = u.conn
        /\ x.next = u.next /\ x.dns = u.dns /\ x.qst = u.qst
    <3>1. 0 \in Nat
      OBVIOUS
    <3>2. x \in Query
      BY <1>1, <3>1, Zenon DEF Query
    <3> QED  BY <1>1, <3>2, Zenon DEF Query
  <2> HIDE DEF x
  <2>2. Frame(x) /\ Complete(x)
    BY <1>1, <2>1, Zenon DEF Frame, Complete
  <2>3. x.text = <<>> /\ Counting(x.text, x.i)
    BY <1>3, <2>1, NoText, Zenon
  <2>4. ~u.leftover => /\ Quiet(x) /\ ~x.doneT
                       /\ x.written + 1 = x.runs /\ x.runs <= n
                       /\ x.next => x.early /\ x.runs + 1 <= n
    BY <1>2, <2>1, Zenon DEF Quiet
  <2>5. /\ Frame(x) /\ Complete(x) /\ x.i = 0 /\ x.max = m
        /\ x.text = <<>> /\ Counting(x.text, x.i)
        /\ x.qst = "free" /\ x.leftover = u.leftover /\ x.timer = u.timer
        /\ x.there
        /\ ~u.leftover => /\ Quiet(x) /\ ~x.doneT
                          /\ x.written + 1 = x.runs /\ x.runs <= n
                          /\ x.next => x.early /\ x.runs + 1 <= n
    BY <1>1, <2>1, <2>2, <2>3, <2>4, Zenon
  <2> QED  BY <2>5, Zenon DEF x
<1> DEFINE y == [u EXCEPT !.runs = r]
<1>7. CASE w = MacroFails(y)
  <2>1. /\ y \in Query /\ y.runs = r /\ SameText(y, u) /\ y.max = u.max
        /\ y.there = u.there /\ y.dones = u.dones /\ y.early = u.early
        /\ y.leftover = u.leftover /\ y.doneT = u.doneT
        /\ y.timer = u.timer /\ y.sock = u.sock /\ y.conn = u.conn
        /\ y.next = u.next /\ y.dns = u.dns /\ y.qst = u.qst
    <3>1. y \in Query
      BY <1>1, Zenon DEF Query
    <3> QED  BY <1>1, <3>1, Zenon DEF Query, SameText
  <2> HIDE DEF y
  <2>2. Frame(y) /\ y.there
    BY <1>1, <2>1, Zenon DEF Frame
  <2>3. ~More(y) /\ y.text = <<>>
    <3>1. opt.resolv => u.max <= u.i
      BY <1>1, Zenon DEF Texts
    <3>2. ~More(u)
      BY <1>1, <3>1 DEF More
    <3> QED  BY <1>3, <2>1, <3>2, Zenon DEF More, SameText
  <2>4. /\ ~opt.resolv => y.i = 0
        /\ y.timer /\ opt.proto = "udp" => ~opt.resolv
    BY <1>1, <1>2, <2>1, Zenon DEF Texts, SameText, Frame, Quiet
  <2>5. ~y.leftover => /\ y.qst \notin Gap /\ y.dns = 0 /\ ~y.doneT
                       /\ y.runs <= n /\ y.written + 1 = y.runs
                       /\ y.next => y.early /\ y.runs + 1 <= n
    BY <1>2, <2>1, Zenon DEF Quiet, Gap, SameText
  <2>6. Printable(y, n)
    BY <2>2, <2>3, <2>4, <2>5, Zenon DEF Printable
  <2> QED  BY <1>7, <2>3, <2>6, MacroFailsInv, Zenon
<1>5. CASE opt.resolv /\ w # MacroFails(y)
  <2>1. ~u.leftover
    BY <1>1, <1>5, Zenon DEF Frame
  <2>2. PICK m \in 0..MAXNS : w = IF m = 0 THEN PrintReply(v(0)) ELSE Resolve(v(m))
    BY <1>5, Zenon DEF Fresh
  <2>3. m \in Nat /\ 0 \in Nat /\ (m # 0 => 0 < m)
    BY <2>2, TdigAssumption
  <2>4. CASE m = 0
    <3> DEFINE x == v(0)
    <3>1. w = PrintReply(x)
      BY <2>2, <2>4, Zenon
    <3>2. /\ Frame(x) /\ Complete(x) /\ x.i = 0 /\ x.max = 0
          /\ x.text = <<>> /\ Counting(x.text, x.i)
          /\ x.qst = "free" /\ x.leftover = u.leftover /\ x.there
          /\ ~u.leftover => /\ Quiet(x) /\ ~x.doneT
                            /\ x.written + 1 = x.runs /\ x.runs <= n
                            /\ x.next => x.early /\ x.runs + 1 <= n
      BY <1>4, <2>3, Zenon
    <3> HIDE DEF x
    <3>3. Active(x, n)
      BY <2>1, <3>2, Zenon DEF Active, Printable, Quiet, Gap
    <3> QED  BY <3>1, <3>3, PrintReplyInv, Zenon
  <2>5. CASE m # 0
    <3> DEFINE x == v(m)
    <3>1. w = Resolve(x)
      BY <2>2, <2>5, Zenon
    <3>2. /\ Frame(x) /\ Complete(x) /\ x.i = 0 /\ x.max = m
          /\ x.text = <<>> /\ Counting(x.text, x.i)
          /\ x.qst = "free" /\ x.leftover = u.leftover /\ x.there
          /\ ~u.leftover => /\ Quiet(x) /\ ~x.doneT
                            /\ x.written + 1 = x.runs /\ x.runs <= n
                            /\ x.next => x.early /\ x.runs + 1 <= n
      BY <1>4, <2>3, Zenon
    <3> HIDE DEF x
    <3>3. x.i < x.max
      BY <2>3, <2>5, <3>2, Zenon
    <3> QED  BY <1>5, <2>1, <3>1, <3>2, <3>3, ResolveInv, Zenon
  <2> QED  BY <2>4, <2>5, Zenon
<1>6. CASE ~opt.resolv /\ w # MacroFails(y)
  <2> DEFINE x == v(u.max)
  <2>1. w = Resolve([[u EXCEPT !.runs = r] EXCEPT !.i = 0])
    BY <1>6, Zenon DEF Fresh
  <2>2. [[u EXCEPT !.runs = r] EXCEPT !.i = 0] = x
    BY <1>1 DEF Query
  <2>3. /\ Frame(x) /\ Complete(x) /\ x.i = 0
        /\ x.text = <<>> /\ x.leftover = u.leftover
        /\ ~u.leftover => /\ Quiet(x) /\ ~x.doneT
                          /\ x.written + 1 = x.runs /\ x.runs <= n
                          /\ x.next => x.early /\ x.runs + 1 <= n
    BY <1>1, <1>4, Zenon
  <2> HIDE DEF x
  <2> QED  BY <1>6, <2>1, <2>2, <2>3, ResolveInv, Zenon
<1> QED  BY <1>5, <1>6, <1>7, Zenon

LEMMA TdigStartInv ==
  ASSUME opt \in Options, NEW n \in Nat, n <= MaxStarts + 1,
         NEW u, Startable(u, n), NEW w, w \in TdigStart(u)
  PROVE  Inv(w, n)
<1>1. u \in Query /\ Frame(u) /\ Texts(u) /\ Complete(u) /\ u.runs \in Nat
  BY Zenon DEF Startable, Frame, Query
<1>2. CASE u.qst = "free"
  <2> DEFINE r == IF u.runs <= MaxStarts THEN u.runs + 1 ELSE u.runs
  <2>1. w \in Fresh([u EXCEPT !.runs = r])
    BY <1>2, Zenon DEF TdigStart
  <2>2. r \in Nat
    BY <1>1
  <2>3. ASSUME ~u.leftover PROVE r = u.runs + 1
    <3>1. u.runs + 1 <= n /\ MaxStarts \in Nat
      BY <1>2, <2>3, TdigAssumption, Zenon DEF Startable
    <3>2. u.runs <= MaxStarts
      BY ONLY <1>1, <3>1, n \in Nat, n <= MaxStarts + 1
    <3> QED  BY <3>2, Zenon
  <2> HIDE DEF r
  <2> QED  BY <1>2, <2>1, <2>2, <2>3, FreshInv, Zenon
<1>3. CASE u.qst \in Gap
  <2>1. w = Resolve(u) /\ u.qst # "free"
    BY <1>3, Zenon DEF TdigStart, Gap
  <2> QED  BY <1>1, <1>3, <2>1, ResolveInv, Zenon DEF Startable, Texts
<1>4. CASE u.qst \notin Gap \cup {"free"}
  <2>1. w = u
    BY <1>4, Zenon DEF TdigStart, Gap
  <2> QED  BY <1>1, <1>4, <2>1, Zenon DEF Startable, Inv, Told
<1> QED  BY <1>2, <1>3, <1>4, Zenon

(* eperd or eooqd starts the measurement once more.                        *)
LEMMA StartInv ==
  ASSUME IInv, Start
  PROVE  /\ Inv(q', starts')
         /\ starts' \in Nat /\ starts' <= MaxStarts + 1 /\ starts' # 0
<1> DEFINE n == starts + 1
           e == q.early \/ q.qst \in {"next", "again"}
           u == [q EXCEPT !.early = e]
<1>1. /\ starts \in Nat /\ MaxStarts \in Nat /\ q \in Query /\ q.runs \in Nat
      /\ opt \in Options
      /\ Frame(q) /\ Texts(q) /\ Complete(q)
      /\ ~q.leftover => Phase(q) /\ Counts(q, starts)
      /\ starts = 0 => Still(q)
      /\ q.there
  BY TdigAssumption, Zenon DEF IInv, Inv, Frame, Query, Start
<1>2. starts < (IF opt.host = "eperd" THEN MaxStarts ELSE 1)
  BY Zenon DEF Start
<1>3. starts' = n /\ q' \in TdigStart(u)
  BY Zenon DEF Start
<1>4. n \in Nat /\ n <= MaxStarts + 1 /\ n # 0
  <2>1. CASE opt.host = "eperd"
    BY <1>1, <1>2, <2>1
  <2>2. CASE opt.host # "eperd"
    BY <1>1, <1>2, <2>2
  <2> QED  BY <2>1, <2>2, Zenon
<1>5. ASSUME opt.host = "eooqd" PROVE Still(q)
  <2>1. starts < 1
    BY <1>2, <1>5, Zenon
  <2>2. starts = 0
    BY <1>1, <2>1
  <2> QED  BY <1>1, <2>2, Zenon
<1>6. /\ u \in Query /\ u.early = e /\ SameText(u, q)
      /\ u.there = q.there /\ u.dones = q.dones /\ u.runs = q.runs
      /\ u.max = q.max /\ u.dns = q.dns /\ u.dnsip = q.dnsip
      /\ u.leftover = q.leftover /\ u.doneT = q.doneT /\ u.timer = q.timer
      /\ u.sock = q.sock /\ u.conn = q.conn /\ u.next = q.next
      /\ u.qst = q.qst
  <2>1. e \in Flag
    BY Zenon DEF Flag
  <2> HIDE DEF e
  <2>2. u \in Query
    BY <1>1, <2>1, Zenon DEF Query
  <2> QED  BY <1>1, <2>2, Zenon DEF Query, SameText
<1>7. e <=> q.early \/ q.qst \in Gap
  BY Zenon DEF Gap
<1> HIDE DEF u, e
<1>8. Frame(u)
  <2>1. opt.host = "eooqd" => ~u.early
    BY <1>1, <1>5, <1>6, <1>7, Zenon DEF Frame, Still, Gap
  <2> QED  BY <1>1, <1>6, <2>1, Zenon DEF Frame
<1>9. Texts(u) /\ Complete(u)
  BY <1>1, <1>6, Zenon DEF Texts, Complete, SameText
<1>10. /\ q.runs <= starts => q.runs + 1 <= n /\ q.runs <= n
       /\ q.runs + 1 <= starts => q.runs + 2 <= n /\ q.runs + 1 <= n
  BY <1>1
<1> HIDE DEF n
<1>11. ASSUME ~u.leftover, u.qst = "free"
       PROVE  /\ Quiet(u) /\ ~u.doneT /\ u.written = u.runs
              /\ u.runs + 1 <= n
              /\ u.next => u.early /\ u.runs + 2 <= n
  <2>1. ~q.doneT
    BY <1>1, <1>5, Zenon DEF Frame, Still
  <2>2. Phase(q) /\ Counts(q, starts) /\ q.qst = "free"
    BY <1>1, <1>6, <1>11, Zenon
  <2> QED  BY <1>6, <1>7, <1>10, <2>1, <2>2, Zenon
              DEF Phase, Counts, Quiet, SameText, Gap
<1>12. ASSUME ~u.leftover, u.qst \in Gap
       PROVE  /\ Quiet(u) /\ ~u.doneT /\ u.runs <= n
              /\ u.written + 1 = u.runs
              /\ u.next => u.early /\ u.runs + 1 <= n
  <2>1. Phase(q) /\ Counts(q, starts) /\ q.qst \in Gap
    BY <1>1, <1>6, <1>12, Zenon
  <2>2. q.qst # "free"
    BY <2>1, Zenon DEF Gap
  <2> QED  BY <1>6, <1>7, <1>10, <2>1, <2>2, Zenon
              DEF Phase, Counts, Quiet, SameText
<1>13. ASSUME ~u.leftover, u.qst \notin Gap \cup {"free"}
       PROVE  Phase(u) /\ Counts(u, n)
  <2>1. Phase(q) /\ Counts(q, starts) /\ q.qst \notin Gap \cup {"free"}
    BY <1>1, <1>6, <1>13, Zenon
  <2>2. Phase(u)
    BY <1>6, <1>7, <2>1, Zenon DEF Phase, Quiet
  <2>3. Counts(u, n)
    BY <1>6, <1>10, <2>1, Zenon DEF Counts, SameText
  <2> QED  BY <2>2, <2>3, Zenon
<1>14. Startable(u, n)
  BY <1>1, <1>6, <1>8, <1>9, <1>11, <1>12, <1>13, Zenon DEF Startable
<1> QED  BY <1>1, <1>3, <1>4, <1>14, TdigStartInv, Zenon

(* next_qry_timer begins the next query, or, left behind, another run.     *)
LEMMA NextQryCbInv ==
  ASSUME IInv, NextQryCb
  PROVE  Inv(q', starts) /\ starts # 0
<1> DEFINE u == [q EXCEPT !.next = FALSE]
<1>1. /\ starts \in Nat /\ starts <= MaxStarts + 1 /\ q \in Query
      /\ opt \in Options /\ q.next /\ q.there
      /\ Frame(q) /\ Texts(q) /\ Complete(q)
      /\ ~q.leftover => Phase(q) /\ Counts(q, starts)
      /\ starts # 0
  BY Zenon DEF IInv, Inv, Frame, NextQryCb, Still
<1>2. q' \in TdigStart(u)
  BY Zenon DEF NextQryCb
<1>3. /\ u \in Query /\ SameText(u, q) /\ SameRun(u, q)
      /\ u.dns = q.dns /\ u.dnsip = q.dnsip
      /\ u.leftover = q.leftover /\ u.doneT = q.doneT /\ u.timer = q.timer
      /\ u.sock = q.sock /\ u.conn = q.conn /\ ~u.next
      /\ u.qst = q.qst
  <2>1. u \in Query
    BY <1>1, Flags, Zenon DEF Query
  <2> QED  BY <1>1, <2>1, Zenon DEF Query, SameText, SameRun
<1> HIDE DEF u
<1>4. Frame(u) /\ Texts(u) /\ Complete(u)
  BY <1>1, <1>3, ZenonT(40) DEF Frame, Texts, Complete, SameText, SameRun
<1>5. ASSUME ~u.leftover, u.qst = "free"
      PROVE  Quiet(u) /\ ~u.doneT /\ u.written = u.runs /\ u.runs + 1 <= starts
  <2>1. Phase(q) /\ Counts(q, starts) /\ q.qst = "free" /\ q.qst \notin Gap
    BY <1>1, <1>3, <1>5, Zenon DEF Gap
  <2>2. ~q.doneT
    BY <1>1, <2>1, Zenon DEF Phase, Frame
  <2> QED  BY <1>1, <1>3, <2>1, <2>2, Zenon
              DEF Phase, Counts, Quiet, SameText, SameRun
<1>6. ASSUME ~u.leftover, u.qst \in Gap
      PROVE  /\ Quiet(u) /\ ~u.doneT /\ u.runs <= starts
             /\ u.written + 1 = u.runs
  <2>1. /\ Phase(q) /\ Counts(q, starts) /\ q.qst \in Gap /\ q.qst # "free"
    BY <1>1, <1>3, <1>6, Zenon DEF Gap
  <2> QED  BY <1>3, <2>1, Zenon
              DEF Phase, Counts, Quiet, SameText, SameRun
<1>7. ASSUME ~u.leftover PROVE Phase(u) \/ u.qst \in Gap
  BY <1>1, <1>3, <1>7, Zenon DEF Phase, Quiet
<1>8. ASSUME ~u.leftover PROVE Counts(u, starts)
  BY <1>1, <1>3, <1>8, Zenon DEF Counts, SameText, SameRun
<1>9. Startable(u, starts)
  <2>1. u.there
    BY <1>1, <1>3, Zenon DEF SameRun
  <2> QED  BY <2>1, <1>3, <1>4, <1>5, <1>6, <1>7, <1>8, Zenon DEF Startable
<1> QED  BY <1>1, <1>2, <1>9, TdigStartInv, Zenon

-----------------------------------------------------------------------------
(* The callbacks of a query that is under way                              *)

Underway(u, n) ==
  /\ u.there /\ Frame(u) /\ Complete(u) /\ Counting(u.text, u.i)
  /\ opt.resolv => u.i < u.max
  /\ ~opt.resolv => u.text = <<>> /\ u.i = 0
  /\ ~u.leftover => /\ u.qst \in {"dns", "wait", "send"} /\ Phase(u)
                    /\ ~u.doneT /\ u.runs <= n /\ u.written + 1 = u.runs
                    /\ u.next => u.early /\ u.runs + 1 <= n

(* Only a query that is under way has a timer of its own, a socket, a      *)
(* connection or a name resolution.                                        *)
LEMMA Called ==
  ASSUME IInv, q.there, q.timer \/ q.sock \/ q.conn # "none" \/ q.dns # 0
  PROVE  starts # 0 /\ Underway(q, starts)
<1>1. /\ q \in Query /\ Frame(q) /\ Texts(q) /\ Complete(q)
      /\ ~q.leftover => Phase(q) /\ Counts(q, starts)
      /\ q.qst \in States
  BY Zenon DEF IInv, Inv, Frame, Query
<1>2. starts # 0
  BY Zenon DEF IInv, Still, Quiet
<1>3. ASSUME ~q.leftover
      PROVE  /\ q.qst \in {"dns", "wait", "send"} /\ Phase(q)
             /\ ~q.doneT /\ q.runs <= starts /\ q.written + 1 = q.runs
             /\ q.next => q.early /\ q.runs + 1 <= starts
  <2>1. Phase(q) /\ Counts(q, starts) /\ ~Quiet(q)
    BY <1>1, <1>3, Zenon DEF Quiet
  <2>2. q.qst \in {"dns", "wait", "send"}
    BY <1>1, <2>1, Zenon DEF Phase, States, Gap
  <2>3. q.qst # "free" /\ q.qst \notin Gap
    BY <2>2, Zenon DEF Gap
  <2> QED  BY <2>1, <2>2, <2>3, Zenon DEF Phase, Counts
<1>4. opt.resolv => q.i < q.max /\ Counting(q.text, q.i)
  <2>1. opt.resolv => q.qst # "free"
    BY <1>1, <1>3, Zenon DEF Frame
  <2> QED  BY <1>1, <2>1, Zenon DEF Texts
<1>5. ~opt.resolv => q.text = <<>> /\ q.i = 0 /\ Counting(q.text, q.i)
  BY <1>1, NoText, Zenon DEF Texts
<1> QED  BY <1>1, <1>2, <1>3, <1>4, <1>5, Zenon DEF Underway

(* v differs from u in its state, its name resolution, its timer, its      *)
(* socket and its connection.                                              *)
Kin(v, u) ==
  /\ v \in Query /\ SameRun(v, u) /\ SameText(v, u)
  /\ v.leftover = u.leftover /\ v.doneT = u.doneT /\ v.next = u.next

LEMMA KinFrame ==
  ASSUME NEW u, NEW v, Frame(u), Complete(u), Kin(v, u),
         v.conn # "none" => opt.proto # "udp"
  PROVE  Frame(v) /\ Complete(v)
BY Zenon DEF Frame, Complete, Kin, SameRun, SameText

(* A query that goes on to printReply.                                     *)
LEMMA KinActive ==
  ASSUME NEW n, NEW u, NEW v, Underway(u, n), Kin(v, u),
         v.conn # "none" => opt.proto # "udp",
         v.timer /\ opt.proto = "udp" => ~opt.resolv,
         ~u.leftover => v.qst \notin Gap /\ v.dns = 0
  PROVE  /\ Active(v, n)
         /\ opt.resolv => v.i < v.max
         /\ ~opt.resolv => v.text = <<>>
<1>1. Frame(v) /\ Complete(v)
  BY KinFrame, Zenon DEF Underway
<1>2. /\ Counting(v.text, v.i)
      /\ opt.resolv => v.i < v.max
      /\ ~opt.resolv => v.text = <<>> /\ v.i = 0
  BY Zenon DEF Underway, Kin, SameText, SameRun
<1>3. ASSUME ~v.leftover
      PROVE  /\ v.qst \notin Gap /\ v.dns = 0 /\ ~v.doneT
             /\ v.runs <= n /\ v.written + 1 = v.runs
             /\ v.next => v.early /\ v.runs + 1 <= n
  BY <1>3, Zenon DEF Underway, Kin, SameText, SameRun
<1> QED  BY <1>1, <1>2, <1>3, Zenon DEF Active, Printable, Underway, Kin, SameRun

(* A query that goes on waiting for its answer.                            *)
LEMMA KinWaits ==
  ASSUME NEW n, NEW u, NEW v, Underway(u, n), Kin(v, u),
         v.conn # "none" => opt.proto # "udp",
         v.qst # "free",
         ~u.leftover => v.qst \in {"wait", "send"} /\ v.dns = 0
  PROVE  Inv(v, n)
<1>1. Frame(v) /\ Complete(v)
  BY KinFrame, Zenon DEF Underway
<1>2. Texts(v)
  BY Zenon DEF Underway, Kin, SameText, SameRun, Texts
<1>3. ASSUME ~v.leftover
      PROVE  Phase(v) /\ Counts(v, n)
  <2>1. /\ v.qst \in {"wait", "send"} /\ v.dns = 0 /\ ~v.doneT
        /\ v.runs <= n /\ v.written + 1 = v.runs
        /\ v.next => v.early /\ v.runs + 1 <= n
    BY <1>3, Zenon DEF Underway, Kin, SameText, SameRun
  <2>2. v.qst # "free" /\ v.qst # "dns" /\ v.qst \notin Gap
    BY <2>1, Zenon DEF Gap
  <2> QED  BY <2>1, <2>2, Zenon DEF Phase, Counts
<1> QED  BY <1>1, <1>2, <1>3, Zenon DEF Inv, Told

LEMMA UdpDnsCbInv ==
  ASSUME IInv, UdpDnsCb
  PROVE  Inv(q', starts) /\ starts # 0
<1> DEFINE d == q.dns - 1
           u == [q EXCEPT !.dns = d]
<1>1. /\ opt \in Options /\ starts \in Nat /\ starts <= MaxStarts + 1
      /\ q \in Query /\ q.dns \in Nat /\ opt.proto = "udp" /\ Frame(q)
      /\ q.dns > 0 /\ q.there
  BY Zenon DEF IInv, Inv, Frame, Query, UdpDnsCb
<1>2. q.dns # 0 /\ d \in Nat /\ (q.dns = 1 => d = 0)
  BY <1>1
<1>3. starts # 0 /\ Underway(q, starts)
  BY <1>1, <1>2, Called, Zenon
<1>4. q' \in {PrintReply(u)} \cup SendQuery(u)
  BY Zenon DEF UdpDnsCb
<1> HIDE DEF d
<1>5. u \in Query
  BY <1>1, <1>2, Zenon DEF Query
<1>6. /\ Kin(u, q) /\ u.dns = d /\ u.qst = q.qst /\ u.conn = q.conn
      /\ u.timer = q.timer
  BY <1>1, <1>5, Zenon DEF Query, Kin, SameRun, SameText
<1> HIDE DEF u
<1>7. ASSUME ~q.leftover PROVE q.qst = "dns" /\ d = 0 /\ ~q.timer
  BY <1>2, <1>3, <1>7, Zenon DEF Underway, Phase
<1>8. u.conn # "none" => opt.proto # "udp"
  BY <1>1, <1>6, Zenon DEF Frame
<1>9. CASE q' = PrintReply(u)
  <2>1. u.timer => ~opt.resolv
    BY <1>1, <1>6, <1>7, Zenon DEF Frame
  <2>2. Active(u, starts)
    BY <1>3, <1>6, <1>7, <1>8, <2>1, KinActive, Zenon DEF Gap
  <2> QED  BY <1>1, <1>3, <1>9, <2>2, PrintReplyInv, Zenon
<1>10. CASE q' = [u EXCEPT !.timer = TRUE, !.sock = TRUE, !.qst = "wait"]
  <2> DEFINE v == [u EXCEPT !.timer = TRUE, !.sock = TRUE, !.qst = "wait"]
  <2>1. v \in Query
    BY <1>5, Flags, Zenon DEF Query, States
  <2>2. Kin(v, u) /\ v.dns = u.dns /\ v.qst = "wait" /\ v.conn = u.conn
    BY <1>5, <2>1, Zenon DEF Query, Kin, SameRun, SameText
  <2> HIDE DEF v
  <2>3. Kin(v, q)
    BY <1>6, <2>2, Zenon DEF Kin, SameRun, SameText
  <2>4. Inv(v, starts)
    <3>1. v.qst # "free" /\ v.qst \in {"wait", "send"}
      BY <2>2, Zenon
    <3>2. ~q.leftover => v.dns = 0
      BY <1>6, <1>7, <2>2, Zenon
    <3>3. v.conn # "none" => opt.proto # "udp"
      BY <1>8, <2>2, Zenon
    <3> QED  BY <1>3, <2>3, <3>1, <3>2, <3>3, KinWaits, Zenon
  <2> QED  BY <1>3, <1>10, <2>4, Zenon DEF v
<1>11. ASSUME NEW sent \in IF opt.addrs > 1 THEN BOOLEAN ELSE {FALSE},
              q' = PrintReply([u EXCEPT !.timer = sent, !.qst = "send"])
       PROVE  Inv(q', starts)
  <2> DEFINE v == [u EXCEPT !.timer = sent, !.qst = "send"]
  <2>1. sent \in Flag /\ (sent => ~opt.resolv)
    BY <1>1, TheOptions, Zenon DEF Flag
  <2>2. v \in Query
    BY <1>5, <2>1, Zenon DEF Query, States
  <2>3. /\ Kin(v, u) /\ v.dns = u.dns /\ v.qst = "send" /\ v.conn = u.conn
        /\ v.timer = sent
    BY <1>5, <2>2, Zenon DEF Query, Kin, SameRun, SameText
  <2> HIDE DEF v
  <2>4. Kin(v, q)
    BY <1>6, <2>3, Zenon DEF Kin, SameRun, SameText
  <2>5. Active(v, starts)
    <3>1. v.qst \notin Gap
      BY <2>3, Zenon DEF Gap
    <3>2. ~q.leftover => v.dns = 0
      BY <1>6, <1>7, <2>3, Zenon
    <3>3. v.conn # "none" => opt.proto # "udp"
      BY <1>8, <2>3, Zenon
    <3> QED  BY <1>3, <2>1, <2>3, <2>4, <3>1, <3>2, <3>3, KinActive, Zenon
  <2> QED  BY <1>1, <1>11, <2>5, PrintReplyInv, Zenon DEF v
<1> QED  BY <1>3, <1>4, <1>9, <1>10, <1>11, Zenon DEF SendQuery

(* A timer, a socket or a connection belongs to a query that has been      *)
(* sent: its name resolution is over.                                      *)
LEMMA SentQuery ==
  ASSUME NEW n, NEW u, Underway(u, n), u.timer \/ u.sock \/ u.conn # "none",
         ~u.leftover
  PROVE  u.qst \in {"wait", "send"} /\ u.dns = 0 /\ u.qst \notin Gap
<1>1. u.qst \in {"dns", "wait", "send"} /\ Phase(u)
  BY Zenon DEF Underway
<1>2. u.qst \in {"wait", "send"}
  BY <1>1, Zenon DEF Phase
<1> QED  BY <1>1, <1>2, Zenon DEF Phase, Gap

(* The query whose timer has been stopped, or has fired.                   *)
LEMMA Stopped ==
  ASSUME IInv, q.there, q.timer \/ q.sock, NEW v, v = [q EXCEPT !.timer = FALSE]
  PROVE  /\ starts # 0 /\ ~v.timer
         /\ Active(v, starts)
         /\ opt.resolv => v.i < v.max
         /\ ~opt.resolv => v.text = <<>>
<1>1. q \in Query /\ Frame(q)
  BY Zenon DEF IInv, Inv, Frame
<1>2. starts # 0 /\ Underway(q, starts)
  BY Called, Zenon
<1>3. v \in Query
  BY <1>1, Flags, Zenon DEF Query
<1>4. /\ Kin(v, q) /\ v.dns = q.dns /\ v.qst = q.qst /\ v.conn = q.conn
      /\ ~v.timer
  BY <1>1, <1>3, ZenonT(40) DEF Query, Kin, SameRun, SameText
<1>5. ~q.leftover => v.qst \notin Gap /\ v.dns = 0
  BY <1>2, <1>4, SentQuery, Zenon
<1>6. v.conn # "none" => opt.proto # "udp"
  BY <1>1, <1>4, Zenon DEF Frame
<1> QED  BY <1>2, <1>4, <1>5, <1>6, KinActive, Zenon

LEMMA ProcessReplyInv ==
  ASSUME IInv, ProcessReply
  PROVE  Inv(q', starts) /\ starts # 0
<1> DEFINE v == [q EXCEPT !.timer = FALSE]
<1>1. /\ opt \in Options /\ starts \in Nat /\ starts <= MaxStarts + 1
      /\ q.there /\ q.sock /\ q' = PrintReply(v)
  BY Zenon DEF IInv, ProcessReply
<1>2. Active(v, starts) /\ starts # 0
  BY <1>1, Stopped, Zenon
<1> HIDE DEF v
<1> QED  BY <1>1, <1>2, PrintReplyInv, Zenon

LEMMA NoreplyCallbackInv ==
  ASSUME IInv, NoreplyCallback
  PROVE  Inv(q', starts) /\ starts # 0
<1> DEFINE v == [q EXCEPT !.timer = FALSE]
<1>1. /\ opt \in Options /\ starts \in Nat /\ starts <= MaxStarts + 1
      /\ q.there /\ q.timer /\ q' = Failed(v)
  BY Zenon DEF IInv, NoreplyCallback
<1>2. /\ Active(v, starts) /\ starts # 0 /\ ~v.timer
      /\ opt.resolv => v.i < v.max
      /\ ~opt.resolv => v.text = <<>>
  BY <1>1, Stopped, Zenon
<1> HIDE DEF v
<1> QED  BY <1>1, <1>2, FailedInv, Zenon

LEMMA TcpDnsCbInv ==
  ASSUME IInv, TcpDnsCb
  PROVE  Inv(q', starts) /\ starts # 0
<1> DEFINE d == q.dns - 1
           z == [q EXCEPT !.dns = d]
           u == [q EXCEPT !.dns = d, !.dnsip = FALSE]
           v == [u EXCEPT !.qst = "send", !.timer = TRUE]
           x == [u EXCEPT !.qst = "send", !.timer = TRUE, !.conn = "connecting"]
<1>1. /\ opt \in Options /\ starts \in Nat /\ starts <= MaxStarts + 1
      /\ q \in Query /\ q.dns \in Nat /\ opt.proto # "udp" /\ Frame(q)
      /\ q.dns > 0 /\ q.there
  BY Zenon DEF IInv, Inv, Frame, Query, TcpDnsCb
<1>2. q.dns # 0 /\ d \in Nat /\ (q.dns = 1 => d = 0)
  BY <1>1
<1>3. starts # 0 /\ Underway(q, starts)
  BY <1>1, <1>2, Called, Zenon
<1>4. /\ ~q.dnsip => q' = z
      /\ q.dnsip => \/ q' = Failed(u) \/ q' = Failed(v) \/ q' = x
                    \/ q' = Died(u)
  BY Zenon DEF TcpDnsCb
<1>5. ASSUME ~q.leftover PROVE q.qst = "dns" /\ d = 0 /\ q.dnsip
  BY <1>1, <1>2, <1>3, <1>5, Zenon DEF Underway, Phase
<1> HIDE DEF d
<1>6. Kin(z, q) /\ z.qst = q.qst
  <2>1. z \in Query
    BY <1>1, <1>2, Zenon DEF Query
  <2> QED  BY <1>1, <2>1, Zenon DEF Query, Kin, SameRun, SameText
<1>7. u \in Query
  BY <1>1, <1>2, Flags, Zenon DEF Query
<1>8. Kin(u, q) /\ u.qst = q.qst /\ u.dns = d
  BY <1>1, <1>7, Zenon DEF Query, Kin, SameRun, SameText
<1> HIDE DEF z, u
<1>9. Kin(v, q) /\ v.qst = "send" /\ v.dns = d
  <2>1. v \in Query
    BY <1>7, Flags, Zenon DEF Query, States
  <2>2. Kin(v, u) /\ v.qst = "send" /\ v.dns = u.dns
    BY <1>7, <2>1, Zenon DEF Query, Kin, SameRun, SameText
  <2> HIDE DEF v
  <2> QED  BY <1>8, <2>2, Zenon DEF Kin, SameRun, SameText
<1>10. Kin(x, q) /\ x.qst = "send" /\ x.dns = d
  <2>1. x \in Query
    BY <1>7, Flags, Zenon DEF Query, States, Conns
  <2>2. Kin(x, u) /\ x.qst = "send" /\ x.dns = u.dns
    BY <1>7, <2>1, Zenon DEF Query, Kin, SameRun, SameText
  <2> HIDE DEF x
  <2> QED  BY <1>8, <2>2, Zenon DEF Kin, SameRun, SameText
<1> HIDE DEF v, x
<1>11. CASE q' = z /\ ~q.dnsip
  <2>1. q.leftover /\ z.leftover
    BY <1>5, <1>6, <1>11, Zenon DEF Kin
  <2>2. Frame(z) /\ Complete(z)
    BY <1>1, <1>3, <1>6, KinFrame, Zenon DEF Underway
  <2>3. ~opt.resolv
    BY <1>1, <2>1, Zenon DEF Frame
  <2>4. Texts(z)
    BY <1>3, <1>6, <2>3, Zenon DEF Texts, Underway, Kin, SameText
  <2>5. starts # 0 => Told(z)
    BY <1>3, <1>6, Zenon DEF Told, IInv, Inv, Kin, SameRun
  <2> QED  BY <1>3, <1>11, <2>1, <2>2, <2>4, <2>5, Zenon DEF Inv
<1>12. CASE q' = Failed(u)
  <2>1. ~q.leftover => u.qst \notin Gap /\ u.dns = 0
    BY <1>5, <1>8, Zenon DEF Gap
  <2>2. /\ Active(u, starts)
        /\ opt.resolv => u.i < u.max
        /\ ~opt.resolv => u.text = <<>>
    BY <1>1, <1>3, <1>8, <2>1, KinActive, Zenon
  <2> QED  BY <1>1, <1>3, <1>12, <2>2, FailedInv, Zenon
<1>13. CASE q' = Failed(v)
  <2>1. ~q.leftover => v.qst \notin Gap /\ v.dns = 0
    BY <1>5, <1>9, Zenon DEF Gap
  <2>2. /\ Active(v, starts)
        /\ opt.resolv => v.i < v.max
        /\ ~opt.resolv => v.text = <<>>
    BY <1>1, <1>3, <1>9, <2>1, KinActive, Zenon
  <2> QED  BY <1>1, <1>3, <1>13, <2>2, FailedInv, Zenon
<1>14. CASE q' = x
  <2>1. x.qst # "free" /\ (~q.leftover => x.qst \in {"wait", "send"} /\ x.dns = 0)
    BY <1>5, <1>10, Zenon
  <2>2. Inv(x, starts)
    BY <1>1, <1>3, <1>10, <2>1, KinWaits, Zenon
  <2> QED  BY <1>3, <1>14, <2>2, Zenon
<1>15. CASE q' = Died(u)
  <2> DEFINE y == Died(u)
  <2>1. y = [u EXCEPT !.qst = "died", !.there = FALSE, !.timer = FALSE,
                      !.next = FALSE, !.doneT = FALSE]
    BY Zenon DEF Died
  <2> HIDE DEF y
  <2>2. y \in Query
    BY ONLY <1>7, <2>1, Flags, Zenon DEF Query, States
  <2>3. /\ SameText(y, u) /\ y.qst = "died" /\ ~y.there /\ ~y.timer /\ ~y.next
        /\ ~y.doneT /\ y.dns = u.dns /\ y.conn = u.conn /\ y.runs = u.runs
        /\ y.max = u.max /\ y.dones = u.dones /\ y.early = u.early
        /\ y.leftover = u.leftover
    BY ONLY <1>7, <2>1, <2>2, Zenon DEF Query, SameText
  <2>4. SameText(y, q) /\ y.runs = q.runs /\ y.max = q.max /\ y.dones = q.dones
        /\ y.early = q.early /\ y.leftover = q.leftover
    BY <1>8, <2>3, Zenon DEF Kin, SameRun, SameText
  <2>5. Frame(y)
    BY <1>1, <1>3, <2>2, <2>3, <2>4, Zenon DEF Frame
  <2>6. Texts(y) /\ Complete(y)
    BY <1>3, <2>3, <2>4, Zenon DEF Texts, Complete, Underway, SameText
  <2>7. ~y.leftover => Phase(y) /\ Counts(y, starts)
    BY <1>3, <2>3, <2>4, Zenon DEF Phase, Counts, Gap, Underway, SameText
  <2>8. Told(y)
    BY <2>3, Zenon DEF Told
  <2> QED  BY <1>3, <1>15, <2>5, <2>6, <2>7, <2>8, Zenon DEF Inv, y
<1> QED  BY <1>4, <1>11, <1>12, <1>13, <1>14, <1>15, Zenon

(* A query whose connection calls back.                                    *)
LEMMA Connection ==
  ASSUME IInv, q.there, q.conn # "none"
  PROVE  /\ starts # 0 /\ opt.proto # "udp"
         /\ Underway(q, starts) /\ Active(q, starts)
         /\ opt.resolv => q.i < q.max
         /\ ~opt.resolv => q.text = <<>>
<1>1. q \in Query /\ Frame(q) /\ opt.proto # "udp"
  BY Zenon DEF IInv, Inv, Frame
<1>2. starts # 0 /\ Underway(q, starts)
  BY Called, Zenon
<1>3. Kin(q, q)
  BY <1>1, Zenon DEF Kin, SameRun, SameText
<1>4. ~q.leftover => q.qst \notin Gap /\ q.dns = 0
  BY <1>2, SentQuery, Zenon
<1> QED  BY <1>1, <1>2, <1>3, <1>4, KinActive, Zenon

LEMMA EventCbInv ==
  ASSUME IInv, EventCb
  PROVE  Inv(q', starts) /\ starts # 0
<1> DEFINE v == [q EXCEPT !.conn = "connected"]
<1>1. /\ opt \in Options /\ starts \in Nat /\ starts <= MaxStarts + 1
      /\ q \in Query /\ q.conn # "none" /\ q.there
      /\ (q' = v \/ q' = Failed(q)) /\ Frame(q) /\ Texts(q) /\ Complete(q)
  BY Zenon DEF IInv, Inv, Frame, EventCb
<1>2. /\ starts # 0 /\ opt.proto # "udp"
      /\ Underway(q, starts) /\ Active(q, starts)
      /\ opt.resolv => q.i < q.max
      /\ ~opt.resolv => q.text = <<>>
  BY <1>1, Connection, Zenon
<1>3. CASE q' = Failed(q)
  BY <1>1, <1>2, <1>3, FailedInv, Zenon
<1>4. CASE q' = v
  <2>1. v \in Query
    BY <1>1, Zenon DEF Query, Conns
  <2>2. /\ Kin(v, q) /\ v.qst = q.qst /\ v.dns = q.dns /\ v.leftover = q.leftover
    BY <1>1, <2>1, Zenon DEF Query, Kin, SameRun, SameText
  <2> HIDE DEF v
  <2>3. Frame(v) /\ Complete(v)
    BY <1>1, <1>2, <2>2, KinFrame, Zenon
  <2>4. Texts(v)
    BY <1>1, <2>2, Zenon DEF Texts, Kin, SameText, SameRun
  <2>5. CASE q.leftover
    <3>1. starts # 0 => Told(v)
      BY <2>2, Zenon DEF Told, IInv, Inv, Kin, SameRun
    <3> QED  BY <1>2, <1>4, <2>2, <2>3, <2>4, <2>5, <3>1, Zenon DEF Inv
  <2>6. CASE ~q.leftover
    <3>1. v.qst # "free" /\ v.qst \in {"wait", "send"} /\ v.dns = 0
      BY <1>1, <1>2, <2>2, <2>6, SentQuery, Zenon
    <3>2. Inv(v, starts)
      BY <1>2, <2>2, <3>1, KinWaits, Zenon
    <3> QED  BY <1>2, <1>4, <3>2, Zenon
  <2> QED  BY <2>5, <2>6, Zenon
<1> QED  BY <1>1, <1>3, <1>4, Zenon

LEMMA TcpReadCbInv ==
  ASSUME IInv, TcpReadCb
  PROVE  Inv(q', starts) /\ starts # 0
<1>1. /\ opt \in Options /\ starts \in Nat /\ starts <= MaxStarts + 1
      /\ q.there /\ q.conn # "none" /\ q' = PrintReply(q)
  BY Zenon DEF IInv, TcpReadCb
<1> QED  BY <1>1, Connection, PrintReplyInv, Zenon

-----------------------------------------------------------------------------
(* The end of the measurement, and the theorems                            *)

LEMMA DoneQryCbInv ==
  ASSUME IInv, DoneQryCb
  PROVE  Inv(q', starts) /\ starts # 0
<1> DEFINE k == q.dones + 1
           v == [q EXCEPT !.doneT = FALSE, !.qst = "free", !.dones = k]
<1>1. /\ q \in Query /\ q.there /\ q.doneT /\ q.dones = 0 /\ starts # 0
      /\ Frame(q) /\ Texts(q) /\ Complete(q)
      /\ ~q.leftover => Phase(q) /\ Counts(q, starts)
  BY Zenon DEF IInv, Inv, Frame, DoneQryCb, Still
<1>2. k = 1 /\ k \in Nat /\ k <= 1
  BY <1>1
<1>3. q' = TdigDelete(v)
  BY Zenon DEF DoneQryCb
<1> HIDE DEF k
<1>4. v \in Query
  BY <1>1, <1>2, Flags, ZenonT(40) DEF Query, States
<1>5. /\ SameText(v, q) /\ v.early = q.early /\ v.runs = q.runs
      /\ v.max = q.max /\ v.dones = k /\ v.next = q.next /\ v.conn = q.conn
      /\ v.dns = q.dns /\ v.leftover = q.leftover /\ ~v.doneT
      /\ v.qst = "free"
  BY <1>1, <1>4, Zenon DEF Query, SameText
<1> HIDE DEF v
<1> DEFINE w == [v EXCEPT !.there = FALSE, !.timer = FALSE, !.sock = FALSE]
<1>6. w \in Query
  BY <1>4, Flags, Zenon DEF Query
<1>7. /\ SameText(w, v) /\ w.early = v.early /\ w.runs = v.runs
      /\ w.max = v.max /\ w.dones = v.dones /\ w.next = v.next
      /\ w.conn = v.conn /\ w.dns = v.dns /\ w.leftover = v.leftover
      /\ w.doneT = v.doneT /\ w.qst = v.qst
      /\ ~w.there /\ ~w.timer /\ ~w.sock
  BY <1>4, <1>6, Zenon DEF Query, SameText
<1>8. q' = w
  BY <1>3, Zenon DEF TdigDelete
<1> HIDE DEF w
<1>9. /\ SameText(w, q) /\ w.early = q.early /\ w.runs = q.runs
      /\ w.max = q.max /\ w.dones <= 1 /\ w.next = q.next
      /\ w.conn = q.conn /\ w.dns = q.dns /\ w.leftover = q.leftover
      /\ ~w.doneT /\ w.qst = "free" /\ ~w.there /\ ~w.timer /\ ~w.sock
  BY <1>2, <1>5, <1>7, Zenon DEF SameText
<1>10. ~q.leftover => q.qst = "free"
  BY <1>1, Zenon DEF Phase
<1>11. Frame(w)
  BY <1>1, <1>6, <1>9, Zenon DEF Frame
<1>12. Texts(w) /\ Complete(w)
  BY <1>1, <1>9, <1>10, Zenon DEF Texts, Complete, SameText, Frame
<1>13. ASSUME ~w.leftover PROVE Phase(w) /\ Counts(w, starts)
  BY <1>1, <1>9, <1>10, <1>13, Zenon DEF Phase, Counts, Quiet, SameText, Gap
<1>14. Told(w)
  BY <1>9, Zenon DEF Told
<1> QED  BY <1>1, <1>8, <1>11, <1>12, <1>13, <1>14, Zenon DEF Inv

LEMMA DeleteInv ==
  ASSUME IInv, Delete
  PROVE  Inv(q', starts) /\ (starts = 0 => Still(q'))
<1> DEFINE w == [q EXCEPT !.there = FALSE, !.timer = FALSE, !.sock = FALSE]
<1>1. /\ q \in Query /\ q.qst = "free"
      /\ Frame(q) /\ Texts(q) /\ Complete(q)
      /\ ~q.leftover => Phase(q) /\ Counts(q, starts)
      /\ starts = 0 => Still(q)
      /\ opt.host # "eooqd"
  BY Zenon DEF IInv, Inv, Frame, Delete
<1>2. w \in Query
  BY <1>1, Flags, Zenon DEF Query
<1>3. /\ SameText(w, q) /\ w.early = q.early /\ w.runs = q.runs
      /\ w.max = q.max /\ w.dones = q.dones /\ w.next = q.next
      /\ w.conn = q.conn /\ w.dns = q.dns /\ w.leftover = q.leftover
      /\ w.doneT = q.doneT /\ w.qst = "free"
      /\ ~w.there /\ ~w.timer /\ ~w.sock
  BY <1>1, <1>2, Zenon DEF Query, SameText
<1>4. q' = w
  BY Zenon DEF Delete, TdigDelete
<1> HIDE DEF w
<1>5. Frame(w)
  BY <1>1, <1>2, <1>3, Zenon DEF Frame
<1>6. Texts(w) /\ Complete(w)
  BY <1>1, <1>3, Zenon DEF Texts, Complete, SameText
<1>7. ASSUME ~w.leftover PROVE Phase(w) /\ Counts(w, starts)
  BY <1>1, <1>3, <1>7, Zenon DEF Phase, Counts, Quiet, SameText, Gap
<1>8. starts = 0 => Still(w)
  BY <1>1, <1>3, Zenon DEF Still, Quiet
<1>9. Told(w)
  BY <1>3, Zenon DEF Told
<1> QED  BY <1>4, <1>5, <1>6, <1>7, <1>8, <1>9, Zenon DEF Inv

(* The options never change, so that the invariant of the state that a     *)
(* step leaves is the invariant after it.                                  *)
LEMMA Primed ==
  ASSUME opt' = opt, Inv(q', starts'), opt \in Options, starts' \in Nat,
         starts' <= MaxStarts + 1, starts' = 0 => Still(q')
  PROVE  IInv'
<1>1. Frame(q)' /\ Texts(q)' /\ Complete(q)'
  BY Zenon DEF Inv, Frame, Texts, Complete
<1>2. (~q.leftover => Phase(q) /\ Counts(q, starts))'
  BY Zenon DEF Inv, Phase, Counts, Quiet
<1>3. (starts = 0 => Still(q))' /\ (starts # 0 => Told(q))'
  BY Zenon DEF Still, Quiet, Inv, Told
<1> QED  BY <1>1, <1>2, <1>3, Zenon DEF IInv, Inv

LEMMA InitIInv == Init => IInv
<1> SUFFICES ASSUME Init PROVE IInv
  BY Zenon
<1>1. opt \in Options /\ q = Idle /\ starts = 0 /\ MaxStarts \in Nat
  BY TdigAssumption, Zenon DEF Init
<1>2. starts \in Nat /\ starts <= MaxStarts + 1 /\ 0 \in Nat /\ 0 <= 0
  BY <1>1
<1>3. Idle \in Query
  BY <1>2, Flags, NoText, Zenon DEF Idle, Query, States, Conns
<1>4. /\ Idle.there /\ Idle.dones <= 1 /\ ~(Idle.written > 0)
      /\ Idle.max <= Idle.i
  BY DEF Idle
<1>5. Frame(Idle) /\ Texts(Idle) /\ Complete(Idle)
  BY <1>3, <1>4, Zenon DEF Frame, Texts, Complete, Idle
<1>6. Phase(Idle) /\ Counts(Idle, 0) /\ Still(Idle)
  BY <1>2, Zenon DEF Phase, Counts, Quiet, Still, Gap, Idle
<1> QED  BY <1>1, <1>2, <1>5, <1>6, Zenon DEF IInv, Inv

LEMMA NextIInv == IInv /\ [Next]_vars => IInv'
<1> SUFFICES ASSUME IInv, [Next]_vars PROVE IInv'
  BY Zenon
<1>1. /\ opt \in Options /\ starts \in Nat /\ starts <= MaxStarts + 1
      /\ Inv(q, starts) /\ (starts = 0 => Still(q))
  BY Zenon DEF IInv
<1>2. CASE Start
  <2>1. opt' = opt
    BY <1>2, Zenon DEF Start
  <2> QED  BY <1>1, <1>2, <2>1, StartInv, Primed, Zenon
<1>3. CASE Delete
  <2>1. opt' = opt /\ starts' = starts
    BY <1>3, Zenon DEF Delete
  <2> QED  BY <1>1, <1>3, <2>1, DeleteInv, Primed, Zenon
<1>4. CASE Callback
  <2>1. opt' = opt /\ starts' = starts
    BY <1>4, Zenon DEF Callback, NextQryCb, UdpDnsCb, ProcessReply,
       NoreplyCallback, TcpDnsCb, EventCb, TcpReadCb, DoneQryCb
  <2>2. Inv(q', starts) /\ starts # 0
    BY <1>4, NextQryCbInv, UdpDnsCbInv, ProcessReplyInv, NoreplyCallbackInv,
       TcpDnsCbInv, EventCbInv, TcpReadCbInv, DoneQryCbInv, Zenon DEF Callback
  <2> QED  BY <1>1, <2>1, <2>2, Primed, Zenon
<1>5. CASE UNCHANGED vars
  <2>1. opt' = opt /\ q' = q /\ starts' = starts
    BY <1>5, Zenon DEF vars
  <2> QED  BY <1>1, <2>1, Primed, Zenon
<1> QED  BY <1>2, <1>3, <1>4, <1>5, Zenon DEF Next

LEMMA Invariance == Spec => []IInv
BY InitIInv, NextIInv, PTL DEF Spec

(* EveryResolverOnce: whatever retries there are and whenever tdig_start   *)
(* is called, the text that printReply writes has one object for every     *)
(* name server that was read when the run began, each once and in order;   *)
(* one, if the macro in the name to look up does not expand.               *)
THEOREM ResolversInOrder == Spec => []EveryResolverOnce
<1>1. IInv => EveryResolverOnce
  <2> SUFFICES ASSUME IInv, q.written > 0
               PROVE  /\ Len(q.last) = (IF opt.resolv /\ q.of > 0 /\ ~q.macro
                                        THEN q.of ELSE 1)
                      /\ ~q.macro => \A k \in 1..Len(q.last) : q.last[k] = k
    BY Zenon DEF EveryResolverOnce
  <2>1. CASE q.macro
    BY <2>1, Zenon DEF IInv, Inv, Complete
  <2>2. CASE ~q.macro
    BY <2>2, Zenon DEF IInv, Inv, Complete, Counting
  <2> QED  BY <2>1, <2>2, Zenon
<1> QED  BY <1>1, Invariance, PTL

(* QuietWhenFree: when free_qry_inst has left a query free, no socket,     *)
(* connection or name resolution and no timer but done_qry_timer can call  *)
(* back into what tdig_delete may free, but for the two cases the property *)
(* names; done_qry_timer is armed exactly for eooqd's query that has ended *)
(* and is not deleted yet.                                                 *)
THEOREM FreeIsQuiet == Spec => []QuietWhenFree
<1>1. IInv => QuietWhenFree
  <2> SUFFICES ASSUME IInv, q.qst = "free"
               PROVE  /\ q.doneT <=> opt.host = "eooqd" /\ starts > 0 /\ q.there
                      /\ ~q.early /\ ~q.leftover =>
                           /\ ~q.timer /\ ~q.next /\ q.dns = 0 /\ ~q.sock
                           /\ q.conn = "none"
    BY Zenon DEF QuietWhenFree
  <2>1. starts > 0 <=> starts # 0
    <3>1. starts \in Nat
      BY Zenon DEF IInv
    <3> QED  BY <3>1
  <2>2. q.doneT <=> opt.host = "eooqd" /\ starts # 0 /\ q.there
    BY Zenon DEF IInv, Inv, Frame, Told, Still
  <2>3. ~q.early /\ ~q.leftover =>
          ~q.timer /\ ~q.next /\ q.dns = 0 /\ ~q.sock /\ q.conn = "none"
    BY Zenon DEF IInv, Inv, Phase, Quiet, Gap
  <2> QED  BY <2>1, <2>2, <2>3, Zenon
<1> QED  BY <1>1, Invariance, PTL

(* OneResult: printReply writes one result for a run, no more runs begin   *)
(* than tdig_start was asked for, and done_qry_cb tells eooqd once.        *)
THEOREM RunsReported == Spec => []OneResult
<1>1. IInv => OneResult
  <2> SUFFICES ASSUME IInv PROVE OneResult
    BY Zenon
  <2>1. q.dones <= 1 /\ q.written \in Nat /\ q.runs \in Nat
    BY Zenon DEF IInv, Inv, Frame, Query
  <2>2. q.written + 1 = q.runs => q.written = q.runs - 1
    BY <2>1
  <2>3. ASSUME ~q.leftover
        PROVE  /\ q.runs <= starts
               /\ q.written = IF q.qst = "free" THEN q.runs ELSE q.runs - 1
    BY <2>2, <2>3, Zenon DEF IInv, Inv, Counts
  <2> QED  BY <2>1, <2>3, Zenon DEF OneResult
<1> QED  BY <1>1, Invariance, PTL
=============================================================================
