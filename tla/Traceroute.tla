----------------------------- MODULE Traceroute -----------------------------
(***************************************************************************)
(* One traceroute measurement (eperd/traceroute.c) in the event loop of     *)
(* eperd or eooqd: traceroute_start, the name resolution, send_pkt, the     *)
(* answers (ICMP errors, echo replies, TCP segments; IPv4 and IPv6), the    *)
(* timer, and the report that ends it.                                      *)
(*                                                                          *)
(* send_pkt sends "count" packets with one hop limit, then goes to the next *)
(* hop.  It ends at the hop limit, or at a hop where the target (or an      *)
(* unreachable) was heard and nothing said that the packet was under way.   *)
(* After "gaplimit" silent hops it tries one last hop, 255.                 *)
(*                                                                          *)
(* The network is any: each packet sent may be answered at any later time,  *)
(* any number of times, by anything that can answer a packet, or not at     *)
(* all.  A packet is known by its sequence number in the run, and nothing   *)
(* in it names the run: what answers a packet of an earlier run is read as  *)
(* an answer to this one's.  Of the text of the result only the nesting of  *)
(* its brackets is kept.                                                    *)
(***************************************************************************)
EXTENDS Integers, Sequences

CONSTANTS
  Options,    \* the measurements: records [proto, v6, paris, dup, count]
  FirstHop, MaxHops, GapLimit,
  LastDitch,  \* the hop of the last-ditch packets, 255
  TcpAck,     \* an answer to TCP packet s acknowledges s + TcpAck
  Window,     \* how far ahead of the last packet that may be, 0x2000
  MaxRuns     \* bound on the number of times it is started

ASSUME TracerouteAssumption ==
  /\ FirstHop \in Nat /\ MaxHops \in Nat /\ GapLimit \in Nat /\ MaxRuns \in Nat
  /\ LastDitch \in Nat /\ LastDitch >= MaxHops /\ TcpAck \in Nat \ {0}
  /\ Window \in Nat
  /\ \A o \in Options : o.count \in Nat \ {0}

VARIABLES
  opt,   \* the options of the measurement
  t,     \* its struct trtstate
  runs   \* how often it was started

vars == <<opt, t, runs>>

(***************************************************************************)
(* struct trtstate.  "depth" is how many brackets of the result's text are *)
(* open.  The rest is history.  "verdict" is, for each packet of the run,   *)
(* how often it was entered as answered or as "*"; "taken" is the packet    *)
(* whose answer was taken for one to the last packet (0: none).  "target"   *)
(* and "transit": at this hop the target, or an unreachable, was heard; a   *)
(* router in between answered in time.  "old" is the highest number of a    *)
(* packet of an earlier run; "noaddr": the run ended for want of an address *)
(* of the target; "dead": the process has crashed.                          *)
(***************************************************************************)
Idle ==
  [busy |-> FALSE, dnsip |-> FALSE, timer |-> FALSE, hop |-> 0, sent |-> 0,
   seq |-> 0, done |-> FALSE, notDone |-> FALSE, lastditch |-> FALSE,
   gotresp |-> FALSE, open |-> FALSE, lastResp |-> 0, depth |-> 0,
   verdict |-> <<>>, taken |-> 0, target |-> FALSE, transit |-> FALSE, error |-> FALSE,
   old |-> 0, noaddr |-> FALSE, dead |-> FALSE]

Init == opt \in Options /\ t = Idle /\ runs = 0

\* report: the text is written, the timer and the sockets go, done is called
Report(u, failed) ==
  [u EXCEPT !.busy = FALSE, !.timer = FALSE, !.error = failed]

(***************************************************************************)
(* send_pkt.                                                               *)
(***************************************************************************)

\* Mutant: takes the object of the previous packet for closed
TransmitKeepsOpen(u) ==
  { Report([u EXCEPT !.depth = @ - 2], TRUE),
    [u EXCEPT !.seq = @ + 1, !.sent = @ + 1, !.timer = TRUE,
              !.depth = (IF u.open THEN @ - 1 ELSE @) + 1, !.open = FALSE,
              !.verdict = Append(@, 0), !.taken = 0] }

\* Mutant: leaves the timer as it is
TransmitUnarmed(u) ==
  { Report([u EXCEPT !.depth = (IF u.sent > 0 THEN @ - 1 ELSE @) - 2], TRUE),
    [u EXCEPT !.seq = @ + 1, !.sent = @ + 1,
              !.depth = (IF u.open THEN @ - 1 ELSE @) + 1, !.open = FALSE,
              !.verdict = Append(@, 0), !.taken = 0] }

\* a packet is sent (or is too big to be sent, EMSGSIZE), or an error of
\* socket options, bind or sendto ends the measurement
Transmit(u) ==
  { Report([u EXCEPT !.depth = (IF u.sent > 0 THEN @ - 1 ELSE @) - 2], TRUE),
    [u EXCEPT !.seq = @ + 1, !.sent = @ + 1, !.timer = TRUE,
              !.depth = (IF u.open THEN @ - 1 ELSE @) + 1, !.open = FALSE,
              !.verdict = Append(@, 0), !.taken = 0] }

\* the next hop, or the last-ditch hop after too many silent ones
NextHop(u) ==
  LET far == u.hop + 1 - u.lastResp > GapLimit
  IN  [u EXCEPT !.hop = IF far THEN LastDitch ELSE @ + 1,
                !.lastditch = @ \/ far, !.sent = 0, !.depth = @ + 2, !.open = FALSE,
                !.done = FALSE, !.notDone = FALSE,
                !.target = FALSE, !.transit = FALSE]

\* Mutant: one answer of the target is enough
OverAtTarget(u) ==
  \/ u.hop >= MaxHops
  \/ u.done
  \/ u.hop + 1 - u.lastResp > GapLimit /\ u.lastditch

\* all packets of a hop are sent: is the measurement over?
Over(u) ==
  \/ u.hop >= MaxHops
  \/ u.done /\ ~u.notDone
  \/ u.hop + 1 - u.lastResp > GapLimit /\ u.lastditch

SendPkt(v) ==
  LET u == [v EXCEPT !.gotresp = FALSE]
      closed == [u EXCEPT !.depth = @ - 3]
  IN  IF u.sent < opt.count THEN Transmit(u)
      ELSE IF Over(u) THEN {Report(closed, FALSE)}
      ELSE Transmit(NextHop(closed))

(***************************************************************************)
(* Starting.                                                               *)
(***************************************************************************)

\* traceroute_start: not while busy; the name is always resolved first
Start ==
  /\ ~t.busy /\ ~t.dead /\ runs < MaxRuns
  /\ runs' = runs + 1
  /\ t' = [t EXCEPT !.busy = TRUE, !.dnsip = TRUE, !.noaddr = FALSE]
  /\ UNCHANGED opt

\* traceroute_start2: everything but the socket of a new run
Fresh(u) ==
  [u EXCEPT !.hop = FirstHop, !.sent = 0, !.seq = 0, !.done = FALSE,
            !.notDone = FALSE, !.lastditch = FALSE, !.open = FALSE,
            !.lastResp = IF FirstHop > 1 THEN FirstHop - 1 ELSE 0,
            !.depth = 1, !.verdict = <<>>, !.taken = 0, !.target = FALSE, !.transit = FALSE,
            !.old = IF u.seq > @ THEN u.seq ELSE @]

\* the end of dns_cb, "out of addresses": its text closes what no one opened,
\* one more if "sent" is left from the run before.  After an earlier run it is
\* put behind a text that report has freed, its length not reset: in new
\* memory, whatever that holds (any depth; here one of four), or at an offset
\* from NULL.
NoAddress ==
  LET u == [t EXCEPT !.dnsip = FALSE, !.noaddr = TRUE]
      text(d) == Report([u EXCEPT !.depth = d], TRUE)
  IN  IF runs = 1 THEN {text(-2)}
      ELSE {text(d) : d \in -3..0}
           \cup {[u EXCEPT !.busy = FALSE, !.error = TRUE, !.dead = TRUE]}

\* dns_cb: an error of the resolver, or an address that may not be probed, is
\* reported at once; otherwise create_socket, which may fail, and the first
\* packet
DnsCb ==
  /\ t.busy /\ t.dnsip
  /\ \/ \E failed \in BOOLEAN :
          t' = Report([t EXCEPT !.depth = 0, !.dnsip = failed], TRUE)
     \/ t' \in NoAddress
     \/ LET u == [Fresh(t) EXCEPT !.dnsip = FALSE]
        IN  \/ t' = Report([u EXCEPT !.depth = @ - 1], TRUE)
            \/ t' \in SendPkt([u EXCEPT !.depth = @ + 1])
  /\ UNCHANGED <<opt, runs>>

(***************************************************************************)
(* The answers.  An answer carries a sequence number n; how the handler    *)
(* reads it: ahead of the last packet sent (ignored), late, a duplicate,   *)
(* or the answer it waits for.                                             *)
(***************************************************************************)
Late(u, n) == n < u.seq
InTime(u, n) == ~Late(u, n) /\ ~u.gotresp

\* " }, { " between the objects of a packet's answers
Entry(u) == [u EXCEPT !.open = TRUE]

\* Mutant: takes an answer that comes after a first one for an answer of its own
AnsweredAgain(u, n, s) ==
  LET w == [Entry(u) EXCEPT !.verdict[u.seq] = @ + 1, !.taken = s]
  IN  IF Late(u, n) THEN {Entry(u)}
      ELSE IF opt.dup THEN {[w EXCEPT !.gotresp = TRUE]}
      ELSE SendPkt(w)

\* The end of every handler: an answer in time starts the short wait for
\* duplicates, or, without one, the next packet at once.
Answered(u, n, s) ==
  LET w == [Entry(u) EXCEPT !.verdict[u.seq] = @ + 1, !.taken = s]
  IN  IF ~InTime(u, n) THEN {Entry(u)}
      ELSE IF opt.dup THEN {[w EXCEPT !.gotresp = TRUE]}
      ELSE SendPkt(w)

\* What an ICMP error says of packet n.  "te": time exceeded; "du":
\* unreachable; "big": too big for the path (IPv4: fragmentation needed, which
\* is an unreachable as well).
Heard(u, n) == [u EXCEPT !.lastResp = IF InTime(u, n) THEN u.hop ELSE @]

\* IPv4, for a TCP or a UDP packet
Error4(u, n, kind) ==
  [Heard(u, n) EXCEPT
     !.done = @ \/ (kind \in {"du", "big"} /\ ~Late(u, n)),
     !.notDone = @ \/ (kind \in {"te", "big"} /\ ~Late(u, n))]

\* IPv4, for an echo request
IcmpError4(u, n, kind) ==
  [Heard(u, n) EXCEPT
     !.done = @ \/ (kind \in {"du", "big"} /\ ~Late(u, n)),
     !.notDone = @ \/ (kind = "te" /\ InTime(u, n)) \/ (kind = "big" /\ ~Late(u, n))]

\* IPv6
Error6(u, n, kind) ==
  [Heard(u, n) EXCEPT
     !.done = @ \/ (kind = "du" /\ ~Late(u, n)),
     !.notDone = @ \/ (kind = "te" /\ InTime(u, n)) \/ (kind = "big" /\ ~Late(u, n))]

\* an echo reply over IPv4, or a TCP segment: late or not, the target is there
Reply4(u) == [u EXCEPT !.done = TRUE]

\* an echo reply over IPv6
Reply6(u, n) == [Heard(u, n) EXCEPT !.done = @ \/ InTime(u, n)]

\* The sequence number read from an ICMP error about packet s.  With Paris mode
\* over UDP and IPv4 it is in the checksum, where a number ahead of the last one
\* is read as the last one, because a NAT may have spoilt it.
ErrorSeq(s) ==
  IF opt.paris = "nat" THEN 0..t.seq
  ELSE IF opt.paris = "yes" /\ s > t.seq THEN {t.seq} ELSE {s}

\* The number a reply to packet s carries: a TCP segment acknowledges more
\* than the number sent, and ready_tcp4 and ready_tcp6 take anything up to
\* Window ahead of the last number for an answer to the last packet.
ReplySeq(s) == IF opt.proto = "tcp" THEN s + TcpAck ELSE s

\* An answer to packet s, of this or of an earlier run, is read.  (One whose
\* number is ahead of the last packet's changes nothing.)
IcmpError(s, kind) ==
  \E n \in ErrorSeq(s) :
    LET u == [t EXCEPT !.target = @ \/ (kind = "du" /\ ~Late(t, n)),
                       !.transit = @ \/ (kind \in {"te", "big"} /\ InTime(t, n))]
    IN  /\ t.busy /\ ~t.dnsip /\ n <= t.seq
        /\ t' \in Answered(IF opt.v6 THEN Error6(u, n, kind)
                           ELSE IF opt.proto = "icmp" THEN IcmpError4(u, n, kind)
                           ELSE Error4(u, n, kind), n, s)
        /\ UNCHANGED <<opt, runs>>

Reply(s) ==
  LET n == ReplySeq(s)
      u == [t EXCEPT !.target = TRUE]
  IN  /\ t.busy /\ ~t.dnsip /\ opt.proto # "udp"
      /\ n <= IF opt.proto = "tcp" THEN t.seq + Window ELSE t.seq
      /\ t' \in Answered(IF opt.v6 /\ opt.proto = "icmp" THEN Reply6(u, n)
                         ELSE Reply4(u), n, s)
      /\ UNCHANGED <<opt, runs>>

\* noreply_callback: no answer, or the wait for duplicates is over
Timeout ==
  /\ t.timer
  /\ t' \in SendPkt(IF t.gotresp THEN [t EXCEPT !.timer = FALSE]
                    ELSE [Entry(t) EXCEPT !.timer = FALSE,
                                          !.verdict[t.seq] = @ + 1])
  /\ UNCHANGED <<opt, runs>>

\* the packets that may have been sent
Packets == 1..(IF t.seq > t.old THEN t.seq ELSE t.old)

Next ==
  \/ Start \/ DnsCb \/ Timeout
  \/ \E s \in Packets : Reply(s) \/ \E kind \in {"te", "du", "big"} : IcmpError(s, kind)

Spec == Init /\ [][Next]_vars

\* A pending timer fires and the resolver answers.
FairSpec == Spec /\ WF_vars(Timeout) /\ WF_vars(DnsCb)

(***************************************************************************)
(* Properties.                                                             *)
(***************************************************************************)

\* Every packet gets one verdict: when send_pkt goes on to the next packet, or
\* the run ends without an error, the packet before has been entered in the
\* result once, as answered or as "*", whatever duplicates, late answers,
\* answers to earlier runs and timeouts there were; and it is entered as
\* answered only by an answer to a packet of its number, this run's or an
\* earlier one's.  A TCP segment's number may be read as a later packet's, and
\* in Paris mode over UDP and IPv4 a number ahead, or one that a NAT spoilt, is
\* read as the last one: there an answer to any packet may be taken.
OneVerdict ==
  /\ \A i \in 1..Len(t.verdict) :
       /\ t.verdict[i] <= 1
       /\ (i < t.seq \/ (~t.busy /\ ~t.error)) => t.verdict[i] = 1
  /\ t.taken \in {0, t.seq} \/ opt.paris # "no" \/ opt.proto = "tcp"

\* The brackets of a reported result are closed on every path by which a run
\* ends but one: at the end of a hop, for an error before the first packet, and
\* for an error between two packets of a hop (the texts add_str gets in
\* send_pkt, set_tos, create_socket and dns_cb).  The exception is the end of
\* dns_cb for want of an address, whose text closes two or three brackets too
\* many.
Balanced == ~t.busy /\ ~t.noaddr => t.depth = 0

\* A run that ends without error short of the hop limit ends at a hop where
\* the target or an unreachable was heard and no router in between answered in
\* time: the flags done and not_done of send_pkt, set by ten kinds of answers,
\* late ones and those to earlier runs among them.
EndsAtTarget ==
  (runs > 0 /\ ~t.busy /\ ~t.error) => t.hop >= MaxHops \/ (t.target /\ ~t.transit)

\* Every run that is started ends: there is always a timer or a resolver to wait
\* for.  It ends in a report, or, for want of an address, with the process.
Ends == t.busy ~> ~t.busy
=============================================================================
