-------------------------------- MODULE Tdig --------------------------------
(***************************************************************************)
(* One DNS measurement (eperd/evtdig.c, over eperd/tcputil.c when it uses   *)
(* TCP): tdig_start, the resolution of the server's name, the query and its *)
(* retries, printReply and free_qry_inst, which go on to the next resolver  *)
(* of resolv.conf or end the run, and tdig_delete.                          *)
(*                                                                          *)
(* The state of a query is "qst", and four timers and an outstanding name   *)
(* resolution can call back into it.  eperd calls tdig_start when the       *)
(* measurement's time has come, whether or not the previous run is over,    *)
(* and tdig_delete when the line has left the crontab; eooqd starts it once *)
(* and deletes it when it calls done.  How long a timer runs is not         *)
(* modelled: --timeout is any number of milliseconds.                       *)
(*                                                                          *)
(* The server is any: it answers or not, at any time, rightly or wrongly.   *)
(***************************************************************************)
EXTENDS Integers, Sequences

CONSTANTS
  Options,   \* the measurements: records [proto, resolv, retry, addrs, host]
  MAXNS,     \* name servers read from resolv.conf at most
  MaxStarts  \* bound on the number of times it is started

ASSUME TdigAssumption ==
  /\ MAXNS \in Nat /\ MaxStarts \in Nat
  /\ \A o \in Options :
       /\ o.proto \in {"udp", "tcp", "tls"} /\ o.resolv \in BOOLEAN /\ o.retry \in Nat
       /\ o.addrs \in Nat \ {0} /\ o.host \in {"eperd", "eooqd"}
       /\ o.resolv => o.addrs = 1  \* resolv.conf holds addresses, not names

VARIABLES
  opt,     \* the options of the measurement
  q,       \* its struct query_state
  starts   \* how often eperd or eooqd has started it

vars == <<opt, q, starts>>

(***************************************************************************)
(* struct query_state.  "timer" is noreply_timer, or, for TCP, the timer of *)
(* tu_env; "dns" counts outstanding name resolutions; "text" is the result  *)
(* under construction, a sequence of the subids of its objects; "there" is  *)
(* false once tdig_delete has freed the state or, in "died", the process    *)
(* has ended.                                                               *)
(*                                                                          *)
(* The rest is history: the last text written, the resolv_max it was        *)
(* written with and whether it says that the macro in the name to look up   *)
(* does not expand, how many runs there were and how many results were written *)
(* (both counted to one too many), the done callbacks; "early": it was      *)
(* started in the gap between two queries of a run; "leftover": a result    *)
(* was printed while noreply_timer was armed.                               *)
(***************************************************************************)
Idle ==
  [qst |-> "free", retry |-> 0, i |-> 0, max |-> 0, timer |-> FALSE,
   next |-> FALSE, doneT |-> FALSE, dns |-> 0, dnsip |-> FALSE, sock |-> FALSE,
   conn |-> "none", text |-> <<>>, there |-> TRUE,
   last |-> <<>>, of |-> 0, macro |-> FALSE, runs |-> 0, written |-> 0, dones |-> 0,
   early |-> FALSE, leftover |-> FALSE]

Init == opt \in Options /\ q = Idle /\ starts = 0

(***************************************************************************)
(* The end of a query.                                                     *)
(***************************************************************************)

\* Mutant: forgets the connection's timer
FreeKeepsTimer(u) ==
  LET v == [u EXCEPT !.sock = FALSE, !.conn = "none"]
  IN  IF opt.resolv /\ u.i < u.max THEN [v EXCEPT !.qst = "next", !.next = TRUE]
      ELSE IF u.qst = "again" THEN v
      ELSE [v EXCEPT !.qst = "free", !.doneT = @ \/ opt.host = "eooqd"]

\* Mutant: lets a query that is to be sent again go free
FreeForgetsRetry(u) ==
  LET v == [u EXCEPT !.sock = FALSE, !.conn = "none",
                     !.timer = IF opt.proto # "udp" THEN FALSE ELSE @]
  IN  IF opt.resolv /\ u.i < u.max THEN [v EXCEPT !.qst = "next", !.next = TRUE]
      ELSE [v EXCEPT !.qst = "free", !.doneT = @ \/ opt.host = "eooqd"]

\* free_qry_inst, with tu_cleanup
FreeQryInst(u) ==
  LET v == [u EXCEPT !.sock = FALSE, !.conn = "none",
                     !.timer = IF opt.proto # "udp" THEN FALSE ELSE @]
  IN  IF opt.resolv /\ u.i < u.max THEN [v EXCEPT !.qst = "next", !.next = TRUE]
      ELSE IF u.qst = "again" THEN v
      ELSE [v EXCEPT !.qst = "free", !.doneT = @ \/ opt.host = "eooqd"]

\* printReply: one object; the whole is written after the last resolver
PrintReply(u) ==
  LET i == IF opt.resolv THEN u.i + 1 ELSE u.i
      text == Append(u.text, u.i + 1)
      out == ~opt.resolv \/ i >= u.max
  IN  FreeQryInst(
        [u EXCEPT !.i = i, !.text = IF out THEN <<>> ELSE text,
                  !.last = IF out THEN text ELSE @, !.of = IF out THEN u.max ELSE @,
                  !.macro = IF out THEN FALSE ELSE @,
                  !.written = IF out /\ @ <= MaxStarts THEN @ + 1 ELSE @, !.retry = 0,
                  !.leftover = @ \/ (u.timer /\ opt.proto = "udp")])

\* the end of noreply_callback and of tcp_reporterr
Failed(u) ==
  IF u.retry < opt.retry
  THEN [FreeQryInst([u EXCEPT !.retry = @ + 1, !.qst = "again"]) EXCEPT !.next = TRUE]
  ELSE PrintReply(u)

(***************************************************************************)
(* Starting.                                                               *)
(***************************************************************************)

\* the end of tdig_start: the name of the server is always resolved
Resolve(u) ==
  [u EXCEPT !.qst = "dns", !.dns = @ + 1, !.dnsip = opt.proto # "udp"]

\* the macro does not expand: an unknown letter, or, depending on the number
\* of the probe, no room; resolv_i and resolv_max are those of the run before
MacroFails(u) == [PrintReply(u) EXCEPT !.macro = TRUE]

\* Mutant: does not begin with the first resolver
FreshKeepsIndex(u) ==
  {MacroFails(u)} \cup
  IF opt.resolv
  THEN { IF m = 0 THEN PrintReply([u EXCEPT !.max = 0]) ELSE Resolve([u EXCEPT !.max = m]) :
           m \in 0..MAXNS }
  ELSE {Resolve(u)}

\* tdig_start of a query that is free; resolv.conf may have changed
Fresh(u) ==
  {MacroFails(u)} \cup
  IF opt.resolv
  THEN { IF m = 0 THEN PrintReply([u EXCEPT !.i = 0, !.max = 0])
         ELSE Resolve([u EXCEPT !.i = 0, !.max = m]) : m \in 0..MAXNS }
  ELSE {Resolve([u EXCEPT !.i = 0])}

\* tdig_start: the states it may leave.  In any other state it only writes
\* the line "query busy" (printErrorQuick).
TdigStart(u) ==
  IF u.qst = "free"
  THEN Fresh([u EXCEPT !.runs = IF @ <= MaxStarts THEN @ + 1 ELSE @])
  ELSE IF u.qst \in {"next", "again"} THEN {Resolve(u)}
  ELSE {u}

\* eperd: at any time; eooqd: once
Start ==
  /\ q.there /\ starts < (IF opt.host = "eperd" THEN MaxStarts ELSE 1)
  /\ starts' = starts + 1
  /\ q' \in TdigStart([q EXCEPT !.early = @ \/ q.qst \in {"next", "again"}])
  /\ UNCHANGED opt

\* next_qry_cb
NextQryCb ==
  /\ q.there /\ q.next
  /\ q' \in TdigStart([q EXCEPT !.next = FALSE])
  /\ UNCHANGED <<opt, starts>>

(***************************************************************************)
(* UDP.                                                                    *)
(***************************************************************************)

\* Mutant: does not arm the timer
SendUnarmed(u) ==
  { [u EXCEPT !.timer = FALSE, !.sock = TRUE, !.qst = "wait"] }
  \cup { PrintReply([u EXCEPT !.timer = sent, !.qst = "send"]) :
           sent \in IF opt.addrs > 1 THEN BOOLEAN ELSE {FALSE} }

\* tdig_send_query_callback: a socket for each address of the server, in turn,
\* each taking the place of the one before; a query that is sent arms the
\* timer.  An address that is not allowed, or fails, ends the loop and is
\* reported at once; a send that fails is reported if it is the last one.
SendQuery(u) ==
  { [u EXCEPT !.timer = TRUE, !.sock = TRUE, !.qst = "wait"] }
  \cup { PrintReply([u EXCEPT !.timer = sent, !.qst = "send"]) :
           sent \in IF opt.addrs > 1 THEN BOOLEAN ELSE {FALSE} }

\* udp_dns_cb
UdpDnsCb ==
  /\ q.there /\ opt.proto = "udp" /\ q.dns > 0
  /\ LET u == [q EXCEPT !.dns = @ - 1]
     IN  q' \in {PrintReply(u)} \cup SendQuery(u)
  /\ UNCHANGED <<opt, starts>>

\* ready_callback and process_reply: an answer with the id of the query.  (Any
\* other packet is counted and forgotten.)
ProcessReply ==
  /\ q.there /\ q.sock
  /\ q' = PrintReply([q EXCEPT !.timer = FALSE])
  /\ UNCHANGED <<opt, starts>>

\* noreply_callback, also as tcp_timeout_callback
NoreplyCallback ==
  /\ q.there /\ q.timer
  /\ q' = Failed([q EXCEPT !.timer = FALSE])
  /\ UNCHANGED <<opt, starts>>

(***************************************************************************)
(* TCP, TLS and HTTPS.                                                     *)
(***************************************************************************)

\* crondlog of a message with DIE9
Died(u) ==
  [u EXCEPT !.qst = "died", !.there = FALSE, !.timer = FALSE, !.next = FALSE,
            !.doneT = FALSE]

\* dns_cb and create_bev of tcputil.c: an error is reported, and so is an
\* address that is not allowed or cannot be connected to; reporterr cleans up,
\* so that no other address is tried.  tcp_reporterr does not know the causes
\* with which setting up TLS fails, and ends the process.
TcpDnsCb ==
  /\ q.there /\ opt.proto # "udp" /\ q.dns > 0
  /\ LET u == [q EXCEPT !.dns = @ - 1, !.dnsip = FALSE]
     IN  IF ~q.dnsip THEN q' = [q EXCEPT !.dns = @ - 1]
         ELSE \/ q' = Failed(u)
              \/ q' = Failed([u EXCEPT !.qst = "send", !.timer = TRUE])
              \/ q' = [u EXCEPT !.qst = "send", !.timer = TRUE, !.conn = "connecting"]
              \/ opt.proto = "tls" /\ q' = Died(u)
  /\ UNCHANGED <<opt, starts>>

\* eventcb: connected (tcp_connected puts the query in the buffer), or an error
\* while connecting or reading
EventCb ==
  /\ q.there /\ q.conn # "none"
  /\ \/ q.conn = "connecting" /\ q' = [q EXCEPT !.conn = "connected"]
     \/ q' = Failed(q)
  /\ UNCHANGED <<opt, starts>>

\* tcp_readcb and http2_reply_cb: the whole answer, or what cannot be one
TcpReadCb ==
  /\ q.there /\ q.conn = "connected"
  /\ q' = PrintReply(q)
  /\ UNCHANGED <<opt, starts>>

(***************************************************************************)
(* The end of the measurement.                                             *)
(***************************************************************************)

\* tdig_delete, of a query that is free
TdigDelete(u) == [u EXCEPT !.there = FALSE, !.timer = FALSE, !.sock = FALSE]

\* done_qry_cb; eooqd's done callback deletes the measurement
DoneQryCb ==
  /\ q.there /\ q.doneT
  /\ q' = TdigDelete([q EXCEPT !.doneT = FALSE, !.qst = "free", !.dones = @ + 1])
  /\ UNCHANGED <<opt, starts>>

\* eperd deletes the line; a busy one stays, and is tried again
Delete ==
  /\ q.there /\ opt.host = "eperd" /\ q.qst = "free"
  /\ q' = TdigDelete(q)
  /\ UNCHANGED <<opt, starts>>

Callback ==
  \/ NextQryCb \/ UdpDnsCb \/ ProcessReply \/ NoreplyCallback
  \/ TcpDnsCb \/ EventCb \/ TcpReadCb \/ DoneQryCb

Next == Start \/ Delete \/ Callback

Spec == Init /\ [][Next]_vars

\* A pending timer fires and the resolver answers.
FairSpec ==
  /\ Spec
  /\ WF_vars(NextQryCb) /\ WF_vars(UdpDnsCb) /\ WF_vars(TcpDnsCb)
  /\ WF_vars(NoreplyCallback) /\ WF_vars(DoneQryCb)

(***************************************************************************)
(* Properties.                                                             *)
(***************************************************************************)

\* A result that is written has one object for every name server read from
\* resolv.conf at the start of the run, each once and in their order, whatever
\* retries there were and whenever tdig_start was called (printReply,
\* free_qry_inst); one object if there is none, or without --resolv.  A macro
\* that does not expand makes one object, whose subid goes on from the run
\* before: resolv_i is not reset.
EveryResolverOnce ==
  q.written > 0 =>
    /\ Len(q.last) = (IF opt.resolv /\ q.of > 0 /\ ~q.macro THEN q.of ELSE 1)
    /\ ~q.macro => \A k \in 1..Len(q.last) : q.last[k] = k

\* A query that is free is done with: no socket, connection or name resolution
\* is left to call back into it, and no timer but done_qry_timer.  That one is
\* armed exactly if eooqd has started the query and not yet deleted it, so that
\* eooqd is told of every end and eperd's queries never call done.  Two
\* things leave a timer behind, next_qry_timer or noreply_timer, and are
\* excepted: a start in the gap between two queries, and a result printed while
\* noreply_timer was armed.
QuietWhenFree ==
  q.qst = "free" =>
    /\ q.doneT <=> opt.host = "eooqd" /\ starts > 0 /\ q.there
    /\ ~q.early /\ ~q.leftover =>
         ~q.timer /\ ~q.next /\ q.dns = 0 /\ ~q.sock /\ q.conn = "none"

\* A run ends in one result, no more runs begin than were asked for, also when
\* a start fell in the gap between two queries and next_qry_timer begins a run
\* of its own, and eooqd hears done once.  Not so after a result that was
\* printed with noreply_timer armed, which prints another.
OneResult ==
  /\ ~q.leftover => /\ q.runs <= starts
                    /\ q.written = IF q.qst = "free" THEN q.runs ELSE q.runs - 1
  /\ q.dones <= 1

\* Every start comes to an end, after which the next one or a delete is not
\* refused, and eooqd is told; unless TLS cannot be set up, which ends the
\* process.
Ends ==
  \A n \in 1..MaxStarts :
    starts = n ~> \/ q.qst = "free" /\ (opt.host = "eooqd" => q.dones = 1)
                  \/ q.qst = "died"

\* noreply_timer is there "to handle no reply condition in the given timeout"
\* (tdig_send_query_callback): a start whose error has been reported is not
\* reported once more as timed out.
OneOutcome == q.written <= starts
=============================================================================
