-------------------------------- MODULE Ping --------------------------------
(***************************************************************************)
(* One evping test: the state machine of ping.c between the callbacks of   *)
(* libevent (the timer, the raw socket, the answer of the resolver) and    *)
(* the calls of the scheduler that runs it.                                *)
(*                                                                         *)
(* The network loses, delays, repeats and reorders: a reply to a packet    *)
(* that was sent may arrive at any later time, any number of times or not  *)
(* at all, also in a later run of the test, until Life more packets could  *)
(* have been sent.  A packet is known by the run it belongs to and its     *)
(* number in that run; entries is what the result line says about packets. *)
(*                                                                         *)
(* Left out: a message of another ICMP type with the id, the index and the *)
(* cookie of the test where an echo has them, which would be handled as if *)
(* the timer had expired.  No such type repeats the payload of an echo at  *)
(* that place, and all others are dropped like a message for another test. *)
(***************************************************************************)
EXTENDS Integers

CONSTANTS Tests,      \* <<IPv6 or not, packets per run>>
          MaxPkts,    \* bound: packets per run
          SeqMod,     \* 256 in the code
          Life,       \* bound of the network: packets that a reply outlives
          MaxStarts   \* bound: number of runs

ASSUME PingAssumption ==
  /\ Tests \subseteq BOOLEAN \X (0..MaxPkts)
  /\ MaxPkts \in Nat /\ MaxStarts \in Nat
  /\ SeqMod \in Nat \ {0, 1}
  /\ Life \in 1..SeqMod-1

Packets == (1..MaxStarts) \X (1..MaxPkts)

VARIABLES
  v6, maxpkts,   \* the test uses IPv6; how many packets it sends
  busy, dnsip, got_reply, send_error, sentpkts, seq,   \* of struct pingstate
  timer,     \* ping_timer is pending
  reading,   \* the read event is registered
  entries,   \* <<kind, packet>> in the result of the last run
  network,   \* <<packet, seq>> replies that may arrive
  starts, reports, dones   \* runs, results written, calls of done

flags == <<busy, dnsip, got_reply, send_error, timer, reading>>
test == <<v6, maxpkts>>
vars == <<test, flags, sentpkts, seq, entries, network, starts, reports, dones>>

Init ==
  /\ \E t \in Tests : v6 = t[1] /\ maxpkts = t[2]
  /\ busy = FALSE /\ dnsip = FALSE /\ got_reply = FALSE /\ send_error = FALSE
  /\ sentpkts = 0 /\ seq = 1
  /\ timer = FALSE /\ reading = FALSE
  /\ entries = {} /\ network = {}
  /\ starts = 0 /\ reports = 0 /\ dones = 0

Successor(s) == (s + 1) % SeqMod

(* Packet k of run n among all the packets that the runs may send.         *)
Ordinal(n, k) == (n - 1) * MaxPkts + k

(* The replies still under way when packet k of run n is sent.             *)
Alive(n, k) ==
  {e \in network : Ordinal(n, k) - Ordinal(e[1][1], e[1][2]) < Life}

(* Mutant: ping_cb does not look at busy.                                  *)
AlwaysReported(b) == 1

(* Results ping_cb writes at the end of a run: none if the test is idle.   *)
Reported(b) == IF b THEN 1 ELSE 0

(* Mutant: report closes the socket with its event still registered.       *)
ReportOnly == busy' = FALSE /\ reading' = reading

(* report: the read event is removed and the test is idle.  It leaves      *)
(* ping_timer alone.                                                       *)
Report == busy' = FALSE /\ reading' = FALSE

(* Mutant: after a failure to send, the timer is not started.              *)
XmitGivesUp(run, sent, failed, s, said, t) ==
  /\ seq' = s /\ UNCHANGED test
  /\ sent < maxpkts
  /\ sentpkts' = sent + 1
  /\ \/ /\ network' = Alive(run, sent + 1) \cup {<<<<run, sent + 1>>, s>>}
        /\ send_error' = failed /\ entries' = said /\ timer' = TRUE
     \/ /\ send_error' = TRUE /\ timer' = FALSE
        /\ entries' = said \cup {<<"error", <<run, sent + 1>>>>}
        /\ network' = Alive(run, sent + 1)
  /\ busy' = TRUE /\ reading' = TRUE
  /\ UNCHANGED <<reports, dones>>

(* ping_xmit, with the fields as its caller left them: the next packet,    *)
(* which may fail to be sent, or the end of the run.  t: whether           *)
(* ping_timer is pending.                                                  *)
Xmit(run, sent, failed, s, said, t) ==
  /\ seq' = s /\ UNCHANGED test
  /\ \/ /\ sent >= maxpkts
        /\ Report /\ timer' = t
        /\ reports' = reports + Reported(busy)
        /\ dones' = dones + 1
        /\ sentpkts' = sent /\ send_error' = failed /\ entries' = said
        /\ UNCHANGED network
     \/ /\ sent < maxpkts
        /\ sentpkts' = sent + 1
        /\ \/ /\ network' = Alive(run, sent + 1) \cup {<<<<run, sent + 1>>, s>>}
              /\ send_error' = failed /\ entries' = said
           \/ /\ send_error' = TRUE
              /\ entries' = said \cup {<<"error", <<run, sent + 1>>>>}
              /\ network' = Alive(run, sent + 1)
        /\ timer' = TRUE
        /\ busy' = TRUE /\ reading' = TRUE
        /\ UNCHANGED <<reports, dones>>

(* ping_start.  A test that is busy is left alone.  With option -e the     *)
(* name is resolved at init and Start2 or SocketFails follows at once.     *)
Start ==
  /\ ~busy /\ starts < MaxStarts
  /\ busy' = TRUE /\ dnsip' = TRUE /\ got_reply' = FALSE
  /\ entries' = {}
  /\ starts' = starts + 1
  /\ UNCHANGED <<test, send_error, sentpkts, seq, timer, reading, network, reports, dones>>

(* dns_cb when the name has no address or one that is not allowed: two     *)
(* calls of ping_cb, the second of which finds the test idle.              *)
ResolveFails ==
  /\ dnsip /\ dnsip' = FALSE
  /\ Report
  /\ reports' = reports + Reported(busy) + Reported(FALSE)
  /\ dones' = dones + 1
  /\ UNCHANGED <<test, got_reply, send_error, timer, sentpkts, seq, entries, network,
                 starts>>

(* dns_cb when there is no result to look at: nothing is reported.         *)
ResolveNothing ==
  /\ dnsip /\ dnsip' = FALSE
  /\ dones' = dones + 1
  /\ UNCHANGED <<test, busy, got_reply, send_error, timer, reading, sentpkts, seq,
                 entries, network, starts, reports>>

(* dns_cb with an address, then ping_start2: the socket fails, or the      *)
(* first packet goes out.                                                  *)
SocketFails ==
  /\ dnsip /\ dnsip' = FALSE
  /\ sentpkts' = 0 /\ send_error' = FALSE /\ got_reply' = FALSE
  /\ Report
  /\ reports' = reports + 1
  /\ dones' = dones + 1
  /\ UNCHANGED <<test, timer, seq, entries, network, starts>>

Start2 ==
  /\ dnsip /\ dnsip' = FALSE
  /\ got_reply' = FALSE
  /\ Xmit(starts, 0, FALSE, seq, entries, timer)
  /\ UNCHANGED starts

(* Mutant: a packet without a reply leaves the sequence number as it is.   *)
NoReplySameSeq ==
  /\ timer
  /\ LET lost == ~got_reply /\ ~send_error
     IN Xmit(starts, sentpkts, send_error, seq,
             entries \cup IF lost THEN {<<"x", <<starts, sentpkts>>>>} ELSE {},
             FALSE)
  /\ UNCHANGED <<dnsip, got_reply, starts>>

(* noreply_callback: the timer has expired and is not pending.             *)
NoReply ==
  /\ timer
  /\ LET lost == ~got_reply /\ ~send_error
     IN Xmit(starts, sentpkts, send_error, IF lost THEN Successor(seq) ELSE seq,
             entries \cup IF lost THEN {<<"x", <<starts, sentpkts>>>>} ELSE {},
             FALSE)
  /\ UNCHANGED <<dnsip, got_reply, starts>>

(* A reply with the cookie of the test: any sequence number but the        *)
(* expected one is a duplicate.                                            *)
Answer(p, s) ==
  /\ reading /\ <<p, s>> \in network
  /\ entries' = entries \cup {<<IF s = seq THEN "reply" ELSE "dup", p>>}
  /\ got_reply' = (got_reply \/ s = seq)
  /\ UNCHANGED <<test, busy, dnsip, send_error, timer, reading, sentpkts, network,
                 starts, reports, dones>>

(* Mutant: IPv4 expects another number after a duplicate, as IPv6 does.    *)
ReadyAdvances(p, s) == ~v6 /\ Answer(p, s) /\ seq' = Successor(seq)

ReadyCallback4(p, s) ==
  /\ ~v6
  /\ Answer(p, s)
  /\ seq' = IF s = seq THEN Successor(seq) ELSE seq

ReadyCallback6(p, s) ==
  /\ v6
  /\ Answer(p, s)
  /\ seq' = Successor(seq)

Next ==
  \/ Start \/ ResolveFails \/ ResolveNothing \/ SocketFails \/ Start2 \/ NoReply
  \/ \E p \in Packets, s \in 0..SeqMod-1 :
        ReadyCallback4(p, s) \/ ReadyCallback6(p, s)

Spec == Init /\ [][Next]_vars

(* The resolver answers or gives up, and libevent runs timers that are due.*)
FairSpec == Spec /\ WF_vars(NoReply) /\ WF_vars(ResolveFails \/ ResolveNothing \/ SocketFails \/ Start2)

-----------------------------------------------------------------------------
(* Every variable has its type; the sequence number stays in its byte.     *)
FlagsType ==
  /\ busy \in BOOLEAN /\ dnsip \in BOOLEAN /\ got_reply \in BOOLEAN
  /\ send_error \in BOOLEAN /\ timer \in BOOLEAN /\ reading \in BOOLEAN

TypeOK ==
  /\ test \in Tests /\ FlagsType
  /\ sentpkts \in 0..MaxPkts /\ seq \in 0..SeqMod-1
  /\ entries \subseteq {"reply", "dup", "x", "error"} \X Packets
  /\ network \subseteq Packets \X (0..SeqMod-1)
  /\ starts \in 0..MaxStarts /\ reports \in Nat /\ dones \in Nat

(* An idle test, which ping_delete would free, is waiting for nothing: no  *)
(* answer of the resolver, no packet and no timer finds it freed, although *)
(* report removes the read event only.                                     *)
IdleIsQuiet == ~busy => ~dnsip /\ ~timer /\ ~reading

(* Each run is reported once and done is called once, whichever of its     *)
(* ends it meets: the resolver fails, the socket fails, packets are sent.  *)
(* Only dns_cb without an address calls done without a result, and leaves  *)
(* the test busy.                                                          *)
ReportedOnce ==
  /\ ~busy => reports = starts /\ dones = starts
  /\ busy => reports = starts - 1
  /\ (dnsip \/ timer) => dones = starts - 1

(* IPv4: whatever the order in which replies come, a packet that was       *)
(* reported answered is not answered once more, and one reported lost is   *)
(* not answered either: another reply to it would be reported as a         *)
(* duplicate, however often the one-byte number has wrapped.  It needs     *)
(* replies to be gone when their number is used again (Life < SeqMod): one *)
(* from 256 packets ago would be taken for the reply to the current one.   *)
ReportedOnceOnly ==
  reading /\ ~v6 => \A p \in Packets, s \in 0..SeqMod-1 :
     <<p, s>> \in network /\ entries \cap {<<"reply", p>>, <<"x", p>>} # {}
        => s # seq

(* IPv4: a packet whose reply came before its timer expired is not         *)
(* reported as lost: PING_ERR_TIMEOUT is "Communication with the host      *)
(* timed out".  (IPv6 expects another number after every duplicate, and so *)
(* takes the reply to the current packet for a duplicate.)                 *)
AnsweredIsNotLost ==
  [][\A p \in Packets :
       ~v6 /\ <<"x", p>> \in entries' \ entries
          => entries \cap {<<"reply", p>>, <<"dup", p>>} = {}]_vars

(* A run comes to its end: done is called for it.                          *)
Ends == \A n \in 1..MaxStarts : starts = n ~> dones >= n
=============================================================================
