--------------------------- MODULE OneoffService ----------------------------
(***************************************************************************)
(* What the one-off queue promises the controller, without slots, files or *)
(* posting: lines are taken in order and at most once, a barrier separates *)
(* the commands before it from those after it, every command that ends     *)
(* leaves a result, and only results are ever delivered.  A crash of the   *)
(* daemon drops what it had taken and not finished, and nothing else.      *)
(***************************************************************************)
EXTENDS Integers

CONSTANTS MaxLine, Kind, Silent    \* Silent: commands that end without a result

Lines == 1..MaxLine

VARIABLES status,      \* line -> "waiting", "running", "pending", "done", "gone"
          results,     \* lines that left a result
          delivered    \* results the controller has

vars == <<status, results, delivered>>

Init ==
  /\ status = [l \in Lines |-> "waiting"]
  /\ results = {}
  /\ delivered = {}

Is(st) == {l \in Lines : status[l] = st}

(* The first waiting line is taken; nothing is taken past a barrier.       *)
Take(l) ==
  /\ status[l] = "waiting"
  /\ \A k \in 1..(l - 1) : status[k] # "waiting"
  /\ Is("pending") = {}
  /\ status' = [status EXCEPT ![l] = CASE Kind[l] = "cmd" -> "running"
                                       [] Kind[l] = "barrier" -> "pending"
                                       [] OTHER -> "done"]
  /\ results' = IF Kind[l] = "bad" THEN results \cup {l} ELSE results
  /\ UNCHANGED delivered

Finish(l) ==
  /\ status[l] = "running"
  /\ status' = [status EXCEPT ![l] = "done"]
  /\ results' = IF l \in Silent THEN results ELSE results \cup {l}
  /\ UNCHANGED delivered

PassBarrier(l) ==
  /\ status[l] = "pending"
  /\ Is("running") = {}
  /\ status' = [status EXCEPT ![l] = "done"]
  /\ UNCHANGED <<results, delivered>>

Deliver ==
  /\ \E S \in SUBSET results : delivered' = delivered \cup S
  /\ UNCHANGED <<status, results>>

(* Everything in hand is dropped, and the waiting lines up to n with it.   *)
Drop(n) ==
  /\ status' = [l \in Lines |->
                  IF \/ status[l] \in {"running", "pending"}
                     \/ status[l] = "waiting" /\ l <= n
                  THEN "gone" ELSE status[l]]
  /\ UNCHANGED <<results, delivered>>

(* A queue file that cannot be opened takes its lines with it.             *)
DropWaiting(n) ==
  /\ status' = [l \in Lines |-> IF status[l] = "waiting" /\ l <= n
                                THEN "gone" ELSE status[l]]
  /\ UNCHANGED <<results, delivered>>

Next ==
  \/ \E l \in Lines : Take(l) \/ Finish(l) \/ PassBarrier(l)
  \/ Deliver
  \/ \E n \in 0..MaxLine : Drop(n) \/ DropWaiting(n)

Spec == Init /\ [][Next]_vars
=============================================================================
