------------------------------ MODULE MCEooqd -------------------------------
(* Finite instances of Eooqd for TLC: what the queued lines are.           *)
EXTENDS Eooqd

(* A line that concerns resolv.conf, then commands around a barrier and a  *)
(* forced post; the fifth line is a test that keeps its slot, so that the  *)
(* last one has to find the other.                                         *)
KindSafety == <<"reload", "cmd", "barrier", "post", "cmd", "cmd">>

(* More commands than the one slot there is, with a barrier and an error   *)
(* report behind them: the results of the commands share a file name.      *)
KindLive == <<"cmd", "cmd", "barrier", "bad">>
=============================================================================
