------------------------------- MODULE MCEperd -------------------------------
(* The instance of Eperd that TLC checks.                                  *)
EXTENDS Eperd, TLC

CONSTANTS wider, wide, narrow, untested, unknown

MCLines == {wider, wide, narrow, untested, unknown}

(* A line with a spread of several intervals, one whose spread is as wide  *)
(* as Moderate allows, one with a narrow one, and two that cannot be       *)
(* started.                                                                *)
MCInterval ==
  wider :> 2 @@ wide :> 2 @@ narrow :> 3 @@ untested :> 4 @@ unknown :> 5
MCStartTime ==
  wider :> 0 @@ wide :> 1 @@ narrow :> 1 @@ untested :> 0 @@ unknown :> 0
MCParam ==
  wider :> 10 @@ wide :> 6 @@ narrow :> 2 @@ untested :> 0 @@ unknown :> 0
MCLoads ==
  wider :> "ok" @@ wide :> "ok" @@ narrow :> "ok" @@
  untested :> "no test" @@ unknown :> "no command"

(* Crontabs with a wide line, with an early or a late end; crontabs with    *)
(* the narrow line; crontabs with the two others.                           *)
Crontab(S, end) == [l \in MCLines |-> IF l \in S THEN end ELSE None]

MCPrograms ==
  { {Crontab({}, 0), Crontab({wider}, 6)},
    {Crontab({}, 0), Crontab({wide}, 4), Crontab({wide}, 20)},
    {Crontab({}, 0), Crontab({narrow}, 4), Crontab({narrow}, 20)},
    {Crontab({}, 0), Crontab({untested, unknown}, 20)} }
==============================================================================
