---------------------------- MODULE ProbeProofs -----------------------------
(***************************************************************************)
(* What is proved about the programs around the daemons.                   *)
(*   The main loop: for any set of daemons and any number of failures and  *)
(* restarts, no daemon runs twice, and a server that said to wait is left  *)
(* alone.                                                                  *)
(*   The results: for any number of results, intervals, failures and       *)
(* purges and any size of a post, no result vanishes, and the controller   *)
(* gets one more than once only after a failure.                           *)
(***************************************************************************)
EXTENDS MainLoop, ResultPipeline, TLAPS

(* The answers of the registration server after which reginit.sh asks it   *)
(* again.                                                                  *)
Due == {"none", "empty", "over", "expired"}

(* What the files remember of a wait that is not over.  The wait of the    *)
(* controller may be forgotten (con_keep_conf.txt is removed) only when    *)
(* the registration server is to be asked again, or has answered since.    *)
Waits ==
  /\ regWait => forceReg \/ regConf = "wait"
  /\ conWait /\ ~renewed => keepConf = "wait" \/ forceReg \/ regConf \in Due
  /\ pc = "regconf" => ~regWait /\ (conWait => renewed)
  /\ pc \in {"firmware", "coninit"} => (conWait /\ ~renewed => keepConf = "wait")
  /\ pc \in {"conconf", "keep"} => (conWait => renewed)

(* A pid file names a live daemon exactly when one runs, and a start that  *)
(* has got past check_pidfile is the only one.                             *)
Alive(d) ==
  /\ run[d] \in {0, 1}
  /\ run[d] = 1 <=> pidfile[d] = "it"
  /\ start[d] \in {"open", "write"} => run[d] = 0

Alone == \A d \in Daemons : Alive(d)

IInv == TypeOK /\ WaitHonoured /\ Waits /\ Alone

-----------------------------------------------------------------------------
LEMMA InitIInv == Init => IInv
<1> SUFFICES ASSUME Init PROVE IInv
  BY Zenon
<1>1. TypeOK
  BY Zenon
     DEF Init, TypeOK, StatusType, FlagsType, DaemonsType, RegConf, KeepConf,
     PidFile
<1>2. WaitHonoured /\ Waits
  BY Zenon DEF Init, WaitHonoured, Waits
<1>3. Alone
  BY DEF Init, Alone, Alive
<1> QED  BY <1>1, <1>2, <1>3, Zenon DEF IInv

LEMMA NextStatus == StatusType /\ [Next]_vars => StatusType'
<1> SUFFICES ASSUME StatusType, [Next]_vars PROVE StatusType'
  BY Zenon
<1> USE DEF loop, conf, session, daemons, bounds
<1>1. CASE CheckSsh
  BY <1>1, Zenon DEF StatusType, CheckSsh, FindpidSsh, RegConf, KeepConf,
     PidFile
<1>2. CASE CheckKick
  BY <1>2, Zenon DEF StatusType, CheckKick, KillSsh, RegConf, KeepConf, PidFile
<1>3. CASE CheckReg
  BY <1>3 DEF StatusType, CheckReg, KillSsh, RegConf, KeepConf, PidFile
<1>4. CASE ReadConf
  BY <1>4, Zenon DEF StatusType, ReadConf, Go, ExitLeaving, RegConf, KeepConf,
     PidFile
<1>5. CASE LowMemory
  BY <1>5, Zenon DEF StatusType, LowMemory, Fault, ExitLeaving, RegConf,
     KeepConf,
     PidFile
<1>6. CASE RegFails
  BY <1>6, Zenon DEF StatusType, RegFails, Fault, Exit, RegConf, KeepConf,
     PidFile
<1>7. CASE RegAnswers
  BY <1>7, Zenon DEF StatusType, RegAnswers, Go, RegConf, KeepConf, PidFile
<1>8. CASE RegStores
  BY <1>8 DEF StatusType, RegStores, Go, Fault, Exit, ExitLeaving, RegConf,
     KeepConf, PidFile
<1>9. CASE Firmware
  BY <1>9 DEF StatusType, Firmware, Go, Fault, Exit, RegConf, KeepConf, PidFile
<1>10. CASE ReadKeepConf
  BY <1>10 DEF StatusType, ReadKeepConf, Go, Exit, RegConf, KeepConf, PidFile
<1>11. CASE ConFails
  BY <1>11, Zenon DEF StatusType, ConFails, Fault, Exit, RegConf, KeepConf,
     PidFile
<1>12. CASE ConAnswers
  BY <1>12, Zenon DEF StatusType, ConAnswers, Go, RegConf, KeepConf, PidFile
<1>13. CASE ConStores
  BY <1>13, Zenon DEF StatusType, ConStores, Go, Fault, Exit, RegConf,
     KeepConf,
     PidFile
<1>14. CASE Keep
  BY <1>14 DEF StatusType, Keep, Go, Fault, Exit, RegConf, KeepConf, PidFile
<1>15. CASE Sleep
  BY <1>15, Zenon DEF StatusType, Sleep, Go, RegConf, KeepConf, PidFile
<1>16. CASE CheckDaemons
  BY <1>16, Zenon DEF StatusType, CheckDaemons, Go, CheckPid, RegConf,
     KeepConf,
     PidFile
<1>17. CASE Restart
  BY <1>17, Zenon DEF StatusType, Restart, RegConf, KeepConf, PidFile
<1>18. CASE KeepDies
  BY <1>18 DEF StatusType, KeepDies, Fault, RegConf, KeepConf, PidFile
<1>19. CASE KickedOut
  BY <1>19 DEF StatusType, KickedOut, Fault, RegConf, KeepConf, PidFile
<1>20. CASE RegWaitOver
  BY <1>20 DEF StatusType, RegWaitOver, RegConf, KeepConf, PidFile
<1>21. CASE ConWaitOver
  BY <1>21 DEF StatusType, ConWaitOver, RegConf, KeepConf, PidFile
<1>22. CASE RegExpires
  BY <1>22 DEF StatusType, RegExpires, Fault, RegConf, KeepConf, PidFile
<1>23. CASE OtherStarts
  BY <1>23 DEF StatusType, OtherStarts, Fault, RegConf, KeepConf, PidFile
<1>24. CASE OtherEnds
  BY <1>24 DEF StatusType, OtherEnds, RegConf, KeepConf, PidFile
<1>25. ASSUME NEW d \in Daemons, StartChecks(d) PROVE StatusType'
  BY <1>25 DEF StatusType, StartChecks, RegConf, KeepConf, PidFile
<1>26. ASSUME NEW d \in Daemons, StartOpens(d) PROVE StatusType'
  BY <1>26 DEF StatusType, StartOpens, RegConf, KeepConf, PidFile
<1>27. ASSUME NEW d \in Daemons, StartWrites(d) PROVE StatusType'
  BY <1>27 DEF StatusType, StartWrites, RegConf, KeepConf, PidFile
<1>28. ASSUME NEW d \in Daemons, StartFails(d) PROVE StatusType'
  BY <1>28 DEF StatusType, StartFails, Fault, RegConf, KeepConf, PidFile
<1>29. ASSUME NEW d \in Daemons, DaemonDies(d) PROVE StatusType'
  BY <1>29 DEF StatusType, DaemonDies, Fault, RegConf, KeepConf, PidFile
<1>30. CASE UNCHANGED vars
  BY <1>30, Zenon DEF StatusType, vars
<1> QED
  BY <1>1, <1>2, <1>3, <1>4, <1>5, <1>6, <1>7, <1>8, <1>9, <1>10, <1>11,
     <1>12, <1>13, <1>14, <1>15, <1>16, <1>17, <1>18, <1>19, <1>20, <1>21,
     <1>22, <1>23, <1>24, <1>25, <1>26, <1>27, <1>28, <1>29, <1>30, Zenon
  DEF Next, Turn, Reginit, Starting

LEMMA NextFlags == FlagsType /\ [Next]_vars => FlagsType'
<1> SUFFICES ASSUME FlagsType, [Next]_vars PROVE FlagsType'
  BY Zenon
<1> USE DEF loop, conf, session, daemons, bounds
<1>1. CASE CheckSsh
  BY <1>1, Zenon DEF FlagsType, CheckSsh, FindpidSsh
<1>2. CASE CheckKick
  BY <1>2, Zenon DEF FlagsType, CheckKick, KillSsh
<1>3. CASE CheckReg
  BY <1>3, Zenon DEF FlagsType, CheckReg, KillSsh
<1>4. CASE ReadConf
  BY <1>4, Zenon DEF FlagsType, ReadConf, Go, ExitLeaving
<1>5. CASE LowMemory
  BY <1>5, Zenon DEF FlagsType, LowMemory, Fault, ExitLeaving
<1>6. CASE RegFails
  BY <1>6, Zenon DEF FlagsType, RegFails, Fault, Exit
<1>7. CASE RegAnswers
  BY <1>7, Zenon DEF FlagsType, RegAnswers, Go
<1>8. CASE RegStores
  BY <1>8, Zenon DEF FlagsType, RegStores, Go, Fault, Exit, ExitLeaving
<1>9. CASE Firmware
  BY <1>9, Zenon DEF FlagsType, Firmware, Go, Fault, Exit
<1>10. CASE ReadKeepConf
  BY <1>10, Zenon DEF FlagsType, ReadKeepConf, Go, Exit
<1>11. CASE ConFails
  BY <1>11, Zenon DEF FlagsType, ConFails, Fault, Exit
<1>12. CASE ConAnswers
  BY <1>12, Zenon DEF FlagsType, ConAnswers, Go
<1>13. CASE ConStores
  BY <1>13, Zenon DEF FlagsType, ConStores, Go, Fault, Exit
<1>14. CASE Keep
  BY <1>14, Zenon DEF FlagsType, Keep, Go, Fault, Exit
<1>15. CASE Sleep
  BY <1>15, Zenon DEF FlagsType, Sleep, Go
<1>16. CASE CheckDaemons
  BY <1>16, Zenon DEF FlagsType, CheckDaemons, Go, CheckPid
<1>17. CASE Restart
  BY <1>17, Zenon DEF FlagsType, Restart
<1>18. CASE KeepDies
  BY <1>18, Zenon DEF FlagsType, KeepDies, Fault
<1>19. CASE KickedOut
  BY <1>19, Zenon DEF FlagsType, KickedOut, Fault
<1>20. CASE RegWaitOver
  BY <1>20, Zenon DEF FlagsType, RegWaitOver
<1>21. CASE ConWaitOver
  BY <1>21, Zenon DEF FlagsType, ConWaitOver
<1>22. CASE RegExpires
  BY <1>22, Zenon DEF FlagsType, RegExpires, Fault
<1>23. CASE OtherStarts
  BY <1>23, Zenon DEF FlagsType, OtherStarts, Fault
<1>24. CASE OtherEnds
  BY <1>24, Zenon DEF FlagsType, OtherEnds
<1>25. ASSUME NEW d \in Daemons, StartChecks(d) PROVE FlagsType'
  BY <1>25, Zenon DEF FlagsType, StartChecks
<1>26. ASSUME NEW d \in Daemons, StartOpens(d) PROVE FlagsType'
  BY <1>26, Zenon DEF FlagsType, StartOpens
<1>27. ASSUME NEW d \in Daemons, StartWrites(d) PROVE FlagsType'
  BY <1>27, Zenon DEF FlagsType, StartWrites
<1>28. ASSUME NEW d \in Daemons, StartFails(d) PROVE FlagsType'
  BY <1>28, Zenon DEF FlagsType, StartFails, Fault
<1>29. ASSUME NEW d \in Daemons, DaemonDies(d) PROVE FlagsType'
  BY <1>29, Zenon DEF FlagsType, DaemonDies, Fault
<1>30. CASE UNCHANGED vars
  BY <1>30, Zenon DEF FlagsType, vars
<1> QED
  BY <1>1, <1>2, <1>3, <1>4, <1>5, <1>6, <1>7, <1>8, <1>9, <1>10, <1>11,
     <1>12, <1>13, <1>14, <1>15, <1>16, <1>17, <1>18, <1>19, <1>20, <1>21,
     <1>22, <1>23, <1>24, <1>25, <1>26, <1>27, <1>28, <1>29, <1>30, Zenon
  DEF Next, Turn, Reginit, Starting

LEMMA NextDaemons == DaemonsType /\ [Next]_vars => DaemonsType'
<1> SUFFICES ASSUME DaemonsType, [Next]_vars PROVE DaemonsType'
  BY Zenon
<1> USE DEF loop, conf, session, daemons, bounds
<1>1. CASE CheckSsh
  BY <1>1, Zenon DEF DaemonsType, CheckSsh, FindpidSsh, PidFile
<1>2. CASE CheckKick
  BY <1>2, Zenon DEF DaemonsType, CheckKick, KillSsh, PidFile
<1>3. CASE CheckReg
  BY <1>3, Zenon DEF DaemonsType, CheckReg, KillSsh, PidFile
<1>4. CASE ReadConf
  BY <1>4, Zenon DEF DaemonsType, ReadConf, Go, ExitLeaving, PidFile
<1>5. CASE LowMemory
  BY <1>5, Zenon DEF DaemonsType, LowMemory, Fault, ExitLeaving, PidFile
<1>6. CASE RegFails
  BY <1>6, Zenon DEF DaemonsType, RegFails, Fault, Exit, PidFile
<1>7. CASE RegAnswers
  BY <1>7, Zenon DEF DaemonsType, RegAnswers, Go, PidFile
<1>8. CASE RegStores
  BY <1>8, Zenon DEF DaemonsType, RegStores, Go, Fault, Exit, ExitLeaving,
     PidFile
<1>9. CASE Firmware
  BY <1>9, Zenon DEF DaemonsType, Firmware, Go, Fault, Exit, PidFile
<1>10. CASE ReadKeepConf
  BY <1>10, Zenon DEF DaemonsType, ReadKeepConf, Go, Exit, PidFile
<1>11. CASE ConFails
  BY <1>11, Zenon DEF DaemonsType, ConFails, Fault, Exit, PidFile
<1>12. CASE ConAnswers
  BY <1>12, Zenon DEF DaemonsType, ConAnswers, Go, PidFile
<1>13. CASE ConStores
  BY <1>13, Zenon DEF DaemonsType, ConStores, Go, Fault, Exit, PidFile
<1>14. CASE Keep
  BY <1>14, Zenon DEF DaemonsType, Keep, Go, PidFile
<1>15. CASE Sleep
  BY <1>15, Zenon DEF DaemonsType, Sleep, Go, PidFile
<1>16. CASE CheckDaemons
  BY <1>16, Zenon DEF DaemonsType, CheckDaemons, Go, CheckPid, PidFile
<1>17. CASE Restart
  BY <1>17, Zenon DEF DaemonsType, Restart, PidFile
<1>18. CASE KeepDies
  BY <1>18, Zenon DEF DaemonsType, KeepDies, Fault, PidFile
<1>19. CASE KickedOut
  BY <1>19, Zenon DEF DaemonsType, KickedOut, Fault, PidFile
<1>20. CASE RegWaitOver
  BY <1>20, Zenon DEF DaemonsType, RegWaitOver, PidFile
<1>21. CASE ConWaitOver
  BY <1>21, Zenon DEF DaemonsType, ConWaitOver, PidFile
<1>22. CASE RegExpires
  BY <1>22, Zenon DEF DaemonsType, RegExpires, Fault, PidFile
<1>23. CASE OtherStarts
  BY <1>23, Zenon DEF DaemonsType, OtherStarts, Fault, PidFile
<1>24. CASE OtherEnds
  BY <1>24, Zenon DEF DaemonsType, OtherEnds, PidFile
<1>25. ASSUME NEW d \in Daemons, StartChecks(d) PROVE DaemonsType'
  BY <1>25, Zenon DEF DaemonsType, StartChecks, PidFile
<1>26. ASSUME NEW d \in Daemons, StartOpens(d) PROVE DaemonsType'
  BY <1>26, Zenon DEF DaemonsType, StartOpens, PidFile
<1>27. ASSUME NEW d \in Daemons, StartWrites(d) PROVE DaemonsType'
  BY <1>27 DEF DaemonsType, StartWrites, PidFile
<1>28. ASSUME NEW d \in Daemons, StartFails(d) PROVE DaemonsType'
  BY <1>28, Zenon DEF DaemonsType, StartFails, Fault, PidFile
<1>29. ASSUME NEW d \in Daemons, DaemonDies(d) PROVE DaemonsType'
  BY <1>29 DEF DaemonsType, DaemonDies, Fault, PidFile
<1>30. CASE UNCHANGED vars
  BY <1>30, Zenon DEF DaemonsType, vars
<1> QED
  BY <1>1, <1>2, <1>3, <1>4, <1>5, <1>6, <1>7, <1>8, <1>9, <1>10, <1>11,
     <1>12, <1>13, <1>14, <1>15, <1>16, <1>17, <1>18, <1>19, <1>20, <1>21,
     <1>22, <1>23, <1>24, <1>25, <1>26, <1>27, <1>28, <1>29, <1>30, Zenon
  DEF Next, Turn, Reginit, Starting

LEMMA NextAlone == TypeOK /\ Alone /\ [Next]_vars => Alone'
<1> SUFFICES ASSUME TypeOK, Alone, [Next]_vars PROVE Alone'
  BY Zenon
<1> USE DEF loop, conf, session, daemons, bounds
<1>1. CASE CheckSsh
  BY <1>1, Zenon DEF TypeOK, DaemonsType, Alone, Alive, CheckSsh, FindpidSsh,
     PidFile
<1>2. CASE CheckKick
  BY <1>2, Zenon DEF TypeOK, DaemonsType, Alone, Alive, CheckKick, KillSsh,
     PidFile
<1>3. CASE CheckReg
  BY <1>3, Zenon DEF TypeOK, DaemonsType, Alone, Alive, CheckReg, KillSsh,
     PidFile
<1>4. CASE ReadConf
  BY <1>4, Zenon DEF TypeOK, DaemonsType, Alone, Alive, ReadConf, Go,
     ExitLeaving,
     PidFile
<1>5. CASE LowMemory
  BY <1>5, Zenon DEF TypeOK, DaemonsType, Alone, Alive, LowMemory, Fault,
     ExitLeaving, PidFile
<1>6. CASE RegFails
  BY <1>6, Zenon DEF TypeOK, DaemonsType, Alone, Alive, RegFails, Fault, Exit,
     PidFile
<1>7. CASE RegAnswers
  BY <1>7, Zenon DEF TypeOK, DaemonsType, Alone, Alive, RegAnswers, Go, PidFile
<1>8. CASE RegStores
  BY <1>8, Zenon DEF TypeOK, DaemonsType, Alone, Alive, RegStores, Go, Fault,
     Exit,
     ExitLeaving, PidFile
<1>9. CASE Firmware
  BY <1>9, Zenon DEF TypeOK, DaemonsType, Alone, Alive, Firmware, Go, Fault,
     Exit,
     PidFile
<1>10. CASE ReadKeepConf
  BY <1>10, Zenon DEF TypeOK, DaemonsType, Alone, Alive, ReadKeepConf, Go,
     Exit,
     PidFile
<1>11. CASE ConFails
  BY <1>11, Zenon DEF TypeOK, DaemonsType, Alone, Alive, ConFails, Fault, Exit,
     PidFile
<1>12. CASE ConAnswers
  BY <1>12, Zenon DEF TypeOK, DaemonsType, Alone, Alive, ConAnswers, Go,
     PidFile
<1>13. CASE ConStores
  BY <1>13, Zenon DEF TypeOK, DaemonsType, Alone, Alive, ConStores, Go, Fault,
     Exit,
     PidFile
<1>14. CASE Keep
  BY <1>14, Zenon DEF TypeOK, DaemonsType, Alone, Alive, Keep, Go, PidFile
<1>15. CASE Sleep
  BY <1>15, Zenon DEF TypeOK, DaemonsType, Alone, Alive, Sleep, Go, PidFile
<1>16. CASE CheckDaemons
  BY <1>16, Zenon DEF TypeOK, DaemonsType, Alone, Alive, CheckDaemons, Go,
     CheckPid,
     PidFile
<1>17. CASE Restart
  BY <1>17 DEF TypeOK, DaemonsType, Alone, Alive, Restart, PidFile
<1>18. CASE KeepDies
  BY <1>18, Zenon DEF TypeOK, DaemonsType, Alone, Alive, KeepDies, Fault,
     PidFile
<1>19. CASE KickedOut
  BY <1>19, Zenon DEF TypeOK, DaemonsType, Alone, Alive, KickedOut, Fault,
     PidFile
<1>20. CASE RegWaitOver
  BY <1>20, Zenon DEF TypeOK, DaemonsType, Alone, Alive, RegWaitOver, PidFile
<1>21. CASE ConWaitOver
  BY <1>21, Zenon DEF TypeOK, DaemonsType, Alone, Alive, ConWaitOver, PidFile
<1>22. CASE RegExpires
  BY <1>22, Zenon DEF TypeOK, DaemonsType, Alone, Alive, RegExpires, Fault,
     PidFile
<1>23. CASE OtherStarts
  BY <1>23 DEF TypeOK, DaemonsType, Alone, Alive, OtherStarts, Fault, PidFile
<1>24. CASE OtherEnds
  BY <1>24 DEF TypeOK, DaemonsType, Alone, Alive, OtherEnds, PidFile
<1>25. ASSUME NEW d \in Daemons, StartChecks(d) PROVE Alone'
  BY <1>25, Zenon DEF TypeOK, DaemonsType, Alone, Alive, StartChecks, PidFile
<1>26. ASSUME NEW d \in Daemons, StartOpens(d) PROVE Alone'
  BY <1>26 DEF TypeOK, DaemonsType, Alone, Alive, StartOpens, PidFile
<1>27. ASSUME NEW d \in Daemons, StartWrites(d) PROVE Alone'
  BY <1>27 DEF TypeOK, DaemonsType, Alone, Alive, StartWrites, PidFile
<1>28. ASSUME NEW d \in Daemons, StartFails(d) PROVE Alone'
  BY <1>28, Zenon DEF TypeOK, DaemonsType, Alone, Alive, StartFails, Fault,
     PidFile
<1>29. ASSUME NEW d \in Daemons, DaemonDies(d) PROVE Alone'
  BY <1>29 DEF TypeOK, DaemonsType, Alone, Alive, DaemonDies, Fault, PidFile
<1>30. CASE UNCHANGED vars
  BY <1>30, Zenon DEF Alone, Alive, vars
<1> QED
  BY <1>1, <1>2, <1>3, <1>4, <1>5, <1>6, <1>7, <1>8, <1>9, <1>10, <1>11,
     <1>12, <1>13, <1>14, <1>15, <1>16, <1>17, <1>18, <1>19, <1>20, <1>21,
     <1>22, <1>23, <1>24, <1>25, <1>26, <1>27, <1>28, <1>29, <1>30, Zenon
  DEF Next, Turn, Reginit, Starting

LEMMA NextWaits == IInv /\ [Next]_vars => WaitHonoured' /\ Waits'
<1> SUFFICES ASSUME TypeOK, WaitHonoured, Waits, [Next]_vars
             PROVE  WaitHonoured' /\ Waits'
  BY Zenon DEF IInv
<1> USE DEF loop, conf, session, daemons, bounds
<1>1. CASE CheckSsh
  BY <1>1, Zenon DEF TypeOK, StatusType, FlagsType, WaitHonoured, Waits, Due,
     CheckSsh, FindpidSsh, RegConf, KeepConf
<1>2. CASE CheckKick
  BY <1>2, Zenon DEF TypeOK, StatusType, FlagsType, WaitHonoured, Waits, Due,
     CheckKick, KillSsh, RegConf, KeepConf
<1>3. CASE CheckReg
  BY <1>3, Zenon DEF TypeOK, StatusType, FlagsType, WaitHonoured, Waits, Due,
     CheckReg, KillSsh, RegConf, KeepConf
<1>4. CASE ReadConf
  BY <1>4, Zenon DEF TypeOK, StatusType, FlagsType, WaitHonoured, Waits, Due,
     ReadConf, Go, ExitLeaving, RegConf, KeepConf
<1>5. CASE LowMemory
  BY <1>5, Zenon DEF TypeOK, StatusType, FlagsType, WaitHonoured, Waits, Due,
     LowMemory, Fault, ExitLeaving, RegConf, KeepConf
<1>6. CASE RegFails
  BY <1>6, Zenon DEF TypeOK, StatusType, FlagsType, WaitHonoured, Waits, Due,
     RegFails, Fault, Exit, RegConf, KeepConf
<1>7. CASE RegAnswers
  BY <1>7, Zenon DEF TypeOK, StatusType, FlagsType, WaitHonoured, Waits, Due,
     RegAnswers, Go, RegConf, KeepConf
<1>8. CASE RegStores
  BY <1>8 DEF TypeOK, StatusType, FlagsType, WaitHonoured, Waits, Due,
     RegStores, Go, Fault, Exit, ExitLeaving, RegConf, KeepConf
<1>9. CASE Firmware
  BY <1>9, Zenon DEF TypeOK, StatusType, FlagsType, WaitHonoured, Waits, Due,
     Firmware, Go, Fault, Exit, RegConf, KeepConf
<1>10. CASE ReadKeepConf
  BY <1>10, Zenon DEF TypeOK, StatusType, FlagsType, WaitHonoured, Waits, Due,
     ReadKeepConf, Go, Exit, RegConf, KeepConf
<1>11. CASE ConFails
  BY <1>11, Zenon DEF TypeOK, StatusType, FlagsType, WaitHonoured, Waits, Due,
     ConFails, Fault, Exit, RegConf, KeepConf
<1>12. CASE ConAnswers
  BY <1>12, Zenon DEF TypeOK, StatusType, FlagsType, WaitHonoured, Waits, Due,
     ConAnswers, Go, RegConf, KeepConf
<1>13. CASE ConStores
  BY <1>13 DEF TypeOK, StatusType, FlagsType, WaitHonoured, Waits, Due,
     ConStores, Go, Fault, Exit, RegConf, KeepConf
<1>14. CASE Keep
  BY <1>14, Zenon DEF TypeOK, StatusType, FlagsType, WaitHonoured, Waits, Due,
     Keep, Go, Fault, Exit, RegConf, KeepConf
<1>15. CASE Sleep
  BY <1>15, Zenon DEF TypeOK, StatusType, FlagsType, WaitHonoured, Waits, Due,
     Sleep, Go, RegConf, KeepConf
<1>16. CASE CheckDaemons
  BY <1>16, Zenon DEF TypeOK, StatusType, FlagsType, WaitHonoured, Waits, Due,
     CheckDaemons, Go, CheckPid, RegConf, KeepConf
<1>17. CASE Restart
  BY <1>17, Zenon DEF TypeOK, StatusType, FlagsType, WaitHonoured, Waits, Due,
     Restart, RegConf, KeepConf
<1>18. CASE KeepDies
  BY <1>18, Zenon DEF TypeOK, StatusType, FlagsType, WaitHonoured, Waits, Due,
     KeepDies, Fault, RegConf, KeepConf
<1>19. CASE KickedOut
  BY <1>19, Zenon DEF TypeOK, StatusType, FlagsType, WaitHonoured, Waits, Due,
     KickedOut, Fault, RegConf, KeepConf
<1>20. CASE RegWaitOver
  BY <1>20, Zenon DEF TypeOK, StatusType, FlagsType, WaitHonoured, Waits, Due,
     RegWaitOver, RegConf, KeepConf
<1>21. CASE ConWaitOver
  BY <1>21, Zenon DEF TypeOK, StatusType, FlagsType, WaitHonoured, Waits, Due,
     ConWaitOver, RegConf, KeepConf
<1>22. CASE RegExpires
  BY <1>22, Zenon DEF TypeOK, StatusType, FlagsType, WaitHonoured, Waits, Due,
     RegExpires, Fault, RegConf, KeepConf
<1>23. CASE OtherStarts
  BY <1>23, Zenon DEF TypeOK, StatusType, FlagsType, WaitHonoured, Waits, Due,
     OtherStarts, Fault, RegConf, KeepConf
<1>24. CASE OtherEnds
  BY <1>24, Zenon DEF TypeOK, StatusType, FlagsType, WaitHonoured, Waits, Due,
     OtherEnds, RegConf, KeepConf
<1>25. ASSUME NEW d \in Daemons, StartChecks(d) PROVE WaitHonoured' /\ Waits'
  BY <1>25, Zenon DEF TypeOK, StatusType, FlagsType, WaitHonoured, Waits, Due,
     StartChecks, RegConf, KeepConf
<1>26. ASSUME NEW d \in Daemons, StartOpens(d) PROVE WaitHonoured' /\ Waits'
  BY <1>26, Zenon DEF TypeOK, StatusType, FlagsType, WaitHonoured, Waits, Due,
     StartOpens, RegConf, KeepConf
<1>27. ASSUME NEW d \in Daemons, StartWrites(d) PROVE WaitHonoured' /\ Waits'
  BY <1>27, Zenon DEF TypeOK, StatusType, FlagsType, WaitHonoured, Waits, Due,
     StartWrites, RegConf, KeepConf
<1>28. ASSUME NEW d \in Daemons, StartFails(d) PROVE WaitHonoured' /\ Waits'
  BY <1>28, Zenon DEF TypeOK, StatusType, FlagsType, WaitHonoured, Waits, Due,
     StartFails, Fault, RegConf, KeepConf
<1>29. ASSUME NEW d \in Daemons, DaemonDies(d) PROVE WaitHonoured' /\ Waits'
  BY <1>29, Zenon DEF TypeOK, StatusType, FlagsType, WaitHonoured, Waits, Due,
     DaemonDies, Fault, RegConf, KeepConf
<1>30. CASE UNCHANGED vars
  BY <1>30, Zenon DEF WaitHonoured, Waits, vars
<1> QED
  BY <1>1, <1>2, <1>3, <1>4, <1>5, <1>6, <1>7, <1>8, <1>9, <1>10, <1>11,
     <1>12, <1>13, <1>14, <1>15, <1>16, <1>17, <1>18, <1>19, <1>20, <1>21,
     <1>22, <1>23, <1>24, <1>25, <1>26, <1>27, <1>28, <1>29, <1>30, Zenon
  DEF Next, Turn, Reginit, Starting

LEMMA Invariance == Spec => []IInv
<1>1. IInv /\ [Next]_vars => IInv'
  BY NextStatus, NextFlags, NextDaemons, NextAlone, NextWaits, Zenon DEF IInv,
     TypeOK
<1> QED  BY InitIInv, <1>1, PTL DEF Spec

(* The status files, process ids and daemons of the main loop keep their   *)
(* types, for any set of daemons.                                          *)
THEOREM TypeCorrect == Spec => []TypeOK
<1>1. IInv => TypeOK
  BY Zenon DEF IInv
<1> QED  BY Invariance, <1>1, PTL

(* At most one instance of a daemon is at work, for any number of deaths,  *)
(* reused process ids, failed starts and restarts of the main script.      *)
THEOREM DaemonsAlone == Spec => []OneInstance
<1>1. IInv => OneInstance
  BY DEF IInv, Alone, Alive, OneInstance
<1> QED  BY Invariance, <1>1, PTL

(* reginit.sh asks neither server before the time it was told to wait for, *)
(* except the registration server when the controller ended the session,   *)
(* and the controller when the registration server has answered since, for *)
(* any number of failures.                                                 *)
THEOREM WaitsHonoured == Spec => []WaitHonoured
<1>1. IInv => WaitHonoured
  BY Zenon DEF IInv
<1> QED  BY Invariance, <1>1, PTL

-----------------------------------------------------------------------------
(* The result files.                                                       *)
(* The destinations of the condmv of stream s.                             *)
OutOf(s) == {n \in OutFiles : n[2] = s}

(* A name that is not there holds nothing.                                 *)
Disk ==
  /\ there \subseteq Names /\ period \in 0..MaxPeriod /\ written \in 0..MaxLine
  /\ data \in [Names -> SUBSET (1..written)]
  /\ \A n \in Names \ there : data[n] = {}

(* Nobody else makes the name a condmv has found free.                     *)
Moving ==
  /\ mv \in [Streams -> OutFiles \cup {Idle}]
  /\ \A s \in Streams : mv[s] = Idle \/ mv[s] \in OutOf(s) \ there

(* What httppost has listed is there, unless dfrm removed it since.        *)
Posting ==
  /\ hp \in {"idle", "list", "send", "unlink"}
  /\ list \subseteq OutFiles /\ tosend \subseteq list
  /\ list \subseteq there \cup exposed
  /\ body \subseteq 1..written
  /\ hp = "idle" => list = {}
  /\ hp = "list" => list \subseteq seen
  /\ hp # "send" => body = {} /\ tosend = {}

Counting == received \in [Lines -> Nat] /\ fails \in Nat

(* A listed file that has been sent is all in the post, and once the       *)
(* answer is there the controller has it, unless the name is exposed.      *)
Covered ==
  /\ hp = "send" =>
       \A n \in list \ tosend : n \in exposed \/ data[n] \subseteq body
  /\ hp = "unlink" =>
       \A n \in list : n \in exposed \/ \A l \in data[n] : received[l] > 0

(* A line is in one file; one that was sent in this post is in a file that *)
(* is going to be removed.                                                 *)
Once ==
  /\ \A n, m \in Names : data[n] \cap data[m] # {} => n = m
  /\ \A n \in Names : data[n] \cap body # {} => n \in list \ tosend

(* A line that may be sent again was received at most once per failure.    *)
Bounded ==
  /\ \A l \in Lines : received[l] <= 1 + fails
  /\ \A l \in Lines : l > written => received[l] = 0
  /\ \A n \in Names : \A l \in data[n] :
        received[l] <= fails \/ (hp = "unlink" /\ n \in list)
  /\ \A l \in body : received[l] <= fails

PipelineIInv ==
  /\ Disk /\ Moving /\ Posting /\ Counting
  /\ Covered /\ NoResultVanishes /\ Once /\ Bounded

-----------------------------------------------------------------------------
(* Names                                                                   *)

LEMMA NewNames ==
  /\ \A s \in Streams : NewFile(s) \in Names /\ NewFile(s) \notin OutFiles
  /\ \A s, t \in Streams : NewFile(s) = NewFile(t) => s = t
<1>1. \A s \in Streams : NewFile(s) \in Names
  BY Zenon DEF Names, NewFiles
<1>2. \A s \in Streams : NewFile(s) \notin OutFiles
  BY Zenon DEF NewFile, OutFiles, OutFile
<1>3. \A s, t \in Streams : NewFile(s) = NewFile(t) => s = t
  BY Zenon DEF NewFile
<1> QED  BY <1>1, <1>2, <1>3, Zenon

LEMMA OutNames ==
  /\ OutFiles \subseteq Names
  /\ \A s \in Streams : OutOf(s) \subseteq OutFiles
  /\ \A s, t \in Streams : s # t => OutOf(s) \cap OutOf(t) = {}
BY Zenon DEF Names, OutOf

LEMMA DestinationOut ==
  ASSUME period \in 0..MaxPeriod, NEW s \in Streams
  PROVE  Destination(s) \in OutOf(s)
<1>1. CASE s = "7"
  <2>1. Destination(s) = OutFile("7", period)
    BY <1>1, Zenon DEF Destination
  <2>2. OutFile("7", period) \in OutFiles
    BY Zenon DEF OutFiles
  <2> QED  BY <2>1, <2>2, <1>1 DEF OutOf, OutFile
<1>2. CASE s = "simpleping"
  BY <1>2, Zenon DEF Destination, OutFiles, OutOf, OutFile
<1> QED  BY <1>1, <1>2, Zenon DEF Streams

LEMMA FirstIn == ASSUME NEW S, S # {} PROVE First(S) \in S
BY Zenon DEF First

LEMMA PipelineInitIInv == PipelineInit => PipelineIInv
<1> SUFFICES ASSUME PipelineInit PROVE PipelineIInv
  BY Zenon
<1>1. Disk
  BY PipelineAssumption DEF PipelineInit, Disk
<1>2. Moving
  BY Zenon DEF PipelineInit, Moving
<1>3. Posting /\ Counting
  BY Zenon DEF PipelineInit, Posting, Counting
<1>4. Covered /\ Once
  BY Zenon DEF PipelineInit, Covered, Once
<1>5. NoResultVanishes
  BY DEF PipelineInit, NoResultVanishes
<1>6. Bounded
  BY DEF PipelineInit, Bounded
<1> QED  BY <1>1, <1>2, <1>3, <1>4, <1>5, <1>6, Zenon DEF PipelineIInv

LEMMA NextDisk ==
  ASSUME Disk, Moving, Posting, [PipelineNext]_pipelineVars
  PROVE  Disk'
<1> USE DEF disk, purging, posting, history, counts
<1>1. ASSUME NEW s \in Streams, Write(s) PROVE Disk'
  BY <1>1, NewNames, OutNames, PipelineAssumption DEF Write, Disk
<1>2. CASE NextPeriod
  BY <1>2, NewNames, OutNames, PipelineAssumption DEF NextPeriod, Disk
<1>3. ASSUME NEW s \in Streams, MoveStat(s) PROVE Disk'
  BY <1>3, NewNames, OutNames, PipelineAssumption, Zenon DEF MoveStat, Disk
<1>4. ASSUME NEW s \in Streams, MoveRename(s) PROVE Disk'
  <2>1. CASE NewFile(s) \notin there
    BY <1>4, <2>1, Zenon DEF MoveRename, Disk
  <2>2. CASE NewFile(s) \in there
    <3>1. mv[s] \in Names /\ NewFile(s) \in Names
      BY <1>4, NewNames, OutNames, Zenon DEF MoveRename, Moving
    <3>2. /\ there' = (there \ {NewFile(s)}) \cup {mv[s]}
          /\ data' = [data EXCEPT ![mv[s]] = data[NewFile(s)],
                                  ![NewFile(s)] = {}]
          /\ UNCHANGED <<period, written>>
      BY <1>4, <2>2, Zenon DEF MoveRename
    <3> QED  BY <3>1, <3>2, Zenon DEF Disk
  <2> QED  BY <2>1, <2>2, Zenon
<1>5. ASSUME NEW s \in Streams, KillMover(s) PROVE Disk'
  BY <1>5, NewNames, OutNames, PipelineAssumption, Zenon DEF KillMover, Disk
<1>6. CASE DiskFull
  BY <1>6, NewNames, OutNames, PipelineAssumption, Zenon DEF DiskFull, Disk
<1>7. ASSUME NEW n \in Names, PurgeFile(n) PROVE Disk'
  BY <1>7, NewNames, OutNames, PipelineAssumption, Zenon DEF PurgeFile,
     Remove, Disk
<1>8. CASE PurgeNext
  BY <1>8, NewNames, OutNames, PipelineAssumption, Zenon DEF PurgeNext, Disk
<1>9. CASE PostStart
  BY <1>9, NewNames, OutNames, PipelineAssumption, Zenon DEF PostStart, Disk
<1>10. ASSUME NEW n \in OutFiles, ListEntry(n) PROVE Disk'
  BY <1>10, NewNames, OutNames, PipelineAssumption DEF ListEntry, Remove, Disk
<1>11. CASE ListEnd
  BY <1>11, NewNames, OutNames, PipelineAssumption, Zenon DEF ListEnd, Disk
<1>12. CASE SendFile
  BY <1>12, NewNames, OutNames, PipelineAssumption, Zenon DEF SendFile, Disk
<1>13. CASE FileGone
  BY <1>13, NewNames, OutNames, PipelineAssumption, Zenon DEF FileGone, Leave,
     Disk
<1>14. CASE AnswerOk
  BY <1>14, NewNames, OutNames, PipelineAssumption, Zenon DEF AnswerOk, Disk
<1>15. CASE PostFails
  BY <1>15, NewNames, OutNames, PipelineAssumption, Zenon DEF PostFails,
     Leave, Disk
<1>16. CASE UnlinkFile
  BY <1>16, NewNames, OutNames, PipelineAssumption, Zenon
     DEF UnlinkFile, Remove, Disk
<1>17. CASE UnlinkEnd
  BY <1>17, NewNames, OutNames, PipelineAssumption, Zenon DEF UnlinkEnd,
     Leave, Disk
<1>18. CASE KillPost
  BY <1>18, NewNames, OutNames, PipelineAssumption, Zenon DEF KillPost, Leave,
     Disk
<1>19. CASE UNCHANGED pipelineVars
  BY <1>19, NewNames, OutNames, PipelineAssumption, Zenon DEF pipelineVars, Disk
<1> QED
  BY <1>1, <1>2, <1>3, <1>4, <1>5, <1>6, <1>7, <1>8, <1>9, <1>10, <1>11,
     <1>12, <1>13, <1>14, <1>15, <1>16, <1>17, <1>18, <1>19, Zenon
  DEF PipelineNext, Dfrm, Post

LEMMA NextMoving ==
  ASSUME Disk, Moving, Posting, [PipelineNext]_pipelineVars
  PROVE  Moving'
<1> USE DEF disk, purging, posting, history, counts
<1>1. ASSUME NEW s \in Streams, Write(s) PROVE Moving'
  BY <1>1, NewNames, OutNames DEF Write, Moving
<1>2. CASE NextPeriod
  BY <1>2, NewNames, OutNames, Zenon DEF NextPeriod, Moving
<1>3. ASSUME NEW s \in Streams, MoveStat(s) PROVE Moving'
  <2>1. Destination(s) \in OutOf(s) \ there
    BY <1>3, DestinationOut, Zenon DEF MoveStat, Disk
  <2> QED  BY <1>3, <2>1, OutNames DEF MoveStat, Moving
<1>4. ASSUME NEW s \in Streams, MoveRename(s) PROVE Moving'
  BY <1>4, NewNames, OutNames DEF MoveRename, Moving
<1>5. ASSUME NEW s \in Streams, KillMover(s) PROVE Moving'
  BY <1>5, NewNames, OutNames, Zenon DEF KillMover, Moving
<1>6. CASE DiskFull
  BY <1>6, NewNames, OutNames, Zenon DEF DiskFull, Moving
<1>7. ASSUME NEW n \in Names, PurgeFile(n) PROVE Moving'
  BY <1>7, NewNames, OutNames, Zenon DEF PurgeFile, Remove, Moving
<1>8. CASE PurgeNext
  BY <1>8, NewNames, OutNames, Zenon DEF PurgeNext, Moving
<1>9. CASE PostStart
  BY <1>9, NewNames, OutNames, Zenon DEF PostStart, Moving
<1>10. ASSUME NEW n \in OutFiles, ListEntry(n) PROVE Moving'
  BY <1>10, NewNames, OutNames, Zenon DEF ListEntry, Remove, Moving
<1>11. CASE ListEnd
  BY <1>11, NewNames, OutNames, Zenon DEF ListEnd, Moving
<1>12. CASE SendFile
  BY <1>12, NewNames, OutNames, Zenon DEF SendFile, Moving
<1>13. CASE FileGone
  BY <1>13, NewNames, OutNames, Zenon DEF FileGone, Leave, Moving
<1>14. CASE AnswerOk
  BY <1>14, NewNames, OutNames, Zenon DEF AnswerOk, Moving
<1>15. CASE PostFails
  BY <1>15, NewNames, OutNames, Zenon DEF PostFails, Leave, Moving
<1>16. CASE UnlinkFile
  BY <1>16, NewNames, OutNames, Zenon DEF UnlinkFile, Remove, Moving
<1>17. CASE UnlinkEnd
  BY <1>17, NewNames, OutNames, Zenon DEF UnlinkEnd, Leave, Moving
<1>18. CASE KillPost
  BY <1>18, NewNames, OutNames, Zenon DEF KillPost, Leave, Moving
<1>19. CASE UNCHANGED pipelineVars
  BY <1>19, NewNames, OutNames, Zenon DEF pipelineVars, Moving
<1> QED
  BY <1>1, <1>2, <1>3, <1>4, <1>5, <1>6, <1>7, <1>8, <1>9, <1>10, <1>11,
     <1>12, <1>13, <1>14, <1>15, <1>16, <1>17, <1>18, <1>19, Zenon
  DEF PipelineNext, Dfrm, Post

LEMMA NextPosting ==
  ASSUME Disk, Moving, Posting, [PipelineNext]_pipelineVars
  PROVE  Posting'
<1> USE DEF disk, purging, posting, history, counts
<1>1. ASSUME NEW s \in Streams, Write(s) PROVE Posting'
  <2>1. 1..written \subseteq 1..written'
    BY <1>1 DEF Write, Disk
  <2> QED  BY <1>1, <2>1, Zenon DEF Write, Posting
<1>2. CASE NextPeriod
  BY <1>2, NewNames, OutNames, Zenon DEF NextPeriod, Posting
<1>3. ASSUME NEW s \in Streams, MoveStat(s) PROVE Posting'
  BY <1>3, NewNames, OutNames, Zenon DEF MoveStat, Posting
<1>4. ASSUME NEW s \in Streams, MoveRename(s) PROVE Posting'
  BY <1>4, NewNames, OutNames, Zenon DEF MoveRename, Posting
<1>5. ASSUME NEW s \in Streams, KillMover(s) PROVE Posting'
  BY <1>5, NewNames, OutNames, Zenon DEF KillMover, Posting
<1>6. CASE DiskFull
  BY <1>6, NewNames, OutNames, Zenon DEF DiskFull, Posting
<1>7. ASSUME NEW n \in Names, PurgeFile(n) PROVE Posting'
  BY <1>7, NewNames, OutNames, Zenon DEF PurgeFile, Remove, Posting
<1>8. CASE PurgeNext
  BY <1>8, NewNames, OutNames, Zenon DEF PurgeNext, Posting
<1>9. CASE PostStart
  BY <1>9, NewNames, OutNames, Zenon DEF PostStart, Posting
<1>10. ASSUME NEW n \in OutFiles, ListEntry(n) PROVE Posting'
  BY <1>10, NewNames, OutNames, Zenon DEF ListEntry, Remove, Posting
<1>11. CASE ListEnd
  BY <1>11, NewNames, OutNames, Zenon DEF ListEnd, Posting
<1>12. CASE SendFile
  <2>1. First(tosend) \in Names
    BY <1>12, OutNames, Zenon DEF SendFile, Posting, Disk
  <2>2. data[First(tosend)] \subseteq 1..written
    BY <2>1, Zenon DEF Disk
  <2> QED  BY <1>12, <2>2, Zenon DEF SendFile, Posting
<1>13. CASE FileGone
  BY <1>13, NewNames, OutNames, Zenon DEF FileGone, Leave, Posting
<1>14. CASE AnswerOk
  BY <1>14, NewNames, OutNames, Zenon DEF AnswerOk, Posting
<1>15. CASE PostFails
  BY <1>15, NewNames, OutNames, Zenon DEF PostFails, Leave, Posting
<1>16. CASE UnlinkFile
  <2>1. PICK n : list' = list \ {n} /\ there' = there \ {n}
    BY <1>16, Zenon DEF UnlinkFile, Remove
  <2> QED  BY <1>16, <2>1, Zenon DEF UnlinkFile, Posting
<1>17. CASE UnlinkEnd
  BY <1>17, NewNames, OutNames, Zenon DEF UnlinkEnd, Leave, Posting
<1>18. CASE KillPost
  BY <1>18, NewNames, OutNames, Zenon DEF KillPost, Leave, Posting
<1>19. CASE UNCHANGED pipelineVars
  BY <1>19, NewNames, OutNames, Zenon DEF pipelineVars, Posting
<1> QED
  BY <1>1, <1>2, <1>3, <1>4, <1>5, <1>6, <1>7, <1>8, <1>9, <1>10, <1>11,
     <1>12, <1>13, <1>14, <1>15, <1>16, <1>17, <1>18, <1>19, Zenon
  DEF PipelineNext, Dfrm, Post

-----------------------------------------------------------------------------
(* What a step does to the files, name by name                             *)

LEMMA WriteDisk ==
  ASSUME Disk, NEW s \in Streams, Write(s)
  PROVE  /\ written' = written + 1 /\ there' = there \cup {NewFile(s)}
         /\ \A n \in Names : data'[n] = IF n = NewFile(s)
                                        THEN data[n] \cup {written + 1}
                                        ELSE data[n]
BY NewNames, Zenon DEF Write, Disk

LEMMA WriteLines ==
  ASSUME Disk, NEW s \in Streams, Write(s), NEW n \in Names, NEW l \in data'[n]
  PROVE  l \in data[n] \/ (l = written + 1 /\ n = NewFile(s))
<1>1. CASE n = NewFile(s)
  <2>1. data'[n] = data[n] \cup {written + 1}
    BY <1>1, WriteDisk, Zenon
  <2> QED  BY <1>1, <2>1, Zenon
<1>2. CASE n # NewFile(s)
  <2>1. data'[n] = data[n]
    BY <1>2, WriteDisk, Zenon
  <2> QED  BY <2>1, Zenon
<1> QED  BY <1>1, <1>2, Zenon

LEMMA MoveDisk ==
  ASSUME Disk, Moving, NEW s \in Streams, MoveRename(s), NewFile(s) \in there
  PROVE  /\ mv[s] \in OutFiles \ there
         /\ there' = (there \ {NewFile(s)}) \cup {mv[s]}
         /\ \A n \in Names : data'[n] = IF n = mv[s] THEN data[NewFile(s)]
                                        ELSE IF n = NewFile(s) THEN {}
                                        ELSE data[n]
<1>1. mv[s] \in OutFiles \ there
  BY OutNames, Zenon DEF MoveRename, Moving
<1>2. mv[s] \in Names /\ mv[s] # NewFile(s) /\ NewFile(s) \in Names
  BY <1>1, NewNames, OutNames, Zenon
<1> QED  BY <1>1, <1>2, Zenon DEF MoveRename, Disk

LEMMA RemoveDisk ==
  ASSUME Disk, NEW n \in Names, Remove(n)
  PROVE  /\ there' = there \ {n}
         /\ \A m \in Names : data'[m] = IF m = n THEN {} ELSE data[m]
BY Zenon DEF Remove, Disk

LEMMA LineTypes ==
  ASSUME Disk, Posting, Counting
  PROVE  /\ written \in Nat /\ 1..written \subseteq Lines
         /\ body \subseteq Lines
         /\ \A n \in Names : data[n] \subseteq Lines
         /\ \A l \in Lines : l \in Nat /\ received[l] \in Nat
BY PipelineAssumption DEF Disk, Posting, Counting, Lines

LEMMA GotAll ==
  ASSUME Counting, NEW b
  PROVE  \A l \in Lines : Got(b)[l] = IF l \in b THEN received[l] + 1
                                      ELSE received[l]
BY Zenon DEF Got, Counting

(* The name httppost removes next.                                         *)
LEMMA UnlinkOne ==
  ASSUME Posting, UnlinkFile
  PROVE  \E n \in list : /\ n \in Names /\ list' = list \ {n} /\ Remove(n)
                         /\ given' = IF n \in exposed THEN given \cup data[n]
                                     ELSE given
BY OutNames, Zenon DEF UnlinkFile, First, Posting

-----------------------------------------------------------------------------
(* The steps that change neither the files nor what was sent, and those    *)
(* with which httppost ends.                                               *)
Quiet ==
  /\ UNCHANGED <<there, data, written, list, tosend, body, received, exposed,
                 given>>
  /\ hp' = hp \/ (hp = "idle" /\ hp' = "list")
  /\ fails' \in {fails, fails + 1}

Leaving ==
  /\ UNCHANGED <<there, data, written, received, given>>
  /\ hp' = "idle" /\ list' = {} /\ tosend' = {} /\ body' = {}
  /\ fails' = fails + 1 \/ (fails' = fails /\ (hp = "unlink" => list = {}))

LEMMA Steps ==
  ASSUME [PipelineNext]_pipelineVars
  PROVE  \/ \E s \in Streams : Write(s) \/ MoveRename(s)
         \/ \E n \in Names : PurgeFile(n)
         \/ \E n \in OutFiles : ListEntry(n)
         \/ ListEnd \/ SendFile \/ AnswerOk \/ PostFails \/ UnlinkFile
         \/ Quiet \/ Leaving
<1> USE DEF disk, purging, posting, history, counts
<1>1. ASSUME NEW s \in Streams, MoveStat(s) \/ KillMover(s) PROVE Quiet
  BY <1>1, Zenon DEF MoveStat, KillMover, Quiet
<1>2. CASE NextPeriod \/ DiskFull \/ PurgeNext
  BY <1>2, Zenon DEF NextPeriod, DiskFull, PurgeNext, Quiet
<1>3. CASE PostStart
  BY <1>3, Zenon DEF PostStart, Quiet
<1>4. CASE UNCHANGED pipelineVars
  BY <1>4, Zenon DEF pipelineVars, Quiet
<1>5. CASE FileGone \/ UnlinkEnd \/ KillPost
  BY <1>5, Zenon DEF FileGone, UnlinkEnd, KillPost, Leave, Leaving
<1> QED  BY <1>1, <1>2, <1>3, <1>4, <1>5, Zenon DEF PipelineNext, Dfrm, Post

LEMMA NextCounting ==
  ASSUME Counting, [PipelineNext]_pipelineVars
  PROVE  Counting'
<1> USE DEF disk, purging, posting, history, counts
<1>1. ASSUME NEW s \in Streams, Write(s) PROVE Counting'
  BY <1>1, Zenon DEF Write, Counting
<1>2. ASSUME NEW s \in Streams, MoveRename(s) PROVE Counting'
  BY <1>2, Zenon DEF MoveRename, Counting
<1>3. ASSUME NEW n \in Names, PurgeFile(n) PROVE Counting'
  BY <1>3, Zenon DEF PurgeFile, Remove, Counting
<1>4. ASSUME NEW n \in OutFiles, ListEntry(n) PROVE Counting'
  BY <1>4, Zenon DEF ListEntry, Remove, Counting
<1>5. CASE ListEnd
  BY <1>5, Zenon DEF ListEnd, Counting
<1>6. CASE SendFile
  BY <1>6, Zenon DEF SendFile, Counting
<1>7. CASE AnswerOk
  BY <1>7 DEF AnswerOk, Got, Counting
<1>8. CASE PostFails
  BY <1>8 DEF PostFails, Got, Counting
<1>9. CASE UnlinkFile
  BY <1>9, Zenon DEF UnlinkFile, Remove, Counting
<1>10. CASE Quiet
  BY <1>10 DEF Quiet, Counting
<1>11. CASE Leaving
  BY <1>11 DEF Leaving, Counting
<1> QED  BY <1>1, <1>2, <1>3, <1>4, <1>5, <1>6, <1>7, <1>8, <1>9, <1>10,
         <1>11, Steps, Zenon

-----------------------------------------------------------------------------
(* No result vanishes                                                      *)

LEMMA NextCovered ==
  ASSUME Disk, Moving, Posting, Counting, Covered, [PipelineNext]_pipelineVars
  PROVE  Covered'
<1> USE DEF disk, purging, posting, history, counts
<1>1. ASSUME NEW s \in Streams, Write(s) PROVE Covered'
  <2>1. \A n \in list : data'[n] = data[n]
    BY <1>1, WriteDisk, NewNames, OutNames, ZenonT(30) DEF Posting
  <2> QED  BY <1>1, <2>1, Zenon DEF Write, Covered, Posting
<1>2. ASSUME NEW s \in Streams, MoveRename(s) PROVE Covered'
  <2>1. \A n \in list \ exposed : data'[n] = data[n]
    <3>1. CASE NewFile(s) \in there
      BY <1>2, <3>1, MoveDisk, NewNames, OutNames DEF Posting
    <3>2. CASE NewFile(s) \notin there
      BY <1>2, <3>2, Zenon DEF MoveRename
    <3> QED  BY <3>1, <3>2, Zenon
  <2> QED  BY <1>2, <2>1, Zenon DEF MoveRename, Covered
<1>3. ASSUME NEW n \in Names, PurgeFile(n) PROVE Covered'
  BY <1>3 DEF PurgeFile, Remove, Covered
<1>4. ASSUME NEW n \in OutFiles, ListEntry(n) PROVE Covered'
  BY <1>4, Zenon DEF ListEntry, Remove, Covered
<1>5. CASE ListEnd
  BY <1>5, Zenon DEF ListEnd, Covered
<1>6. CASE SendFile
  BY <1>6, Zenon DEF SendFile, Covered
<1>7. CASE AnswerOk
  <2>1. \A n \in list : n \in exposed \/ data[n] \subseteq body
    BY <1>7, Zenon DEF AnswerOk, Covered
  <2>2. \A l \in body : l \in Lines /\ received'[l] > 0
    BY <1>7, GotAll, LineTypes DEF AnswerOk
  <2> QED  BY <1>7, <2>1, <2>2, Zenon DEF AnswerOk, Covered
<1>8. CASE PostFails
  BY <1>8, Zenon DEF PostFails, Leave, Covered
<1>9. CASE UnlinkFile
  BY <1>9 DEF UnlinkFile, Remove, Covered
<1>10. CASE Quiet
  BY <1>10, Zenon DEF Quiet, Covered
<1>11. CASE Leaving
  BY <1>11, Zenon DEF Leaving, Covered
<1> QED  BY <1>1, <1>2, <1>3, <1>4, <1>5, <1>6, <1>7, <1>8, <1>9, <1>10,
         <1>11, Steps, Zenon

LEMMA NextVanishes ==
  ASSUME Disk, Moving, Posting, Counting, Covered, NoResultVanishes,
         [PipelineNext]_pipelineVars
  PROVE  NoResultVanishes'
<1> USE DEF disk, purging, posting, history, counts
<1>1. ASSUME NEW s \in Streams, Write(s) PROVE NoResultVanishes'
  <2> SUFFICES ASSUME NEW l \in 1..written'
               PROVE  \/ \E n \in there' : l \in data'[n]
                      \/ received'[l] > 0
                      \/ l \in given'
    BY Zenon DEF NoResultVanishes
  <2>1. l = written + 1 \/ l \in 1..written
    BY <1>1, WriteDisk DEF Disk
  <2>2. there \subseteq Names /\ UNCHANGED <<received, given>>
    BY <1>1, Zenon DEF Disk, Write
  <2> QED  BY <1>1, <2>1, <2>2, WriteDisk, NewNames, Zenon DEF NoResultVanishes
<1>2. ASSUME NEW s \in Streams, MoveRename(s) PROVE NoResultVanishes'
  <2> SUFFICES ASSUME NEW l \in 1..written, NEW n \in there, l \in data[n]
               PROVE  \E m \in there' : l \in data'[m]
    BY <1>2, Zenon DEF MoveRename, NoResultVanishes
  <2>1. CASE NewFile(s) \in there
    BY <1>2, <2>1, MoveDisk, NewNames, OutNames DEF Disk
  <2>2. CASE NewFile(s) \notin there
    BY <1>2, <2>2, Zenon DEF MoveRename
  <2> QED  BY <2>1, <2>2, Zenon
<1>3. ASSUME NEW n \in Names, PurgeFile(n) PROVE NoResultVanishes'
  BY <1>3 DEF PurgeFile, Remove, NoResultVanishes
<1>4. ASSUME NEW n \in OutFiles, ListEntry(n) PROVE NoResultVanishes'
  <2>1. UNCHANGED <<written, received>>
    BY <1>4, Zenon DEF ListEntry
  <2>2. CASE UNCHANGED <<there, data, given>>
    BY <2>1, <2>2, Zenon DEF NoResultVanishes
  <2>3. CASE Remove(n) /\ given' = given \cup data[n]
    BY <2>1, <2>3, RemoveDisk, OutNames, Zenon DEF NoResultVanishes, Disk
  <2> QED  BY <1>4, <2>2, <2>3, Zenon DEF ListEntry
<1>5. CASE ListEnd
  BY <1>5, Zenon DEF ListEnd, NoResultVanishes
<1>6. CASE SendFile
  BY <1>6, Zenon DEF SendFile, NoResultVanishes
<1>7. CASE AnswerOk
  <2>1. \A l \in 1..written : received[l] > 0 => received'[l] > 0
    BY <1>7, GotAll, LineTypes DEF AnswerOk
  <2> QED  BY <1>7, <2>1, Zenon DEF AnswerOk, NoResultVanishes
<1>8. CASE PostFails
  <2>1. \A l \in 1..written : received[l] > 0 => received'[l] > 0
    BY <1>8, GotAll, LineTypes, SMTT(30) DEF PostFails
  <2> QED  BY <1>8, <2>1, Zenon DEF PostFails, NoResultVanishes
<1>9. CASE UnlinkFile
  <2>1. PICK n \in list :
           /\ n \in Names /\ list' = list \ {n} /\ Remove(n)
           /\ given' = IF n \in exposed THEN given \cup data[n] ELSE given
    BY <1>9, UnlinkOne, Zenon
  <2>2. n \in exposed \/ \A l \in data[n] : received[l] > 0
    BY <1>9, Zenon DEF UnlinkFile, Covered
  <2>3. UNCHANGED <<written, received>>
    BY <1>9, Zenon DEF UnlinkFile
  <2> QED  BY <2>1, <2>2, <2>3, RemoveDisk, Zenon DEF NoResultVanishes, Disk
<1>10. CASE Quiet
  BY <1>10, Zenon DEF Quiet, NoResultVanishes
<1>11. CASE Leaving
  BY <1>11, Zenon DEF Leaving, NoResultVanishes
<1> QED  BY <1>1, <1>2, <1>3, <1>4, <1>5, <1>6, <1>7, <1>8, <1>9, <1>10,
         <1>11, Steps, Zenon

-----------------------------------------------------------------------------
(* Duplicates                                                              *)

LEMMA NextOnce ==
  ASSUME Disk, Moving, Posting, Counting, Once, [PipelineNext]_pipelineVars
  PROVE  Once'
<1> USE DEF disk, purging, posting, history, counts
<1>1. ASSUME NEW s \in Streams, Write(s) PROVE Once'
  <2>1. \A n \in Names : written + 1 \notin data[n] \cup body
    BY DEF Disk, Posting
  <2>2. UNCHANGED <<list, tosend, body>>
    BY <1>1, Zenon DEF Write
  <2>3. \A n, m \in Names : data'[n] \cap data'[m] # {} => n = m
    <3> SUFFICES ASSUME NEW n \in Names, NEW m \in Names,
                        NEW l \in data'[n], l \in data'[m]
                 PROVE  n = m
      BY Zenon
    <3>1. CASE l = written + 1
      BY <1>1, <2>1, <3>1, WriteLines, Zenon
    <3>2. CASE l # written + 1
      <4>1. l \in data[n] /\ l \in data[m]
        BY <1>1, <3>2, WriteLines, Zenon
      <4> QED  BY <4>1, Zenon DEF Once
    <3> QED  BY <3>1, <3>2, Zenon
  <2>4. \A n \in Names : data'[n] \cap body # {} => n \in list \ tosend
    BY <1>1, <2>1, WriteDisk, Zenon DEF Once
  <2> QED  BY <2>2, <2>3, <2>4, Zenon DEF Once
<1>2. ASSUME NEW s \in Streams, MoveRename(s) PROVE Once'
  <2>1. CASE NewFile(s) \notin there
    BY <1>2, <2>1, Zenon DEF MoveRename, Once
  <2>2. CASE NewFile(s) \in there
    <3>1. UNCHANGED <<list, tosend, body>>
      BY <1>2, Zenon DEF MoveRename
    <3>2. NewFile(s) \in Names /\ NewFile(s) \notin list
      BY NewNames, Zenon DEF Posting
    <3>3. data[NewFile(s)] \cap body = {}
      BY <3>2, Zenon DEF Once
    <3> QED  BY <1>2, <2>2, <3>1, <3>2, <3>3, MoveDisk, OutNames DEF Once
  <2> QED  BY <2>1, <2>2, Zenon
<1>3. ASSUME NEW n \in Names, PurgeFile(n) PROVE Once'
  BY <1>3, SMTT(30) DEF PurgeFile, Remove, Once
<1>4. ASSUME NEW n \in OutFiles, ListEntry(n) PROVE Once'
  <2>1. body = {} /\ body' = body
    BY <1>4, Zenon DEF ListEntry, Posting
  <2>2. CASE UNCHANGED data
    BY <2>1, <2>2, Zenon DEF Once
  <2>3. CASE Remove(n)
    BY <2>1, <2>3, RemoveDisk, OutNames DEF Once
  <2> QED  BY <1>4, <2>2, <2>3, Zenon DEF ListEntry
<1>5. CASE ListEnd
  <2>1. body = {} /\ UNCHANGED <<body, data>>
    BY <1>5, Zenon DEF ListEnd, Posting
  <2> QED  BY <2>1, Zenon DEF Once
<1>6. CASE SendFile
  <2>1. First(tosend) \in tosend /\ First(tosend) \in list
    BY <1>6, FirstIn, Zenon DEF SendFile, Posting
  <2>2. First(tosend) \in Names
    BY <2>1, OutNames, Zenon DEF Posting
  <2> QED  BY <1>6, <2>1, <2>2, Zenon DEF SendFile, Once
<1>7. CASE AnswerOk
  BY <1>7, Zenon DEF AnswerOk, Once
<1>8. CASE PostFails
  BY <1>8, Zenon DEF PostFails, Leave, Once
<1>9. CASE UnlinkFile
  <2>1. PICK n \in list : n \in Names /\ Remove(n)
    BY <1>9, UnlinkOne, Zenon
  <2>2. body = {} /\ body' = body
    BY <1>9, Zenon DEF UnlinkFile, Posting
  <2> QED  BY <2>1, <2>2, RemoveDisk DEF Once
<1>10. CASE Quiet
  BY <1>10, Zenon DEF Quiet, Once
<1>11. CASE Leaving
  BY <1>11, Zenon DEF Leaving, Once
<1> QED  BY <1>1, <1>2, <1>3, <1>4, <1>5, <1>6, <1>7, <1>8, <1>9, <1>10,
         <1>11, Steps, Zenon

LEMMA NextBounded ==
  ASSUME Disk, Moving, Posting, Counting, Once, Bounded, [PipelineNext]_pipelineVars
  PROVE  Bounded'
<1> USE DEF disk, purging, posting, history, counts
<1> fails \in Nat
  BY Zenon DEF Counting
<1>1. ASSUME NEW s \in Streams, Write(s) PROVE Bounded'
  <2>1. UNCHANGED <<received, fails, hp, list, body>>
    BY <1>1, Zenon DEF Write
  <2>2. written + 1 \in Lines
    BY <1>1, PipelineAssumption DEF Write, Lines, Disk
  <2>3. received[written + 1] = 0
    BY <2>2, LineTypes DEF Bounded
  <2>4. \A n \in Names : \A l \in data'[n] :
           received[l] <= fails \/ (hp = "unlink" /\ n \in list)
    <3> SUFFICES ASSUME NEW n \in Names, NEW l \in data'[n]
                 PROVE  received[l] <= fails \/ (hp = "unlink" /\ n \in list)
      BY Zenon
    <3>1. l \in data[n] \/ l = written + 1
      BY <1>1, WriteLines, Zenon
    <3>2. CASE l \in data[n]
      BY <3>2, Zenon DEF Bounded
    <3>3. CASE l = written + 1
      BY <3>3, <2>3, SMTT(30)
    <3> QED  BY <3>1, <3>2, <3>3, Zenon
  <2>5. \A l \in Lines : l > written' => received[l] = 0
    BY <1>1, WriteDisk, LineTypes DEF Bounded
  <2> QED  BY <2>1, <2>4, <2>5, Zenon DEF Bounded
<1>2. ASSUME NEW s \in Streams, MoveRename(s) PROVE Bounded'
  <2>1. UNCHANGED <<received, fails, hp, list, body, written>>
    BY <1>2, Zenon DEF MoveRename
  <2>2. CASE NewFile(s) \notin there
    BY <1>2, <2>1, <2>2, Zenon DEF MoveRename, Bounded
  <2>3. CASE NewFile(s) \in there
    <3>1. NewFile(s) \in Names /\ NewFile(s) \notin list
      BY NewNames, Zenon DEF Posting
    <3>2. \A l \in data[NewFile(s)] : received[l] <= fails
      BY <3>1, Zenon DEF Bounded
    <3>3. \A n \in Names : \A l \in data'[n] :
             received[l] <= fails \/ (hp = "unlink" /\ n \in list)
      BY <1>2, <2>3, <3>2, MoveDisk, SMTT(30) DEF Bounded
    <3> QED  BY <2>1, <3>3, Zenon DEF Bounded
  <2> QED  BY <2>2, <2>3, Zenon
<1>3. ASSUME NEW n \in Names, PurgeFile(n) PROVE Bounded'
  BY <1>3 DEF PurgeFile, Remove, Bounded
<1>4. ASSUME NEW n \in OutFiles, ListEntry(n) PROVE Bounded'
  <2>1. UNCHANGED <<received, fails, hp, body, written>> /\ hp = "list"
    BY <1>4, Zenon DEF ListEntry
  <2>2. \A m \in Names : data'[m] \subseteq data[m]
    <3>1. CASE UNCHANGED data
      BY <3>1, Zenon
    <3>2. CASE Remove(n)
      BY <3>2, RemoveDisk, OutNames, Zenon
    <3> QED  BY <1>4, <3>1, <3>2, Zenon DEF ListEntry
  <2> QED  BY <2>1, <2>2, Zenon DEF Bounded
<1>5. CASE ListEnd
  BY <1>5, Zenon DEF ListEnd, Bounded
<1>6. CASE SendFile
  <2>1. UNCHANGED <<received, fails, hp, written, data, list>> /\ hp = "send"
    BY <1>6, Zenon DEF SendFile
  <2>2. First(tosend) \in Names
    BY <1>6, FirstIn, OutNames, Zenon DEF SendFile, Posting
  <2>3. body' = body \cup data[First(tosend)]
    BY <1>6, Zenon DEF SendFile
  <2>4. \A l \in body' : received[l] <= fails
    BY <2>1, <2>2, <2>3, Zenon DEF Bounded
  <2> QED  BY <2>1, <2>4, Zenon DEF Bounded
<1>7. CASE AnswerOk
  <2>1. /\ UNCHANGED <<fails, written, data, list>>
        /\ hp' = "unlink" /\ tosend = {} /\ body' = {} /\ received' = Got(body)
        /\ hp = "send"
    BY <1>7, Zenon DEF AnswerOk
  <2>2. \A l \in Lines : received'[l] = IF l \in body THEN received[l] + 1
                                        ELSE received[l]
    BY <2>1, GotAll, Zenon
  <2>3. \A l \in Lines : received'[l] <= 1 + fails
    BY <2>2, LineTypes, SMTT(30) DEF Bounded
  <2>4. \A l \in Lines : l > written => received'[l] = 0
    BY <2>2, LineTypes, SMTT(30) DEF Bounded, Posting
  <2>5. \A n \in Names : \A l \in data[n] :
           received'[l] <= fails \/ n \in list
    BY <2>1, <2>2, LineTypes, Zenon DEF Bounded, Once
  <2> QED  BY <2>1, <2>3, <2>4, <2>5, Zenon DEF Bounded
<1>8. CASE PostFails
  <2>1. /\ UNCHANGED <<written, data>> /\ hp' = "idle" /\ body' = {}
        /\ hp = "send" /\ fails' = fails + 1
        /\ received' = received \/ received' = Got(body)
    BY <1>8, Zenon DEF PostFails, Leave
  <2>2. \A l \in Lines : \/ received'[l] = received[l]
                         \/ l \in body /\ received'[l] = received[l] + 1
    BY <2>1, GotAll, SMTT(30)
  <2>3. \A l \in Lines : received'[l] <= 1 + fails'
    BY <2>1, <2>2, LineTypes, SMTT(30) DEF Bounded
  <2>4. \A l \in Lines : l > written => received'[l] = 0
    BY <2>2, LineTypes, SMTT(30) DEF Bounded, Posting
  <2>5. \A n \in Names : \A l \in data[n] : received'[l] <= fails'
    BY <2>1, <2>2, LineTypes, SMTT(30) DEF Bounded
  <2> QED  BY <2>1, <2>3, <2>4, <2>5, Zenon DEF Bounded
<1>9. CASE UnlinkFile
  <2>1. PICK n \in list : n \in Names /\ Remove(n) /\ list' = list \ {n}
    BY <1>9, UnlinkOne, Zenon
  <2>2. UNCHANGED <<received, fails, hp, body, written>>
    BY <1>9, Zenon DEF UnlinkFile
  <2>3. \A m \in Names : \A l \in data'[m] : l \in data[m] /\ m # n
    BY <2>1, RemoveDisk, Zenon
  <2> QED  BY <2>1, <2>2, <2>3, Zenon DEF Bounded
<1>10. CASE Quiet
  BY <1>10, LineTypes, SMTT(30) DEF Quiet, Bounded
<1>11. CASE Leaving
  BY <1>11, LineTypes DEF Leaving, Bounded
<1> QED  BY <1>1, <1>2, <1>3, <1>4, <1>5, <1>6, <1>7, <1>8, <1>9, <1>10,
         <1>11, Steps, Zenon

-----------------------------------------------------------------------------
LEMMA PipelineInvariance == PipelineSpec => []PipelineIInv
<1>1. ASSUME PipelineIInv, [PipelineNext]_pipelineVars PROVE PipelineIInv'
  BY <1>1, NextDisk, NextMoving, NextPosting, NextCounting, NextCovered,
     NextVanishes, NextOnce, NextBounded, Zenon DEF PipelineIInv
<1> QED  BY PipelineInitIInv, <1>1, PTL DEF PipelineSpec

(* Whatever order writing, moving, posting and purging interleave in and   *)
(* whoever is killed, every result is on the disk, with the controller, or *)
(* given up by dfrm or do_dir.                                             *)
THEOREM ResultsKept == PipelineSpec => []NoResultVanishes
<1>1. PipelineIInv => NoResultVanishes
  BY Zenon DEF PipelineIInv
<1> QED  BY <1>1, PipelineInvariance, PTL

(* The controller gets a result more than once only after a failed post or *)
(* a kill, and at most once more for each.                                 *)
THEOREM FewDuplicates == PipelineSpec => []DuplicatesNeedFailure
<1>1. PipelineIInv => DuplicatesNeedFailure
  BY Zenon DEF PipelineIInv, Bounded, DuplicatesNeedFailure
<1> QED  BY <1>1, PipelineInvariance, PTL
=============================================================================
