-------------------------------- MODULE Eperd --------------------------------
(***************************************************************************)
(* The scheduler of eperd: a list of crontab lines, each with a test that  *)
(* is to be started once per interval between a start and an end time, on  *)
(* the wall clock, at a moment spread around the start of the interval.    *)
(*                                                                         *)
(* The wall clock (now) may be stepped; libevent's timers count on the     *)
(* monotonic clock, so a timer is the number of ticks it still has to run. *)
(* The event loop may be late: a timer that is due is served within        *)
(* MaxLate ticks.  Seconds are ticks; the microseconds, which set_timeout  *)
(* carries along exactly, are left out.                                    *)
(*                                                                         *)
(* A line is known by what Insert compares (interval, start time, command),*)
(* so Lines are those keys and lines[l] is what eperd keeps about it.      *)
(***************************************************************************)
EXTENDS Integers, FiniteSets

CONSTANTS Lines,
          Interval, StartTime, Param,   \* the fields of each line
          Loads,      \* line -> how atlas_init ends: "ok", "no test", "no command"
          Programs,   \* what the controller may have in store: sets of
                      \* crontabs, which map a line to its end time or None
          Slack,      \* 10 seconds in the code
          MaxLate,    \* how late the event loop may be
          ClockSteps, \* the wall clock may be set
          MaxTime     \* bound: last tick

None == -1

ASSUME EperdAssumption ==
  /\ Interval \in [Lines -> Nat \ {0}]
  /\ StartTime \in [Lines -> Nat]
  /\ Param \in [Lines -> Nat]
  /\ Loads \in [Lines -> {"ok", "no test", "no command"}]
  /\ \A p \in Programs : p \subseteq [Lines -> Nat \cup {None}]
  /\ Slack \in Nat /\ MaxLate \in Nat /\ MaxTime \in Nat
  /\ ClockSteps \in BOOLEAN

VARIABLES
  now,      \* the wall clock
  late,     \* ticks for which some timer has been due
  program,  \* the crontabs of this controller
  crontab,  \* line -> its end time in the file read last, or None
  lines,    \* line -> what LineBase holds about it
  last,     \* line -> the cycle it was started for last, or None if it was
            \*         not, or was not scheduled at some time since
  missed,   \* the lines found off their time since they were last started
  stepped   \* the clock was set since the file was read

vars == <<now, late, program, crontab, lines, last, missed, stepped>>

Gone == [present |-> FALSE, needs_delete |-> FALSE, busy |-> FALSE,
         nextcycle |-> 0, offset |-> 0, nexttime |-> 0, end |-> 0,
         timer |-> None]

(* atlas_init: a command that is not found or cannot be split has no       *)
(* testops; one whose init function fails has those but no test.           *)
HasOps(l) == Loads[l] # "no command"
HasTest(l) == Loads[l] = "ok"

(* The cycle after the current one.                                        *)
CycleAfter(l, t) == (t - StartTime[l]) \div Interval[l] + 1

(* do_distr: 0 .. Param less half of Param; and a draw for each line of S.  *)
Offsets(l) == {r - (Param[l] \div 2) : r \in 0..Param[l]}

Draws(S) == {d \in [S -> UNION {Offsets(l) : l \in S}] :
               \A l \in S : d[l] \in Offsets(l)}

(* set_timeout without and with init_next_cycle: the line r afterwards, if *)
(* do_distr draws offset.  An expired line keeps the timer it has, if any. *)
Schedule(l, r, cycle, offset) ==
  LET nexttime == cycle * Interval[l] + StartTime[l] + offset
  IN [r EXCEPT !.nextcycle = cycle, !.offset = offset, !.nexttime = nexttime,
               !.timer = IF nexttime > now THEN nexttime - now ELSE 0]

SetTimeout(l, r) ==
  IF now > r.end THEN r ELSE Schedule(l, r, r.nextcycle, r.offset)

InitTimeout(l, r, offset) ==
  LET cycle == IF now < StartTime[l] THEN 0 ELSE CycleAfter(l, now)
  IN IF now > r.end THEN r ELSE Schedule(l, r, cycle, offset)

(* Mutant: a line found again is not scheduled again.                      *)
InsertUnscheduled(l, r, end, offset) ==
  IF r.present
  THEN [r EXCEPT !.end = end, !.needs_delete = FALSE]
  ELSE LET new == [Gone EXCEPT !.present = TRUE, !.end = end]
       IN IF ~HasOps(l) THEN new ELSE InitTimeout(l, new, offset)

(* Mutant: a line found again is scheduled as if it were new.              *)
InsertReset(l, r, end, offset) ==
  InitTimeout(l, [r EXCEPT !.present = TRUE, !.end = end, !.needs_delete = FALSE], offset)

(* A line of the file: Insert finds the line in the list, gives it its new *)
(* end time and schedules it again as it was; or Start creates its test    *)
(* and schedules it, unless there is no such command.                      *)
Insert(l, r, end, offset) ==
  IF r.present
  THEN SetTimeout(l, [r EXCEPT !.end = end, !.needs_delete = FALSE])
  ELSE LET new == [Gone EXCEPT !.present = TRUE, !.end = end]
       IN IF ~HasOps(l) THEN new ELSE InitTimeout(l, new, offset)

(* DeleteFile, for a line that is not in the file: its test refuses to be  *)
(* deleted while it is busy, and the line stays behind marked.             *)
Delete(l, r) ==
  IF r.busy THEN [r EXCEPT !.needs_delete = TRUE] ELSE Gone

(* SynchronizeFile: every line in the list is marked, those of the file    *)
(* are unmarked or added, and DeleteFile removes what is still marked.  A  *)
(* file that is not there is an empty one.                                 *)
Load(old) ==
  /\ crontab' \in program
  /\ \E draw \in Draws({l \in Lines : crontab'[l] # None /\ ~old[l].present}) :
       lines' = [l \in Lines |-> IF crontab'[l] = None THEN Delete(l, old[l])
                                 ELSE Insert(l, old[l], crontab'[l],
                                             IF old[l].present THEN 0 ELSE draw[l])]
  /\ last' = [l \in Lines |-> IF crontab'[l] # None /\ old[l].timer # None
                              THEN last[l] ELSE None]
  /\ stepped' = FALSE
  /\ late' = IF \E l \in Lines : lines'[l].timer = 0 THEN late ELSE 0
  /\ UNCHANGED <<now, program, missed>>

Init ==
  /\ now = 0 /\ late = 0
  /\ program \in Programs
  /\ crontab = [l \in Lines |-> None]
  /\ lines = [l \in Lines |-> Gone]
  /\ last = [l \in Lines |-> None]
  /\ missed = {}
  /\ stepped = FALSE

(* CheckUpdates with a notice, CheckUpdatesHour, and a new eperd.          *)
Synchronize == Load(lines)
EperdRestart == Load([l \in Lines |-> Gone])

(* The test is started, and the next cycle is the one after this that has  *)
(* not begun, at a new offset.                                             *)
Started(l, r, offset) ==
  LET n == r.nextcycle + 1
      cycle == IF StartTime[l] + n * Interval[l] < now THEN CycleAfter(l, now) ELSE n
  IN SetTimeout(l, [r EXCEPT !.busy = TRUE, !.nextcycle = cycle, !.offset = offset])

Inconsistent(r) == now < r.nexttime - Slack \/ now > r.nexttime + Slack

(* Mutant: a line that is to be deleted is run.                            *)
RunsMarked(l, r) == ~Inconsistent(r) /\ now <= r.end /\ HasTest(l)

Runs(l, r) ==
  ~r.needs_delete /\ ~Inconsistent(r) /\ now <= r.end /\ HasTest(l)

(* The timer of a line.  A line off its time (clock or loop) is scheduled  *)
(* anew; one that is to be deleted, has expired or has no test is not.     *)
RunJob(l) ==
  /\ lines[l].timer = 0
  /\ LET r == [lines[l] EXCEPT !.timer = None]
     IN /\ \E offset \in Offsets(l) :
             lines' = [lines EXCEPT ![l] =
                IF Runs(l, r) THEN Started(l, r, offset)
                ELSE IF ~r.needs_delete /\ Inconsistent(r) THEN InitTimeout(l, r, offset)
                ELSE r]
        /\ last' = IF Runs(l, r) THEN [last EXCEPT ![l] = r.nextcycle] ELSE last
        /\ missed' = IF Runs(l, r) THEN missed \ {l}
                     ELSE IF Inconsistent(r) THEN missed \cup {l} ELSE missed
  /\ late' = IF \E k \in Lines : lines'[k].timer = 0 THEN late ELSE 0
  /\ UNCHANGED <<now, program, crontab, stepped>>

(* The test calls done, or finishes on its own.                            *)
TestDone(l) ==
  /\ lines[l].busy
  /\ lines' = [lines EXCEPT ![l].busy = FALSE]
  /\ UNCHANGED <<now, late, program, crontab, last, missed, stepped>>

Tick ==
  /\ now < MaxTime
  /\ now' = now + 1
  /\ IF \E l \in Lines : lines[l].timer = 0
     THEN late < MaxLate /\ late' = late + 1
     ELSE late' = late
  /\ lines' = [l \in Lines |-> [lines[l] EXCEPT !.timer = IF @ > 0 THEN @ - 1 ELSE @]]
  /\ UNCHANGED <<program, crontab, last, missed, stepped>>

(* The clock is set; what cycles were before means nothing any more.       *)
StepClock ==
  /\ ClockSteps
  /\ now' \in 0..MaxTime
  /\ stepped' = TRUE
  /\ last' = [l \in Lines |-> None]
  /\ UNCHANGED <<late, program, crontab, lines, missed>>

Next ==
  \/ Synchronize \/ EperdRestart \/ Tick \/ StepClock
  \/ \E l \in Lines : RunJob(l) \/ TestDone(l)

Spec == Init /\ [][Next]_vars

-----------------------------------------------------------------------------
(* A line of the crontab that has a test and has not expired has a timer,  *)
(* whatever happened before: it was removed while its test was busy and    *)
(* put back, it had expired and got a later end, the loop was late.  Only  *)
(* setting the clock can leave it without one, until the file is read      *)
(* again (once an hour).                                                   *)
Armed ==
  \A l \in Lines :
     ~stepped /\ crontab[l] # None /\ now <= crontab[l] /\ HasTest(l)
        => lines[l].timer # None

(* A test is never due more than an interval before its cycle begins, give *)
(* or take the tolerance.                                                  *)
Moderate(l) == Param[l] \div 2 <= Interval[l] + Slack

(* The next cycle of a line with a moderate spread is one the test was not *)
(* started for: reading the file again, being late or being found off its  *)
(* time never repeats a cycle.  (The file may ask for any spread.  A line  *)
(* with a wider one that RunJob finds off its time can be scheduled for a  *)
(* cycle it ran for, because the cycle after the current one is not later  *)
(* than the one it was started for ahead of time.)                         *)
NoCycleTwice ==
  \A l \in Lines : Moderate(l) /\ last[l] # None /\ lines[l].timer # None
                      => lines[l].nextcycle > last[l]

(* The spread and the lateness eperd tolerates stay within the interval.   *)
Narrow(l) == (Param[l] + 1) \div 2 + Slack <= Interval[l]

(* No cycle of a narrow line is skipped, however often the file is read    *)
(* again, unless the clock was set (last) or the line was found off its    *)
(* time.                                                                   *)
NoCycleSkipped ==
  \A l \in Lines : Narrow(l) /\ l \notin missed /\ last[l] # None /\ lines[l].timer # None
                      => lines[l].nextcycle = last[l] + 1

(* A test is started only for a line that is in the crontab read last and  *)
(* before the end time given there, also when a timer set for an earlier   *)
(* crontab is still running.                                               *)
OnlyScheduledRuns ==
  [][\A l \in Lines : last'[l] # last[l] /\ last'[l] # None
        => crontab[l] # None /\ now <= crontab[l]]_vars
=============================================================================
