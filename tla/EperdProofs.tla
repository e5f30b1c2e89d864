----------------------------- MODULE EperdProofs -----------------------------
(***************************************************************************)
(* For any crontabs, any spread and any lateness: a line that is to run    *)
(* has a timer, a line that is not to run is not started, no cycle is      *)
(* started twice, and none of a narrow line is skipped.                    *)
(***************************************************************************)
EXTENDS Eperd, TLAPS

Flag == BOOLEAN

(* A line of LineBase.                                                     *)
LineRec ==
  [present : Flag, needs_delete : Flag, busy : Flag, nextcycle : Nat,
   offset : Int, nexttime : Int, end : Int, timer : Int]

Types ==
  /\ now \in Nat
  /\ program \in Programs /\ crontab \in [Lines -> Nat \cup {None}]
  /\ lines \in [Lines -> LineRec]
  /\ last \in [Lines -> Nat \cup {None}]
  /\ stepped \in BOOLEAN

(* What the list says of a line agrees with the crontab read last: its end *)
(* time, and a line that is no longer there has no timer or is marked.     *)
Kept(l, c, r) ==
  /\ r.timer # None => r.present
  /\ c # None => r.present /\ ~r.needs_delete /\ r.end = c
  /\ c = None => r.needs_delete \/ r.timer = None

Agrees == \A l \in Lines : Kept(l, crontab[l], lines[l])

(* A timer set since the clock was set last ends at nexttime.              *)
OnTime(r, t) ==
  /\ r.timer >= None
  /\ r.timer > 0 => t + r.timer = r.nexttime
  /\ r.timer = 0 => t >= r.nexttime

(* The start of a cycle, and the offset.                                   *)
NextTime(l, c, o) == c * Interval[l] + StartTime[l] + o

(* A line that has a timer and was started for cycle c since the clock was *)
(* set last.                                                               *)
Ahead(l, r, c, t) ==
  /\ OnTime(r, t)
  /\ r.nexttime = NextTime(l, r.nextcycle, r.offset)
  /\ r.offset \in Offsets(l)
  /\ r.nextcycle > c

Accurate ==
  \A l \in Lines : Moderate(l) /\ last[l] # None /\ lines[l].timer # None =>
     Ahead(l, lines[l], last[l], now)

IInv == Types /\ Agrees /\ Armed /\ Accurate

LEMMA Flags == TRUE \in Flag /\ FALSE \in Flag
BY Zenon DEF Flag

-----------------------------------------------------------------------------
(* Arithmetic                                                              *)

LEMMA Division ==
  ASSUME NEW t \in Int, NEW i \in Nat \ {0}
  PROVE  /\ t \div i \in Int
         /\ (t \div i) * i <= t
         /\ t < (t \div i) * i + i
OBVIOUS

LEMMA Monotone ==
  ASSUME NEW a \in Int, NEW b \in Int, NEW i \in Nat \ {0}, a * i < b * i + i
  PROVE  a <= b
<1> SUFFICES ASSUME a >= b + 1 PROVE FALSE
  OBVIOUS
<1>1. PICK d \in Nat : a = b + 1 + d
  <2>1. a - b - 1 \in Nat
    OBVIOUS
  <2> QED  BY <2>1
<1>2. a * i = b * i + i + d * i
  BY <1>1
<1>3. d * i >= 0
  OBVIOUS
<1> QED  BY <1>2, <1>3

LEMMA OffsetRange ==
  ASSUME NEW l \in Lines, NEW o \in Offsets(l)
  PROVE  o \in Int /\ (Moderate(l) => o >= -(Interval[l] + Slack))
<1> DEFINE h == Param[l] \div 2
<1>1. Param[l] \in Nat /\ Interval[l] \in Nat \ {0} /\ Slack \in Nat
  BY EperdAssumption, Zenon
<1>2. h \in Int /\ (Moderate(l) => h <= Interval[l] + Slack)
  <2>1. 2 \in Nat \ {0} /\ Param[l] \in Int
    BY <1>1
  <2>2. h \in Int
    BY <2>1, Division, Zenon
  <2> QED  BY <2>2, Zenon DEF Moderate
<1>3. PICK r \in 0..Param[l] : o = r - h
  BY Zenon DEF Offsets
<1> HIDE DEF h
<1> QED  BY <1>1, <1>2, <1>3

LEMMA Fields ==
  ASSUME NEW l \in Lines
  PROVE  /\ Interval[l] \in Nat \ {0} /\ StartTime[l] \in Nat
         /\ None \in Int /\ Slack \in Nat
<1>1. None \in Int
  BY DEF None
<1> QED  BY <1>1, EperdAssumption, Zenon

LEMMA CycleType ==
  ASSUME NEW l \in Lines, NEW t \in Int, t >= StartTime[l]
  PROVE  CycleAfter(l, t) \in Nat
<1> DEFINE i == Interval[l]
           d == t - StartTime[l]
           c == d \div i
<1>1. i \in Nat \ {0} /\ d \in Nat /\ d \in Int
  BY Fields
<1>2. c \in Int /\ d < c * i + i
  BY <1>1, Division, Zenon
<1>3. 0 <= c
  <2> HIDE DEF c, d, i
  <2>1. c * i \in Int /\ 0 * i = 0
    BY <1>1, <1>2
  <2>2. 0 * i < c * i + i
    BY <1>1, <1>2, <2>1
  <2> QED  BY <1>1, <1>2, <2>2, Monotone
<1> QED  BY <1>2, <1>3 DEF CycleAfter

(* The cycle after time t, if cycle n began before t.                      *)
LEMMA CycleLater ==
  ASSUME NEW l \in Lines, NEW t \in Int, NEW n \in Int,
         StartTime[l] + n * Interval[l] < t
  PROVE  CycleAfter(l, t) >= n + 1
<1> DEFINE i == Interval[l]
           d == t - StartTime[l]
           c == d \div i
<1>1. i \in Nat \ {0} /\ d \in Int
  BY Fields
<1>2. c \in Int /\ d < c * i + i
  BY <1>1, Division, Zenon
<1>3. n * i < d
  BY <1>1, Fields
<1>4. n * i < c * i + i
  <2> HIDE DEF c, d, i
  <2>1. n * i \in Int /\ c * i \in Int
    BY <1>1, <1>2
  <2> QED  BY <1>1, <1>2, <1>3, <2>1
<1>5. n <= c
  <2> HIDE DEF c, d, i
  <2> QED  BY <1>1, <1>2, <1>4, Monotone, Zenon
<1> QED  BY <1>5, <1>2 DEF CycleAfter

-----------------------------------------------------------------------------
(* Fields of a line that are set                                           *)

LEMMA LineEnd ==
  ASSUME NEW r \in LineRec, NEW c \in Int, NEW f \in Flag
  PROVE  [r EXCEPT !.end = c, !.needs_delete = f] \in LineRec
BY Zenon DEF LineRec

LEMMA LineNew ==
  ASSUME NEW r \in LineRec, NEW c \in Int, NEW f \in Flag
  PROVE  [r EXCEPT !.present = f, !.end = c] \in LineRec
BY Zenon DEF LineRec

LEMMA LineMarked ==
  ASSUME NEW r \in LineRec, NEW f \in Flag
  PROVE  [r EXCEPT !.needs_delete = f] \in LineRec
BY Zenon DEF LineRec

LEMMA LineIdle ==
  ASSUME NEW r \in LineRec, NEW f \in Flag
  PROVE  [r EXCEPT !.busy = f] \in LineRec
BY Zenon DEF LineRec

LEMMA GoneLine == Gone \in LineRec /\ Gone.timer = None /\ ~Gone.present
BY DEF Gone, LineRec, None, Flag

-----------------------------------------------------------------------------
(* What set_timeout does to a line                                         *)

LEMMA ScheduleLine ==
  ASSUME now \in Nat, NEW l \in Lines, NEW r \in LineRec, NEW c, NEW o,
         c \in Nat, o \in Int
  PROVE  /\ Schedule(l, r, c, o) \in LineRec
         /\ Schedule(l, r, c, o).timer # None
         /\ OnTime(Schedule(l, r, c, o), now)
         /\ Schedule(l, r, c, o).nexttime = NextTime(l, c, o)
         /\ Schedule(l, r, c, o).offset = o
         /\ Schedule(l, r, c, o).nextcycle = c
         /\ Schedule(l, r, c, o).present = r.present
         /\ Schedule(l, r, c, o).needs_delete = r.needs_delete
         /\ Schedule(l, r, c, o).end = r.end
<1> DEFINE nt == NextTime(l, c, o)
           tm == IF nt > now THEN nt - now ELSE 0
<1>1. nt \in Int
  BY Fields DEF NextTime
<1>2. tm \in Int /\ tm # None /\ tm >= None
  <2> HIDE DEF nt
  <2> QED  BY <1>1 DEF None
<1>3. Schedule(l, r, c, o) = [r EXCEPT !.nextcycle = c, !.offset = o,
                                       !.nexttime = nt, !.timer = tm]
  BY Zenon DEF Schedule, NextTime
<1>4. (tm > 0 => now + tm = nt) /\ (tm = 0 => now >= nt)
  <2> HIDE DEF nt
  <2> QED  BY <1>1
<1> HIDE DEF nt, tm
<1>5. Schedule(l, r, c, o) \in LineRec
  BY <1>1, <1>2, <1>3, Zenon DEF LineRec
<1>6. /\ Schedule(l, r, c, o).timer = tm
      /\ Schedule(l, r, c, o).nexttime = nt
      /\ Schedule(l, r, c, o).offset = o
      /\ Schedule(l, r, c, o).nextcycle = c
      /\ Schedule(l, r, c, o).present = r.present
      /\ Schedule(l, r, c, o).needs_delete = r.needs_delete
      /\ Schedule(l, r, c, o).end = r.end
  BY <1>3, Zenon DEF LineRec
<1>7. OnTime(Schedule(l, r, c, o), now)
  BY <1>2, <1>4, <1>6, Zenon DEF OnTime
<1> QED  BY <1>2, <1>5, <1>6, <1>7, Zenon DEF nt

LEMMA SetTimeoutLine ==
  ASSUME now \in Nat, NEW l \in Lines, NEW r \in LineRec
  PROVE  /\ SetTimeout(l, r) \in LineRec
         /\ SetTimeout(l, r).present = r.present
         /\ SetTimeout(l, r).needs_delete = r.needs_delete
         /\ SetTimeout(l, r).end = r.end
         /\ now <= r.end => SetTimeout(l, r).timer # None
         /\ r.timer # None => SetTimeout(l, r).timer # None
<1>1. r.nextcycle \in Nat /\ r.offset \in Int /\ r.end \in Int
  BY Zenon DEF LineRec
<1> QED  BY <1>1, ScheduleLine DEF SetTimeout

(* set_timeout keeps the cycle and the offset of the line.                 *)
LEMMA SetTimeoutAhead ==
  ASSUME now \in Nat, NEW l \in Lines, NEW r \in LineRec, NEW c,
         c \in Int, r.offset \in Offsets(l), r.nextcycle > c,
         now > r.end => Ahead(l, r, c, now)
  PROVE  Ahead(l, SetTimeout(l, r), c, now)
<1>1. r.nextcycle \in Nat /\ r.offset \in Int /\ r.end \in Int
  BY Zenon DEF LineRec
<1>2. CASE now > r.end
  BY <1>2, Zenon DEF SetTimeout
<1>3. CASE ~(now > r.end)
  <2>1. SetTimeout(l, r) = Schedule(l, r, r.nextcycle, r.offset)
    BY <1>3, Zenon DEF SetTimeout
  <2> QED  BY <1>1, <2>1, ScheduleLine DEF Ahead
<1> QED  BY <1>2, <1>3, Zenon

LEMMA InitTimeoutLine ==
  ASSUME now \in Nat, NEW l \in Lines, NEW r \in LineRec, NEW o \in Offsets(l)
  PROVE  /\ InitTimeout(l, r, o) \in LineRec
         /\ InitTimeout(l, r, o).present = r.present
         /\ InitTimeout(l, r, o).needs_delete = r.needs_delete
         /\ InitTimeout(l, r, o).end = r.end
         /\ now <= r.end => InitTimeout(l, r, o).timer # None
<1>1. /\ now >= StartTime[l] => CycleAfter(l, now) \in Nat
      /\ StartTime[l] \in Nat /\ o \in Int /\ r.end \in Int
  BY CycleType, OffsetRange, Fields DEF LineRec
<1>2. CASE now > r.end
  BY <1>1, <1>2 DEF InitTimeout
<1>3. CASE ~(now > r.end)
  <2>1. PICK c \in Nat : InitTimeout(l, r, o) = Schedule(l, r, c, o)
    BY <1>1, <1>3 DEF InitTimeout
  <2> QED  BY <1>1, <2>1, ScheduleLine
<1> QED  BY <1>2, <1>3, Zenon

LEMMA InitTimeoutAhead ==
  ASSUME now \in Nat, NEW l \in Lines, NEW r \in LineRec, NEW o \in Offsets(l),
         NEW c, c \in Int, now >= StartTime[l], CycleAfter(l, now) > c,
         r.timer = None, InitTimeout(l, r, o).timer # None
  PROVE  Ahead(l, InitTimeout(l, r, o), c, now)
<1>1. CycleAfter(l, now) \in Nat /\ o \in Int /\ r.end \in Int
  BY CycleType, OffsetRange DEF LineRec
<1>2. ~(now > r.end)
  BY Zenon DEF InitTimeout
<1>3. InitTimeout(l, r, o) = Schedule(l, r, CycleAfter(l, now), o)
  BY <1>2, Fields DEF InitTimeout
<1> QED  BY <1>1, <1>3, ScheduleLine DEF Ahead

-----------------------------------------------------------------------------
(* Reading the crontab                                                     *)

LEMMA InsertLine ==
  ASSUME now \in Nat, NEW l \in Lines, NEW r \in LineRec, NEW c, c \in Nat,
         NEW o, ~r.present => o \in Offsets(l)
  PROVE  /\ Insert(l, r, c, o) \in LineRec
         /\ Insert(l, r, c, o).present
         /\ ~Insert(l, r, c, o).needs_delete
         /\ Insert(l, r, c, o).end = c
         /\ now <= c /\ HasTest(l) => Insert(l, r, c, o).timer # None
<1>1. CASE r.present
  <2> DEFINE u == [r EXCEPT !.end = c, !.needs_delete = FALSE]
  <2>1. u \in LineRec
    <3>1. c \in Int
      OBVIOUS
    <3> QED  BY <3>1, Flags, LineEnd, Zenon
  <2>3. u.present /\ ~u.needs_delete /\ u.end = c
    BY <1>1, Zenon DEF LineRec
  <2>2. Insert(l, r, c, o) = SetTimeout(l, u)
    BY <1>1, Zenon DEF Insert
  <2> HIDE DEF u
  <2> QED  BY <2>1, <2>2, <2>3, SetTimeoutLine
<1>2. CASE ~r.present
  <2> DEFINE u == [Gone EXCEPT !.present = TRUE, !.end = c]
  <2>1. u \in LineRec
    <3>1. c \in Int
      OBVIOUS
    <3> QED  BY <3>1, Flags, GoneLine, LineNew, Zenon
  <2>4. u.present /\ ~u.needs_delete /\ u.end = c
    BY Zenon DEF Gone
  <2>2. Insert(l, r, c, o) = IF ~HasOps(l) THEN u ELSE InitTimeout(l, u, o)
    BY <1>2, Zenon DEF Insert
  <2>3. HasTest(l) => HasOps(l)
    BY Zenon DEF HasTest, HasOps
  <2> HIDE DEF u
  <2> QED  BY <1>2, <2>1, <2>2, <2>3, <2>4, InitTimeoutLine
<1> QED  BY <1>1, <1>2, Zenon

LEMMA DeleteLine ==
  ASSUME NEW l \in Lines, NEW r \in LineRec
  PROVE  /\ Delete(l, r) \in LineRec
         /\ Delete(l, r).needs_delete \/ Delete(l, r).timer = None
         /\ Delete(l, r).timer # None
              => r.timer # None /\ Delete(l, r).present = r.present
<1>1. CASE r.busy
  <2>1. Delete(l, r) = [r EXCEPT !.needs_delete = TRUE]
    BY <1>1, Zenon DEF Delete
  <2>2. Delete(l, r) \in LineRec
    BY <2>1, Flags, LineMarked, Zenon
  <2> QED  BY <2>1, <2>2, Zenon DEF LineRec
<1>2. CASE ~r.busy
  BY <1>2, GoneLine, Zenon DEF Delete
<1> QED  BY <1>1, <1>2, Zenon

(* A line that was read again is still ahead of the cycle it was started   *)
(* for.                                                                    *)
LEMMA InsertAhead ==
  ASSUME now \in Nat, NEW l \in Lines, NEW r \in LineRec, NEW c, c \in Nat,
         NEW o, NEW k, k \in Int, r.present, Ahead(l, r, k, now)
  PROVE  Ahead(l, Insert(l, r, c, o), k, now)
<1> DEFINE u == [r EXCEPT !.end = c, !.needs_delete = FALSE]
<1>1. u \in LineRec
  <2>1. c \in Int
    OBVIOUS
  <2> QED  BY <2>1, Flags, LineEnd, Zenon
<1>2. /\ u.offset = r.offset /\ u.nextcycle = r.nextcycle /\ u.timer = r.timer
      /\ u.nexttime = r.nexttime
  BY Zenon DEF LineRec
<1>3. Insert(l, r, c, o) = SetTimeout(l, u)
  BY Zenon DEF Insert
<1> HIDE DEF u
<1>4. Ahead(l, u, k, now)
  BY <1>2, Zenon DEF Ahead, OnTime
<1> QED  BY <1>1, <1>3, <1>4, SetTimeoutAhead, Zenon DEF Ahead

(* SynchronizeFile, on the list or on an empty one.                        *)
LEMMA LoadLine ==
  ASSUME Types, NEW old \in [Lines -> LineRec], Load(old), NEW l \in Lines
  PROVE  /\ program' = program /\ now' = now /\ stepped' = FALSE
         /\ crontab' \in [Lines -> Nat \cup {None}]
         /\ crontab'[l] = None => lines'[l] = Delete(l, old[l])
         /\ crontab'[l] # None =>
              \E o : /\ lines'[l] = Insert(l, old[l], crontab'[l], o)
                     /\ ~old[l].present => o \in Offsets(l)
         /\ \/ last'[l] = None
            \/ last'[l] = last[l] /\ crontab'[l] # None /\ old[l].timer # None
<1>1. /\ program' = program /\ now' = now /\ stepped' = FALSE
      /\ crontab' \in program
  BY Zenon DEF Load
<1>2. crontab' \in [Lines -> Nat \cup {None}]
  BY <1>1, EperdAssumption, Zenon DEF Types
<1> DEFINE S == {k \in Lines : crontab'[k] # None /\ ~old[k].present}
<1>3. PICK draw \in Draws(S) :
        lines' = [k \in Lines |->
                    IF crontab'[k] = None THEN Delete(k, old[k])
                    ELSE Insert(k, old[k], crontab'[k],
                                IF old[k].present THEN 0 ELSE draw[k])]
  BY Zenon DEF Load
<1>4. \A k \in S : draw[k] \in Offsets(k)
  BY Zenon DEF Draws
<1>5. last' = [k \in Lines |-> IF crontab'[k] # None /\ old[k].timer # None
                               THEN last[k] ELSE None]
  BY Zenon DEF Load
<1>6. crontab'[l] = None => lines'[l] = Delete(l, old[l])
  BY <1>3, Zenon
<1>7. ASSUME crontab'[l] # None
      PROVE  \E o : /\ lines'[l] = Insert(l, old[l], crontab'[l], o)
                    /\ ~old[l].present => o \in Offsets(l)
  <2> DEFINE o == IF old[l].present THEN 0 ELSE draw[l]
  <2>1. lines'[l] = Insert(l, old[l], crontab'[l], o)
    BY <1>3, <1>7, Zenon
  <2>2. ~old[l].present => o \in Offsets(l)
    BY <1>4, <1>7, Zenon
  <2> HIDE DEF o
  <2> QED  BY <2>1, <2>2, Zenon
<1>8. \/ last'[l] = None
      \/ last'[l] = last[l] /\ crontab'[l] # None /\ old[l].timer # None
  BY <1>5, Zenon
<1> QED  BY <1>1, <1>2, <1>6, <1>7, <1>8, Zenon

LEMMA LoadIInv ==
  ASSUME IInv, NEW old \in [Lines -> LineRec], Load(old),
         old = lines \/ \A l \in Lines : old[l].timer = None
  PROVE  IInv'
<1>1. now \in Nat
  BY Zenon DEF IInv, Types
<1>2. ASSUME NEW l \in Lines
      PROVE  /\ lines'[l] \in LineRec
             /\ Kept(l, crontab'[l], lines'[l])
             /\ crontab'[l] # None /\ now <= crontab'[l] /\ HasTest(l)
                  => lines'[l].timer # None
             /\ last'[l] \in Nat \cup {None}
             /\ Moderate(l) /\ last'[l] # None => Ahead(l, lines'[l], last'[l], now)
  <2>1. old[l] \in LineRec /\ (old[l].timer # None => old[l].present)
    BY Zenon DEF IInv, Agrees, Kept
  <2>2. last[l] \in Nat \cup {None}
    BY Zenon DEF IInv, Types
  <2>3. Types
    BY Zenon DEF IInv
  <2>4. CASE crontab'[l] = None
    <3>1. lines'[l] = Delete(l, old[l]) /\ last'[l] = None
      BY <2>3, <2>4, LoadLine, Zenon
    <3> QED  BY <2>1, <2>4, <3>1, DeleteLine DEF Kept
  <2>5. CASE crontab'[l] # None
    <3>1. PICK o : /\ lines'[l] = Insert(l, old[l], crontab'[l], o)
                   /\ ~old[l].present => o \in Offsets(l)
      BY <2>3, <2>5, LoadLine, Zenon
    <3>2. crontab'[l] \in Nat
      BY <2>3, <2>5, LoadLine, Zenon
    <3>3. /\ lines'[l] \in LineRec /\ lines'[l].present
          /\ ~lines'[l].needs_delete /\ lines'[l].end = crontab'[l]
          /\ now <= crontab'[l] /\ HasTest(l) => lines'[l].timer # None
      BY <1>1, <2>1, <3>1, <3>2, InsertLine
    <3>5. last'[l] # None => last'[l] \in Nat
      BY <2>2, <2>3, LoadLine, Zenon
    <3>4. ASSUME Moderate(l), last'[l] # None
          PROVE  Ahead(l, lines'[l], last'[l], now)
      <4>1. last'[l] = last[l] /\ old[l].timer # None
        BY <2>3, <3>4, LoadLine, Zenon
      <4>2. Ahead(l, old[l], last[l], now)
        BY <4>1, <3>4, Zenon DEF IInv, Accurate
      <4>3. last[l] \in Nat
        BY <2>2, <3>4, <4>1, Zenon
      <4>4. last[l] \in Int
        BY <4>3
      <4>5. Ahead(l, Insert(l, old[l], crontab'[l], o), last[l], now)
        BY <1>1, <2>1, <3>2, <4>1, <4>2, <4>4, InsertAhead, Zenon
      <4> QED  BY <3>1, <4>1, <4>3, <4>5, Zenon
    <3> QED  BY <2>5, <3>3, <3>4, <3>5, Zenon DEF Kept
  <2> QED  BY <2>4, <2>5, Zenon
<1>3. Types'
  <2>1. /\ program' = program /\ now' = now /\ stepped' = FALSE
        /\ crontab' \in program
    BY Zenon DEF Load
  <2>2. crontab' \in [Lines -> Nat \cup {None}]
    BY <2>1, EperdAssumption, Zenon DEF IInv, Types
  <2>3. /\ lines' = [k \in Lines |-> lines'[k]]
        /\ last' = [k \in Lines |-> last'[k]]
    BY Zenon DEF Load
  <2>4. lines' \in [Lines -> LineRec] /\ last' \in [Lines -> Nat \cup {None}]
    BY <1>2, <2>3, Zenon
  <2> QED  BY <2>1, <2>2, <2>4, Zenon DEF IInv, Types
<1>4. Agrees'
  BY <1>2, Zenon DEF Agrees, Kept
<1>5. Armed' /\ Accurate'
  <2>1. now' = now
    BY Zenon DEF Load
  <2> QED  BY <1>2, <2>1, Zenon DEF Armed, Accurate
<1> QED  BY <1>3, <1>4, <1>5, Zenon DEF IInv

-----------------------------------------------------------------------------
(* Running a job                                                           *)

LEMMA LineFired ==
  ASSUME NEW r \in LineRec
  PROVE  LET u == [r EXCEPT !.timer = None]
         IN /\ u \in LineRec /\ u.timer = None
            /\ u.present = r.present /\ u.needs_delete = r.needs_delete
            /\ u.end = r.end /\ u.nexttime = r.nexttime
            /\ u.nextcycle = r.nextcycle
BY DEF LineRec, None

LEMMA LineStarted ==
  ASSUME NEW r \in LineRec, NEW c, NEW o, NEW f,
         c \in Nat, o \in Int, f \in Flag
  PROVE  [r EXCEPT !.busy = f, !.nextcycle = c, !.offset = o] \in LineRec
BY Zenon DEF LineRec

(* RunJob schedules the line for a later cycle than the one it starts.     *)
LEMMA StartedLine ==
  ASSUME now \in Nat, NEW l \in Lines, NEW r \in LineRec, NEW o \in Offsets(l),
         now <= r.end
  PROVE  /\ Started(l, r, o) \in LineRec
         /\ Started(l, r, o).present = r.present
         /\ Started(l, r, o).needs_delete = r.needs_delete
         /\ Started(l, r, o).end = r.end
         /\ Started(l, r, o).timer # None
         /\ Ahead(l, Started(l, r, o), r.nextcycle, now)
<1> DEFINE n == r.nextcycle + 1
           c == IF StartTime[l] + n * Interval[l] < now THEN CycleAfter(l, now)
                ELSE n
           u == [r EXCEPT !.busy = TRUE, !.nextcycle = c, !.offset = o]
<1>1. Started(l, r, o) = SetTimeout(l, u)
  BY Zenon DEF Started
<1>2. r.nextcycle \in Nat /\ r.end \in Int /\ o \in Int /\ n \in Nat
  BY OffsetRange DEF LineRec
<1>3. c \in Nat /\ c > r.nextcycle
  <2>1. CASE StartTime[l] + n * Interval[l] < now
    <3>1. CycleAfter(l, now) >= n + 1
      BY <1>2, <2>1, CycleLater
    <3>2. now >= StartTime[l]
      <4>1. n * Interval[l] \in Nat /\ StartTime[l] \in Nat
        BY <1>2, Fields
      <4> HIDE DEF n
      <4> QED  BY <2>1, <4>1
    <3>3. CycleAfter(l, now) \in Nat
      BY <3>2, CycleType
    <3> QED  BY <1>2, <2>1, <3>1, <3>3
  <2>2. CASE ~(StartTime[l] + n * Interval[l] < now)
    BY <1>2, <2>2
  <2> QED  BY <2>1, <2>2, Zenon
<1> HIDE DEF c
<1>4. /\ u \in LineRec /\ u.present = r.present
      /\ u.needs_delete = r.needs_delete /\ u.end = r.end
      /\ u.nextcycle = c /\ u.offset = o
  <2>1. c \in Nat /\ o \in Int /\ TRUE \in Flag
    BY <1>2, <1>3, Flags, Zenon
  <2>2. u \in LineRec
    BY <2>1, LineStarted, Zenon
  <2>3. /\ u.present = r.present /\ u.needs_delete = r.needs_delete
        /\ u.end = r.end /\ u.nextcycle = c /\ u.offset = o
    BY Zenon DEF LineRec
  <2> QED  BY <2>2, <2>3, Zenon
<1> HIDE DEF u
<1>5. Ahead(l, SetTimeout(l, u), r.nextcycle, now)
  <2>1. r.nextcycle \in Int /\ ~(now > u.end)
    BY <1>2, <1>4
  <2> QED  BY <1>2, <1>3, <1>4, <2>1, SetTimeoutAhead, Zenon
<1> QED  BY <1>1, <1>4, <1>5, SetTimeoutLine

(* A line found off its time is scheduled for a cycle it was not started   *)
(* for.                                                                    *)
LEMMA LateCycle ==
  ASSUME now \in Nat, NEW l \in Lines, NEW r \in LineRec, NEW c, c \in Nat,
         r.timer = 0, Ahead(l, r, c, now), Inconsistent(r), Moderate(l)
  PROVE  now >= StartTime[l] /\ CycleAfter(l, now) > c
<1>1. /\ r.nextcycle \in Nat /\ r.offset \in Int /\ r.nexttime \in Int
      /\ r.nextcycle > c
  BY Zenon DEF LineRec, Ahead
<1>2. now > r.nexttime + Slack
  <2>1. now >= r.nexttime
    BY Zenon DEF Ahead, OnTime
  <2> QED  BY <1>1, <2>1, Fields DEF Inconsistent
<1>3. r.offset >= -(Interval[l] + Slack)
  BY OffsetRange, Zenon DEF Ahead
<1> DEFINE m == r.nextcycle - 1
<1>4. m \in Nat /\ m \in Int /\ m >= c
  BY <1>1
<1>5. r.nexttime = m * Interval[l] + Interval[l] + StartTime[l] + r.offset
  <2>1. r.nexttime = (m + 1) * Interval[l] + StartTime[l] + r.offset
    BY <1>1 DEF Ahead, NextTime
  <2>2. (m + 1) * Interval[l] = m * Interval[l] + Interval[l]
    BY <1>4, Fields
  <2> QED  BY <2>1, <2>2, Zenon
<1>6. m * Interval[l] \in Nat
  BY <1>4, Fields
<1> HIDE DEF m
<1>7. StartTime[l] + m * Interval[l] < now
  BY <1>1, <1>2, <1>3, <1>5, <1>6, Fields
<1>8. CycleAfter(l, now) >= m + 1
  BY <1>4, <1>7, CycleLater
<1>9. now >= StartTime[l]
  BY <1>6, <1>7, Fields
<1>10. CycleAfter(l, now) \in Nat
  BY <1>9, CycleType
<1> QED  BY <1>4, <1>8, <1>9, <1>10

LEMMA RunJobLine ==
  ASSUME IInv, NEW l \in Lines, RunJob(l)
  PROVE  /\ UNCHANGED <<now, program, crontab, stepped>>
         /\ lines' = [lines EXCEPT ![l] = lines'[l]]
         /\ last' = [last EXCEPT ![l] = last'[l]]
         /\ lines'[l] \in LineRec
         /\ Kept(l, crontab[l], lines'[l])
         /\ crontab[l] # None /\ now <= crontab[l] /\ HasTest(l)
              => lines'[l].timer # None
         /\ last'[l] \in Nat \cup {None}
         /\ Moderate(l) /\ last'[l] # None /\ lines'[l].timer # None
              => Ahead(l, lines'[l], last'[l], now)
         /\ last'[l] # last[l] => crontab[l] # None /\ now <= crontab[l]
<1> DEFINE r == [lines[l] EXCEPT !.timer = None]
<1>1. PICK o \in Offsets(l) :
        lines' = [lines EXCEPT ![l] =
                    IF Runs(l, r) THEN Started(l, r, o)
                    ELSE IF ~r.needs_delete /\ Inconsistent(r)
                         THEN InitTimeout(l, r, o) ELSE r]
  BY Zenon DEF RunJob
<1>2. /\ UNCHANGED <<now, program, crontab, stepped>> /\ lines[l].timer = 0
      /\ last' = IF Runs(l, r) THEN [last EXCEPT ![l] = r.nextcycle] ELSE last
  BY Zenon DEF RunJob
<1>3. /\ now \in Nat /\ lines \in [Lines -> LineRec] /\ lines[l] \in LineRec
      /\ last \in [Lines -> Nat \cup {None}]
  BY Zenon DEF IInv, Types
<1>4. /\ r \in LineRec /\ r.timer = None /\ r.present = lines[l].present
      /\ r.needs_delete = lines[l].needs_delete /\ r.end = lines[l].end
      /\ r.nexttime = lines[l].nexttime /\ r.nextcycle = lines[l].nextcycle
  BY <1>3, LineFired, Zenon
<1>5. Inconsistent(r) => Inconsistent(lines[l])
  BY <1>4, Zenon DEF Inconsistent
<1> HIDE DEF r
<1>6. /\ lines'[l] = IF Runs(l, r) THEN Started(l, r, o)
                     ELSE IF ~r.needs_delete /\ Inconsistent(r)
                          THEN InitTimeout(l, r, o) ELSE r
      /\ lines' = [lines EXCEPT ![l] = lines'[l]]
  BY <1>1, <1>3, Zenon
<1>7. last' = [last EXCEPT ![l] = last'[l]]
  BY <1>2, <1>3, Zenon
<1>8. Kept(l, crontab[l], lines[l]) /\ lines[l].present
  <2>1. lines[l].timer # None
    BY <1>2 DEF None
  <2> QED  BY <2>1, Zenon DEF IInv, Agrees, Kept
<1>9. CASE Runs(l, r)
  <2>1. lines'[l] = Started(l, r, o) /\ last'[l] = r.nextcycle
    BY <1>2, <1>3, <1>6, <1>9, Zenon
  <2>2. ~r.needs_delete /\ now <= r.end
    BY <1>9, Zenon DEF Runs
  <2>3. crontab[l] # None /\ r.end = crontab[l]
    <3>1. lines[l].timer # None
      BY <1>2 DEF None
    <3> QED  BY <1>4, <1>8, <2>2, <3>1, Zenon DEF Kept
  <2>4. r.nextcycle \in Nat
    BY <1>4, Zenon DEF LineRec
  <2>5. /\ lines'[l] \in LineRec /\ lines'[l].present = r.present
        /\ lines'[l].needs_delete = r.needs_delete /\ lines'[l].end = r.end
        /\ lines'[l].timer # None /\ Ahead(l, lines'[l], last'[l], now)
    BY <1>3, <1>4, <2>1, <2>2, StartedLine, SMTT(30)
  <2>6. Kept(l, crontab[l], lines'[l])
    BY <1>4, <1>8, <2>2, <2>3, <2>5, Zenon DEF Kept
  <2>7. now <= crontab[l]
    BY <2>2, <2>3, Zenon
  <2>8. last'[l] \in Nat \cup {None}
    BY <2>1, <2>4, Zenon
  <2> QED  BY <1>2, <1>6, <1>7, <2>3, <2>5, <2>6, <2>7, <2>8, Zenon
<1>10. CASE ~Runs(l, r)
  <2>1. last' = last /\ last[l] \in Nat \cup {None}
    BY <1>2, <1>3, <1>10, Zenon
  <2>2. CASE ~r.needs_delete /\ Inconsistent(r)
    <3>1. lines'[l] = InitTimeout(l, r, o)
      BY <1>6, <1>10, <2>2, Zenon
    <3>2. crontab[l] # None /\ r.end = crontab[l]
      <4>1. lines[l].timer # None
        BY <1>2 DEF None
      <4> QED  BY <1>4, <1>8, <2>2, <4>1, Zenon DEF Kept
    <3>3. ASSUME Moderate(l), last[l] # None, lines'[l].timer # None
          PROVE  Ahead(l, lines'[l], last[l], now)
      <4>1. lines[l].timer # None /\ last[l] \in Nat /\ last[l] \in Int
        BY <1>2, <2>1, <3>3 DEF None
      <4>2. Ahead(l, lines[l], last[l], now)
        BY <3>3, <4>1, Zenon DEF IInv, Accurate
      <4>3. now >= StartTime[l] /\ CycleAfter(l, now) > last[l]
        BY <1>2, <1>3, <1>5, <2>2, <4>1, <3>3, <4>2, LateCycle, Zenon
      <4> QED  BY <1>3, <1>4, <3>1, <3>3, <4>1, <4>3, InitTimeoutAhead, Zenon
    <3>4. /\ lines'[l] \in LineRec /\ lines'[l].present = r.present
          /\ lines'[l].needs_delete = r.needs_delete /\ lines'[l].end = r.end
          /\ now <= r.end => lines'[l].timer # None
      BY <1>3, <1>4, <3>1, InitTimeoutLine
    <3>5. Kept(l, crontab[l], lines'[l])
      BY <1>4, <1>8, <2>2, <3>2, <3>4, Zenon DEF Kept
    <3>6. now <= crontab[l] => lines'[l].timer # None
      BY <3>2, <3>4, Zenon
    <3> QED  BY <1>2, <1>6, <1>7, <2>1, <3>3, <3>4, <3>5, <3>6, Zenon
  <2>3. CASE ~(~r.needs_delete /\ Inconsistent(r))
    <3>1. lines'[l] = r
      BY <1>6, <1>10, <2>3, Zenon
    <3>2. Kept(l, crontab[l], r)
      BY <1>4, <1>8, Zenon DEF Kept
    <3>3. ~(crontab[l] # None /\ now <= crontab[l] /\ HasTest(l))
      BY <1>4, <1>8, <1>10, <2>3, Zenon DEF Kept, Runs
    <3> QED  BY <1>2, <1>4, <1>6, <1>7, <2>1, <3>1, <3>2, <3>3, Zenon
  <2> QED  BY <2>2, <2>3, Zenon
<1> QED  BY <1>9, <1>10, Zenon

-----------------------------------------------------------------------------
Ticked(r) == [r EXCEPT !.timer = IF @ > 0 THEN @ - 1 ELSE @]

LEMMA TickLine ==
  ASSUME NEW t, t \in Nat, NEW l \in Lines, NEW r \in LineRec, NEW v,
         v = Ticked(r)
  PROVE  /\ v \in LineRec
         /\ v.timer = None <=> r.timer = None
         /\ v.present = r.present /\ v.needs_delete = r.needs_delete
         /\ v.end = r.end
         /\ \A c : Ahead(l, r, c, t) /\ r.timer # None => Ahead(l, v, c, t + 1)
<1> DEFINE m == IF r.timer > 0 THEN r.timer - 1 ELSE r.timer
           u == [r EXCEPT !.timer = m]
<1>1. r.timer \in Int /\ r.nexttime \in Int
  BY Zenon DEF LineRec
<1>2. m \in Int /\ (m = None <=> r.timer = None)
  BY <1>1 DEF None
<1>3. ASSUME OnTime(r, t), r.timer # None
      PROVE  /\ m >= None
             /\ m > 0 => t + 1 + m = r.nexttime
             /\ m = 0 => t + 1 >= r.nexttime
  BY <1>1, <1>3 DEF OnTime, None
<1> HIDE DEF m
<1>4. u \in LineRec
  BY <1>2, Zenon DEF LineRec
<1>5. /\ u.timer = m /\ u.present = r.present
      /\ u.needs_delete = r.needs_delete
      /\ u.end = r.end /\ u.nexttime = r.nexttime
      /\ u.nextcycle = r.nextcycle /\ u.offset = r.offset
  BY Zenon DEF LineRec
<1>6. u = v
  BY Zenon DEF m, Ticked
<1> HIDE DEF u
<1>7. ASSUME NEW c, Ahead(l, r, c, t), r.timer # None
      PROVE  Ahead(l, u, c, t + 1)
  BY <1>3, <1>5, <1>7, Zenon DEF Ahead, OnTime
<1> QED  BY <1>2, <1>4, <1>5, <1>6, <1>7, Zenon

LEMMA InitIInv == Init => IInv
<1> SUFFICES ASSUME Init PROVE IInv
  BY Zenon
<1>1. Types
  BY GoneLine, Zenon DEF Init, Types
<1>2. Agrees
  BY GoneLine, Zenon DEF Init, Agrees, Kept
<1>3. Armed /\ Accurate
  BY Zenon DEF Init, Armed, Accurate
<1> QED  BY <1>1, <1>2, <1>3, Zenon DEF IInv

LEMMA NextIInv == ASSUME IInv, [Next]_vars PROVE IInv'
<1>1. CASE Synchronize
  BY <1>1, LoadIInv, Zenon DEF Synchronize, IInv, Types
<1>2. CASE EperdRestart
  <2>1. [l \in Lines |-> Gone] \in [Lines -> LineRec]
    BY GoneLine, Zenon
  <2>2. \A l \in Lines : [k \in Lines |-> Gone][l].timer = None
    BY GoneLine, Zenon
  <2> QED  BY <1>2, <2>1, <2>2, LoadIInv, Zenon DEF EperdRestart
<1>3. ASSUME NEW l \in Lines, RunJob(l) PROVE IInv'
  <2>1. /\ lines \in [Lines -> LineRec] /\ last \in [Lines -> Nat \cup {None}]
        /\ Types
    BY Zenon DEF IInv, Types
  <2>2. \A k \in Lines \ {l} : lines'[k] = lines[k] /\ last'[k] = last[k]
    BY <1>3, <2>1, RunJobLine
  <2>3. Types'
    BY <1>3, <2>1, RunJobLine, Zenon DEF Types
  <2>4. Agrees'
    BY <1>3, <2>2, RunJobLine, Zenon DEF IInv, Agrees
  <2>5. Armed'
    BY <1>3, <2>2, RunJobLine, SMTT(30) DEF IInv, Armed
  <2>6. Accurate'
    BY <1>3, <2>2, RunJobLine, Zenon DEF IInv, Accurate
  <2> QED  BY <2>3, <2>4, <2>5, <2>6, Zenon DEF IInv
<1>4. ASSUME NEW l \in Lines, TestDone(l) PROVE IInv'
  <2>1. lines' = [lines EXCEPT ![l] = [lines[l] EXCEPT !.busy = FALSE]]
    BY <1>4, Zenon DEF TestDone
  <2>2. UNCHANGED <<now, program, crontab, last, stepped>>
    BY <1>4, Zenon DEF TestDone
  <2>3. lines \in [Lines -> LineRec] /\ lines[l] \in LineRec
    BY Zenon DEF IInv, Types
  <2> DEFINE r == lines[l]
             u == [r EXCEPT !.busy = FALSE]
  <2>4. u \in LineRec
    BY <2>3, Flags, LineIdle, Zenon
  <2>5. lines' \in [Lines -> LineRec] /\ lines'[l] = u
    BY <2>1, <2>3, <2>4, Zenon
  <2>6. /\ u.present = r.present /\ u.needs_delete = r.needs_delete
        /\ u.end = r.end /\ u.timer = r.timer /\ u.nexttime = r.nexttime
        /\ u.nextcycle = r.nextcycle /\ u.offset = r.offset
    BY <2>3, Zenon DEF LineRec
  <2>7. \A k \in Lines :
          /\ lines'[k].present = lines[k].present
          /\ lines'[k].needs_delete = lines[k].needs_delete
          /\ lines'[k].end = lines[k].end /\ lines'[k].timer = lines[k].timer
          /\ lines'[k].nexttime = lines[k].nexttime
          /\ lines'[k].nextcycle = lines[k].nextcycle
          /\ lines'[k].offset = lines[k].offset
    BY <2>1, <2>3, <2>5, <2>6, Zenon
  <2>8. Types'
    BY <2>2, <2>5, Zenon DEF IInv, Types
  <2>9. Agrees' /\ Armed'
    BY <2>2, <2>7 DEF IInv, Agrees, Kept, Armed
  <2>10. Accurate'
    BY <2>2, <2>7 DEF IInv, Accurate, Ahead, OnTime
  <2> QED  BY <2>8, <2>9, <2>10, Zenon DEF IInv
<1>5. CASE Tick
  <2>1. /\ now' = now + 1 /\ UNCHANGED <<program, crontab, last, stepped>>
        /\ lines' = [l \in Lines |->
                       [lines[l] EXCEPT !.timer = IF @ > 0 THEN @ - 1 ELSE @]]
    BY <1>5, Zenon DEF Tick
  <2>2. now \in Nat /\ lines \in [Lines -> LineRec]
    BY Zenon DEF IInv, Types
  <2>3. ASSUME NEW l \in Lines
        PROVE  /\ lines'[l] \in LineRec
               /\ lines'[l].timer = None <=> lines[l].timer = None
               /\ lines'[l].present = lines[l].present
               /\ lines'[l].needs_delete = lines[l].needs_delete
               /\ lines'[l].end = lines[l].end
               /\ \A c : Ahead(l, lines[l], c, now) /\ lines[l].timer # None
                           => Ahead(l, lines'[l], c, now + 1)
    <3>1. lines[l] \in LineRec
      BY <2>2, Zenon
    <3>2. lines'[l] = Ticked(lines[l])
      BY <2>1, Zenon DEF Ticked
    <3> QED  BY <2>2, <3>1, <3>2, TickLine
  <2>4. lines' \in [Lines -> LineRec]
    BY <2>1, <2>3, Zenon
  <2>5. Types'
    <3>1. now' \in Nat
      BY <2>1, <2>2
    <3> QED  BY <2>1, <2>4, <3>1, Zenon DEF IInv, Types
  <2>6. Agrees'
    BY <2>1, <2>3 DEF IInv, Agrees, Kept
  <2>7. Armed'
    <3>1. \A l \in Lines : crontab[l] \in Nat \cup {None}
      BY Zenon DEF IInv, Types
    <3>2. ASSUME NEW l \in Lines, crontab[l] # None, now + 1 <= crontab[l]
          PROVE  now <= crontab[l]
      BY <2>2, <3>1, <3>2
    <3> QED  BY <2>1, <2>3, <3>2, Zenon DEF IInv, Armed
  <2>8. Accurate'
    BY <2>1, <2>3, Zenon DEF IInv, Accurate
  <2> QED  BY <2>5, <2>6, <2>7, <2>8, Zenon DEF IInv
<1>6. CASE StepClock
  <2>0. now' \in 0..MaxTime /\ MaxTime \in Nat
    BY <1>6, EperdAssumption, Zenon DEF StepClock
  <2>1. /\ now' \in Nat /\ stepped' = TRUE
        /\ UNCHANGED <<program, crontab, lines>>
        /\ last' = [l \in Lines |-> None]
    BY <1>6, <2>0 DEF StepClock
  <2>2. Types'
    <3>1. stepped' \in BOOLEAN
      BY <2>1, Zenon
    <3>2. last' \in [Lines -> Nat \cup {None}]
      BY <2>1, Zenon
    <3> QED  BY <2>1, <3>1, <3>2, Zenon DEF IInv, Types
  <2>4. Agrees'
    BY <2>1, Zenon DEF IInv, Agrees
  <2>3. Armed' /\ Accurate'
    BY <2>1, Zenon DEF Armed, Accurate
  <2> QED  BY <2>2, <2>3, <2>4, Zenon DEF IInv
<1>7. CASE UNCHANGED vars
  BY <1>7, Zenon DEF vars, IInv, Types, Agrees, Armed, Accurate
<1> QED  BY <1>1, <1>2, <1>3, <1>4, <1>5, <1>6, <1>7, Zenon DEF Next

LEMMA Invariance == Spec => []IInv
BY InitIInv, NextIInv, PTL DEF Spec

-----------------------------------------------------------------------------
(* No cycle is skipped                                                     *)

(* A line has an offset do_distr can draw, also before it is scheduled     *)
(* (0) and whatever the clock was set to; a timer is set for nextcycle.    *)
SpacedLine(l, r) ==
  /\ r.offset \in Offsets(l)
  /\ r.timer # None => r.nexttime = NextTime(l, r.nextcycle, r.offset)

Spaced == \A l \in Lines : SpacedLine(l, lines[l])

LEMMA ZeroOffset == ASSUME NEW l \in Lines PROVE 0 \in Offsets(l)
<1> DEFINE h == Param[l] \div 2
<1>1. Param[l] \in Nat
  BY EperdAssumption, Zenon
<1>2. h \in 0..Param[l] /\ 0 = h - h
  BY <1>1
<1> QED  BY <1>2, Zenon DEF Offsets

(* A line is at most half its spread, rounded up, after its cycle begins.  *)
LEMMA OffsetLimit ==
  ASSUME NEW l \in Lines, NEW o \in Offsets(l)
  PROVE  o \in Int /\ o <= (Param[l] + 1) \div 2
<1> DEFINE h == Param[l] \div 2
<1>1. Param[l] \in Nat
  BY EperdAssumption, Zenon
<1>2. h \in Int /\ Param[l] - h <= (Param[l] + 1) \div 2
  <2> DEFINE p == Param[l]
             k == (p + 1) \div 2
  <2>0. 2 \in Nat \ {0} /\ p \in Int /\ p + 1 \in Int
    BY <1>1
  <2>1. h \in Int /\ p < h * 2 + 2 /\ h * 2 <= p
    BY <2>0, Division, Zenon
  <2>2. k \in Int /\ p + 1 < k * 2 + 2 /\ k * 2 <= p + 1
    BY <2>0, Division, Zenon
  <2> HIDE DEF h, p, k
  <2>3. p - h <= k
    BY <2>0, <2>1, <2>2
  <2> QED  BY <2>1, <2>3, Zenon DEF p, k
<1>3. PICK r \in 0..Param[l] : o = r - h
  BY Zenon DEF Offsets
<1> HIDE DEF h
<1> QED  BY <1>1, <1>2, <1>3

LEMMA SetTimeoutSpaced ==
  ASSUME now \in Nat, NEW l \in Lines, NEW r \in LineRec,
         r.offset \in Offsets(l), now > r.end => SpacedLine(l, r)
  PROVE  /\ SpacedLine(l, SetTimeout(l, r))
         /\ SetTimeout(l, r).nextcycle = r.nextcycle
<1>1. r.nextcycle \in Nat /\ r.offset \in Int /\ r.end \in Int
  BY Zenon DEF LineRec
<1>2. CASE now > r.end
  BY <1>2, Zenon DEF SetTimeout
<1>3. CASE ~(now > r.end)
  <2>1. SetTimeout(l, r) = Schedule(l, r, r.nextcycle, r.offset)
    BY <1>3, Zenon DEF SetTimeout
  <2> QED  BY <1>1, <2>1, ScheduleLine DEF SpacedLine
<1> QED  BY <1>2, <1>3, Zenon

LEMMA InitTimeoutSpaced ==
  ASSUME now \in Nat, NEW l \in Lines, NEW r \in LineRec, NEW o \in Offsets(l),
         r.offset \in Offsets(l), r.timer = None
  PROVE  SpacedLine(l, InitTimeout(l, r, o))
<1>1. /\ now >= StartTime[l] => CycleAfter(l, now) \in Nat
      /\ StartTime[l] \in Nat /\ o \in Int /\ r.end \in Int
  BY CycleType, OffsetRange, Fields DEF LineRec
<1>2. CASE now > r.end
  BY <1>2, Zenon DEF InitTimeout, SpacedLine
<1>3. CASE ~(now > r.end)
  <2>1. PICK c \in Nat : InitTimeout(l, r, o) = Schedule(l, r, c, o)
    BY <1>1, <1>3 DEF InitTimeout
  <2> QED  BY <1>1, <2>1, ScheduleLine DEF SpacedLine
<1> QED  BY <1>2, <1>3, Zenon

(* Reading the file again keeps the cycle of a line that is in the list.   *)
LEMMA InsertSpaced ==
  ASSUME now \in Nat, NEW l \in Lines, NEW r \in LineRec, NEW c, c \in Nat,
         NEW o, ~r.present => o \in Offsets(l), SpacedLine(l, r)
  PROVE  /\ SpacedLine(l, Insert(l, r, c, o))
         /\ r.present => Insert(l, r, c, o).nextcycle = r.nextcycle
<1>0. c \in Int
  OBVIOUS
<1>1. CASE r.present
  <2> DEFINE u == [r EXCEPT !.end = c, !.needs_delete = FALSE]
  <2>1. u \in LineRec
    BY <1>0, Flags, LineEnd, Zenon
  <2>2. /\ u.offset = r.offset /\ u.nextcycle = r.nextcycle
        /\ u.timer = r.timer /\ u.nexttime = r.nexttime
    BY Zenon DEF LineRec
  <2>3. Insert(l, r, c, o) = SetTimeout(l, u)
    BY <1>1, Zenon DEF Insert
  <2> HIDE DEF u
  <2>4. SpacedLine(l, u)
    BY <2>2, Zenon DEF SpacedLine
  <2>5. u.offset \in Offsets(l)
    BY <2>4, Zenon DEF SpacedLine
  <2> QED  BY <2>1, <2>2, <2>3, <2>4, <2>5, SetTimeoutSpaced, Zenon
<1>2. CASE ~r.present
  <2> DEFINE u == [Gone EXCEPT !.present = TRUE, !.end = c]
  <2>1. u \in LineRec
    BY <1>0, Flags, GoneLine, LineNew, Zenon
  <2>2. u.timer = None /\ u.offset = 0
    BY Zenon DEF Gone
  <2>3. Insert(l, r, c, o) = IF ~HasOps(l) THEN u ELSE InitTimeout(l, u, o)
    BY <1>2, Zenon DEF Insert
  <2>4. u.offset \in Offsets(l)
    BY <2>2, ZeroOffset, Zenon
  <2> HIDE DEF u
  <2>5. SpacedLine(l, u)
    BY <2>2, <2>4, Zenon DEF SpacedLine
  <2>6. SpacedLine(l, InitTimeout(l, u, o))
    BY <1>2, <2>1, <2>2, <2>4, InitTimeoutSpaced, Zenon
  <2> QED  BY <1>2, <2>3, <2>5, <2>6, Zenon
<1> QED  BY <1>1, <1>2, Zenon

LEMMA GoneSpaced == ASSUME NEW l \in Lines PROVE SpacedLine(l, Gone)
<1>1. Gone.offset = 0 /\ Gone.timer = None
  BY Zenon DEF Gone
<1> QED  BY <1>1, ZeroOffset, Zenon DEF SpacedLine

LEMMA DeleteSpaced ==
  ASSUME NEW l \in Lines, NEW r \in LineRec, SpacedLine(l, r)
  PROVE  SpacedLine(l, Delete(l, r))
<1> DEFINE u == [r EXCEPT !.needs_delete = TRUE]
<1>1. /\ u.offset = r.offset /\ u.nextcycle = r.nextcycle
      /\ u.timer = r.timer /\ u.nexttime = r.nexttime
  BY Zenon DEF LineRec
<1>2. Delete(l, r) = u \/ Delete(l, r) = Gone
  BY Zenon DEF Delete
<1> HIDE DEF u
<1>3. SpacedLine(l, u)
  BY <1>1, Zenon DEF SpacedLine
<1> QED  BY <1>2, <1>3, GoneSpaced, Zenon

(* A narrow line that is started on time has not reached its next cycle.   *)
LEMMA NextNotBegun ==
  ASSUME now \in Nat, NEW l \in Lines, NEW r \in LineRec,
         r.offset \in Offsets(l), ~Inconsistent(r), Narrow(l),
         r.nexttime = NextTime(l, r.nextcycle, r.offset)
  PROVE  ~(StartTime[l] + (r.nextcycle + 1) * Interval[l] < now)
<1> DEFINE i == Interval[l]
           c == r.nextcycle
           s == StartTime[l]
           b == (Param[l] + 1) \div 2
<1>1. i \in Nat \ {0} /\ s \in Nat /\ Slack \in Nat /\ c \in Nat
  BY Fields, Zenon DEF LineRec
<1>2. b \in Int /\ b + Slack <= i
  <2>1. Param[l] \in Nat
    BY EperdAssumption, Zenon
  <2>2. b \in Int
    BY <2>1
  <2> QED  BY <2>2, Zenon DEF Narrow
<1>3. r.offset \in Int /\ r.offset <= b
  BY OffsetLimit, Zenon
<1>4. r.nexttime = c * i + s + r.offset
  BY Zenon DEF NextTime
<1>5. now <= r.nexttime + Slack
  <2>1. ~(now > r.nexttime + Slack) /\ r.nexttime \in Int
    BY Zenon DEF Inconsistent, LineRec
  <2> QED  BY <2>1, <1>1
<1>6. (c + 1) * i = c * i + i /\ c * i \in Int
  <2> HIDE DEF i, c
  <2> QED  BY <1>1
<1> HIDE DEF i, c, s, b
<1>7. ~(s + (c + 1) * i < now)
  BY <1>1, <1>2, <1>3, <1>4, <1>5, <1>6
<1> QED  BY <1>7, Zenon DEF i, c, s

LEMMA StartedSpaced ==
  ASSUME now \in Nat, NEW l \in Lines, NEW r \in LineRec, NEW o \in Offsets(l),
         now <= r.end, r.offset \in Offsets(l), ~Inconsistent(r),
         r.nexttime = NextTime(l, r.nextcycle, r.offset)
  PROVE  /\ SpacedLine(l, Started(l, r, o))
         /\ Narrow(l) => Started(l, r, o).nextcycle = r.nextcycle + 1
<1> DEFINE n == r.nextcycle + 1
           c == IF StartTime[l] + n * Interval[l] < now THEN CycleAfter(l, now)
                ELSE n
           u == [r EXCEPT !.busy = TRUE, !.nextcycle = c, !.offset = o]
<1>1. Started(l, r, o) = SetTimeout(l, u)
  BY Zenon DEF Started
<1>2. r.nextcycle \in Nat /\ r.end \in Int /\ o \in Int /\ n \in Nat
  BY OffsetRange DEF LineRec
<1>3. c \in Nat
  <2>1. CASE StartTime[l] + n * Interval[l] < now
    <3>1. n * Interval[l] \in Nat /\ StartTime[l] \in Nat
      BY <1>2, Fields
    <3>2. now >= StartTime[l]
      <4> HIDE DEF n
      <4> QED  BY <2>1, <3>1
    <3>3. CycleAfter(l, now) \in Nat
      BY <3>2, CycleType
    <3> QED  BY <2>1, <3>3, Zenon
  <2>2. CASE ~(StartTime[l] + n * Interval[l] < now)
    BY <1>2, <2>2, Zenon
  <2> QED  BY <2>1, <2>2, Zenon
<1>4. Narrow(l) => c = r.nextcycle + 1
  BY NextNotBegun, Zenon
<1> HIDE DEF c
<1>5. u \in LineRec
  <2>1. TRUE \in Flag
    BY Flags, Zenon
  <2> QED  BY <1>2, <1>3, <2>1, LineStarted, Zenon
<1>6. u.end = r.end /\ u.nextcycle = c /\ u.offset = o
  BY Zenon DEF LineRec
<1> HIDE DEF u
<1>7. ~(now > u.end)
  BY <1>2, <1>6
<1>8. u.offset \in Offsets(l)
  BY <1>6, Zenon
<1>9. /\ SpacedLine(l, SetTimeout(l, u))
      /\ SetTimeout(l, u).nextcycle = u.nextcycle
  BY <1>5, <1>7, <1>8, SetTimeoutSpaced, Zenon
<1> QED  BY <1>1, <1>4, <1>6, <1>9, Zenon

LEMMA LoadSkips ==
  ASSUME IInv, Spaced, NoCycleSkipped, NEW old \in [Lines -> LineRec],
         Load(old), \A l \in Lines : SpacedLine(l, old[l]),
         old = lines \/ \A l \in Lines : old[l].timer = None
  PROVE  Spaced' /\ NoCycleSkipped'
<1>1. now \in Nat /\ Types
  BY Zenon DEF IInv, Types
<1>2. missed' = missed
  BY Zenon DEF Load
<1>3. ASSUME NEW l \in Lines
      PROVE  /\ SpacedLine(l, lines'[l])
             /\ last'[l] # None => /\ last'[l] = last[l]
                                   /\ lines'[l].nextcycle = lines[l].nextcycle
                                   /\ lines[l].timer # None
  <2>1. old[l] \in LineRec /\ SpacedLine(l, old[l])
    BY Zenon
  <2>2. CASE crontab'[l] = None
    <3>1. lines'[l] = Delete(l, old[l]) /\ last'[l] = None
      BY <1>1, <2>2, LoadLine, Zenon
    <3> QED  BY <2>1, <3>1, DeleteSpaced, Zenon
  <2>3. CASE crontab'[l] # None
    <3>1. PICK o : /\ lines'[l] = Insert(l, old[l], crontab'[l], o)
                   /\ ~old[l].present => o \in Offsets(l)
      BY <1>1, <2>3, LoadLine, Zenon
    <3>2. crontab'[l] \in Nat
      BY <1>1, <2>3, LoadLine, Zenon
    <3>3. /\ SpacedLine(l, lines'[l])
          /\ old[l].present => lines'[l].nextcycle = old[l].nextcycle
      BY <1>1, <2>1, <3>1, <3>2, InsertSpaced
    <3>4. ASSUME last'[l] # None
          PROVE  last'[l] = last[l] /\ old = lines /\ old[l].timer # None
      BY <1>1, <3>4, LoadLine, Zenon
    <3>5. old = lines /\ old[l].timer # None => old[l].present
      BY Zenon DEF IInv, Agrees, Kept
    <3> QED  BY <3>3, <3>4, <3>5, Zenon
  <2> QED  BY <2>2, <2>3, Zenon
<1>4. Spaced'
  BY <1>3, Zenon DEF Spaced, SpacedLine, NextTime, Offsets
<1>5. NoCycleSkipped'
  BY <1>2, <1>3, Zenon DEF NoCycleSkipped, Narrow
<1> QED  BY <1>4, <1>5, Zenon

LEMMA RunJobSkips ==
  ASSUME IInv, Spaced, NoCycleSkipped, NEW l \in Lines, RunJob(l)
  PROVE  Spaced' /\ NoCycleSkipped'
<1> DEFINE r == [lines[l] EXCEPT !.timer = None]
<1>1. PICK o \in Offsets(l) :
        lines' = [lines EXCEPT ![l] =
                    IF Runs(l, r) THEN Started(l, r, o)
                    ELSE IF ~r.needs_delete /\ Inconsistent(r)
                         THEN InitTimeout(l, r, o) ELSE r]
  BY Zenon DEF RunJob
<1>2. /\ lines[l].timer = 0
      /\ last' = IF Runs(l, r) THEN [last EXCEPT ![l] = r.nextcycle] ELSE last
      /\ missed' = IF Runs(l, r) THEN missed \ {l}
                   ELSE IF Inconsistent(r) THEN missed \cup {l} ELSE missed
  BY Zenon DEF RunJob
<1>3. /\ now \in Nat /\ lines \in [Lines -> LineRec] /\ lines[l] \in LineRec
      /\ last \in [Lines -> Nat \cup {None}]
  BY Zenon DEF IInv, Types
<1>4. /\ r \in LineRec /\ r.timer = None /\ r.nexttime = lines[l].nexttime
      /\ r.nextcycle = lines[l].nextcycle
  BY <1>3, LineFired, Zenon
<1>5. r.offset = lines[l].offset
  BY <1>3, Zenon DEF LineRec
<1> HIDE DEF r
<1>6. \A k \in Lines \ {l} : lines'[k] = lines[k] /\ last'[k] = last[k]
  BY <1>1, <1>2, <1>3, Zenon
<1>7. \A k \in Lines \ {l} : k \notin missed' => k \notin missed
  BY <1>2, Zenon
<1>8. /\ r.offset \in Offsets(l)
      /\ r.nexttime = NextTime(l, r.nextcycle, r.offset)
  <2>1. lines[l].timer # None
    BY <1>2 DEF None
  <2> QED  BY <1>4, <1>5, <2>1, Zenon DEF Spaced, SpacedLine
<1>9. /\ SpacedLine(l, lines'[l])
      /\ Narrow(l) /\ l \notin missed' /\ last'[l] # None /\ lines'[l].timer # None
           => lines'[l].nextcycle = last'[l] + 1
  <2>1. CASE Runs(l, r)
    <3>1. lines'[l] = Started(l, r, o) /\ last'[l] = r.nextcycle
      BY <1>1, <1>2, <1>3, <2>1, Zenon
    <3>2. now <= r.end /\ ~Inconsistent(r)
      BY <2>1, Zenon DEF Runs
    <3> QED  BY <1>3, <1>4, <1>8, <3>1, <3>2, StartedSpaced, Zenon
  <2>2. CASE ~Runs(l, r) /\ ~r.needs_delete /\ Inconsistent(r)
    <3>1. lines'[l] = InitTimeout(l, r, o) /\ l \in missed'
      BY <1>1, <1>2, <1>3, <2>2, Zenon
    <3> QED  BY <1>3, <1>4, <1>8, <3>1, InitTimeoutSpaced, Zenon
  <2>3. CASE ~Runs(l, r) /\ ~(~r.needs_delete /\ Inconsistent(r))
    <3>1. lines'[l] = r
      BY <1>1, <1>3, <2>3, Zenon
    <3> QED  BY <1>4, <1>8, <3>1, Zenon DEF SpacedLine
  <2> QED  BY <2>1, <2>2, <2>3, Zenon
<1>10. Spaced'
  <2>1. \A k \in Lines : SpacedLine(k, lines'[k])
    BY <1>6, <1>9, Zenon DEF Spaced
  <2> QED  BY <2>1, Zenon DEF Spaced, SpacedLine, NextTime, Offsets
<1>11. NoCycleSkipped'
  BY <1>6, <1>7, <1>9, Zenon DEF NoCycleSkipped, Narrow
<1> QED  BY <1>10, <1>11, Zenon

LEMMA TickedCycle ==
  ASSUME NEW l \in Lines, NEW r \in LineRec, NEW v, v = Ticked(r)
  PROVE  /\ v.offset = r.offset /\ v.nextcycle = r.nextcycle
         /\ v.nexttime = r.nexttime /\ (v.timer # None => r.timer # None)
<1>1. /\ v.offset = r.offset /\ v.nextcycle = r.nextcycle
      /\ v.nexttime = r.nexttime
  BY Zenon DEF LineRec, Ticked
<1>2. v.timer = None <=> r.timer = None
  <2>1. 0 \in Nat
    OBVIOUS
  <2> QED  BY <2>1, TickLine, Zenon
<1> QED  BY <1>1, <1>2, Zenon

LEMMA NextSkips ==
  ASSUME IInv, Spaced, NoCycleSkipped, [Next]_vars
  PROVE  Spaced' /\ NoCycleSkipped'
<1>0. lines \in [Lines -> LineRec]
  BY Zenon DEF IInv, Types
<1>1. CASE Synchronize
  BY <1>0, <1>1, LoadSkips, Zenon DEF Synchronize, Spaced
<1>2. CASE EperdRestart
  <2> DEFINE none == [l \in Lines |-> Gone]
  <2>1. none \in [Lines -> LineRec]
    BY GoneLine, Zenon
  <2>2. \A l \in Lines : none[l].timer = None /\ SpacedLine(l, none[l])
    BY GoneLine, GoneSpaced, Zenon
  <2>3. Load(none)
    BY <1>2, Zenon DEF EperdRestart
  <2> HIDE DEF none
  <2> QED  BY <2>1, <2>2, <2>3, LoadSkips, Zenon
<1>3. ASSUME NEW l \in Lines, RunJob(l) PROVE Spaced' /\ NoCycleSkipped'
  BY <1>3, RunJobSkips, Zenon
(* The other steps keep the cycle and the offset of every line.            *)
<1>4. ASSUME missed' = missed, \A l \in Lines : last'[l] \in {last[l], None},
             \A l \in Lines :
                /\ lines'[l].offset = lines[l].offset
                /\ lines'[l].nextcycle = lines[l].nextcycle
                /\ lines'[l].nexttime = lines[l].nexttime
                /\ lines'[l].timer # None => lines[l].timer # None
      PROVE  Spaced' /\ NoCycleSkipped'
  <2>1. Spaced'
    BY <1>4, Zenon DEF Spaced, SpacedLine, NextTime, Offsets
  <2>2. NoCycleSkipped'
    BY <1>4, Zenon DEF NoCycleSkipped, Narrow
  <2> QED  BY <2>1, <2>2, Zenon
<1>5. ASSUME NEW l \in Lines, TestDone(l) PROVE Spaced' /\ NoCycleSkipped'
  <2>1. /\ lines' = [lines EXCEPT ![l] = [lines[l] EXCEPT !.busy = FALSE]]
        /\ missed' = missed /\ last' = last
    BY <1>5, Zenon DEF TestDone
  <2>2. \A k \in Lines :
          /\ lines'[k].offset = lines[k].offset
          /\ lines'[k].nextcycle = lines[k].nextcycle
          /\ lines'[k].nexttime = lines[k].nexttime
          /\ lines'[k].timer = lines[k].timer
    BY <1>0, <2>1, Zenon DEF LineRec
  <2> QED  BY <1>4, <2>1, <2>2, Zenon
<1>6. CASE Tick
  <2>1. /\ lines' = [l \in Lines |->
                       [lines[l] EXCEPT !.timer = IF @ > 0 THEN @ - 1 ELSE @]]
        /\ missed' = missed /\ last' = last
    BY <1>6, Zenon DEF Tick
  <2>2. ASSUME NEW l \in Lines
        PROVE  /\ lines'[l].offset = lines[l].offset
               /\ lines'[l].nextcycle = lines[l].nextcycle
               /\ lines'[l].nexttime = lines[l].nexttime
               /\ lines'[l].timer # None => lines[l].timer # None
    <3>1. lines[l] \in LineRec
      BY <1>0, Zenon
    <3>2. lines'[l] = Ticked(lines[l])
      BY <2>1, Zenon DEF Ticked
    <3> QED  BY <3>1, <3>2, TickedCycle, Zenon
  <2> QED  BY <1>4, <2>1, <2>2, Zenon
<1>7. CASE StepClock
  BY <1>4, <1>7, Zenon DEF StepClock
<1>8. CASE UNCHANGED vars
  BY <1>4, <1>8, Zenon DEF vars
<1> QED  BY <1>1, <1>2, <1>3, <1>5, <1>6, <1>7, <1>8, Zenon DEF Next

-----------------------------------------------------------------------------
(* A line of the crontab that has a test and has not expired has a timer,  *)
(* unless the clock was set since the crontab was read.                    *)
THEOREM AlwaysArmed == Spec => []Armed
<1>1. IInv => Armed
  BY Zenon DEF IInv
<1> QED  BY <1>1, Invariance, PTL

(* Neither reading the crontab again nor being late makes RunJob start the *)
(* test of a line twice for a cycle, if half its spread is at most its     *)
(* interval and the tolerance.                                             *)
THEOREM CyclesOnce == Spec => []NoCycleTwice
<1>1. IInv => NoCycleTwice
  BY Zenon DEF IInv, Accurate, Ahead, NoCycleTwice
<1> QED  BY <1>1, Invariance, PTL

(* No cycle of a line whose spread and tolerance stay within its interval  *)
(* is skipped between two starts: reading the crontab again, or an event   *)
(* loop that is late within the tolerance, leaves the cycle after the last *)
(* one next, unless RunJob found the line off its time or the clock was    *)
(* set.                                                                    *)
THEOREM CyclesInTurn == Spec => []NoCycleSkipped
<1>1. Init => Spaced /\ NoCycleSkipped
  BY GoneSpaced, Zenon DEF Init, Spaced, NoCycleSkipped
<1>2. IInv /\ Spaced /\ NoCycleSkipped /\ [Next]_vars
        => Spaced' /\ NoCycleSkipped'
  BY NextSkips, Zenon
<1> QED  BY <1>1, <1>2, Invariance, PTL DEF Spec

(* A test is started only for a line of the crontab read last and before   *)
(* its end time.                                                           *)
THEOREM ScheduledRuns == Spec => OnlyScheduledRuns
<1> DEFINE Step == \A l \in Lines : last'[l] # last[l] /\ last'[l] # None
                      => crontab[l] # None /\ now <= crontab[l]
<1>1. ASSUME IInv, Next PROVE Step
  <2>1. ASSUME NEW old \in [Lines -> LineRec], Load(old) PROVE Step
    BY <1>1, <2>1, LoadLine, Zenon DEF IInv
  <2>2. CASE Synchronize \/ EperdRestart
    <3>1. /\ lines \in [Lines -> LineRec]
          /\ [l \in Lines |-> Gone] \in [Lines -> LineRec]
      BY <1>1, GoneLine, Zenon DEF IInv, Types
    <3> QED  BY <2>1, <2>2, <3>1, Zenon DEF Synchronize, EperdRestart
  <2>3. ASSUME NEW l \in Lines, RunJob(l) PROVE Step
    <3>1. last \in [Lines -> Nat \cup {None}]
      BY <1>1, Zenon DEF IInv, Types
    <3>2. \A k \in Lines \ {l} : last'[k] = last[k]
      BY <1>1, <2>3, <3>1, RunJobLine
    <3>3. last'[l] # last[l] => crontab[l] # None /\ now <= crontab[l]
      BY <1>1, <2>3, RunJobLine, Zenon
    <3> QED  BY <3>2, <3>3, Zenon
  <2>4. CASE Tick \/ StepClock \/ \E l \in Lines : TestDone(l)
    BY <2>4, Zenon DEF Tick, StepClock, TestDone
  <2> QED  BY <1>1, <2>2, <2>3, <2>4, Zenon DEF Next
<1>2. ASSUME IInv, [Next]_vars PROVE [Step]_vars
  BY <1>1, <1>2, Zenon
<1> QED  BY <1>2, Invariance, PTL DEF OnlyScheduledRuns, Spec
=============================================================================
