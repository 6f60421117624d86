----------------------------- MODULE Scheduler -----------------------------
(***************************************************************************)
(* The scheduler thread of the Control Plane and the cron schedule of one  *)
(* target, on a day whose wall clock may be put back or forward.           *)
(*                                                                         *)
(* The loop does its tick and then waits SCHEDULER_INTERVAL_SECONDS, less  *)
(* than a minute or more, so ticks drift against the minutes and a minute  *)
(* may see several of them.  A tick takes the present minute in the        *)
(* scheduler's time zone; if the schedule matches it and it is later, on   *)
(* the wall clock, than the last minute that matched, the target is        *)
(* checked for an active backup and a backup is dispatched, in two steps   *)
(* between which other requests run.                                       *)
(*                                                                         *)
(* An instant is a minute of real time, Wall its reading.  On a longer day *)
(* the Shift minutes before ChangeAt + Shift are read a second time; on a  *)
(* shorter day Shift readings never appear.  cron_next_run, which the      *)
(* preview shows, is NextRun.                                              *)
(***************************************************************************)
EXTENDS Integers, FiniteSets

CONSTANTS
  LastInstant,   \* the instants of the day are 0 .. LastInstant
  ChangeAt,      \* the reading at which the clock change begins
  Shift,         \* minutes that the clock is put back or forward
  Pace,          \* clock steps in a minute
  Intervals      \* clock steps that the loop may be told to wait

ASSUME SchedulerAssumption ==
  /\ LastInstant \in Nat /\ ChangeAt \in Nat
  /\ Shift \in Nat \ {0} /\ Pace \in Nat \ {0}
  /\ Intervals \subseteq Nat

VARIABLES
  day,        \* what happens to the clock on this day
  schedule,   \* the readings that the cron expression matches
  clock,      \* real time, in steps of 1/Pace minute
  interval,   \* what the loop waits, as it was started
  tick,       \* what the scheduler thread is doing
  lastCheck,  \* _last_check of the target, a reading
  lastRun,    \* the reading of the last scheduled dispatch since the start
  runs,       \* how many scheduled dispatches there were since the start
  backups     \* the target's active backup jobs, by trigger

schedulerVars ==
  <<day, schedule, clock, interval, tick, lastCheck, lastRun, runs, backups>>

Instant == 0 .. LastInstant
Reading == 0 .. (LastInstant + Shift)
Never == -1

WallOn(d, i) ==
  CASE d = "longer" /\ i >= ChangeAt + Shift -> i - Shift
    [] d = "shorter" /\ i >= ChangeAt -> i + Shift
    [] OTHER -> i

Wall(i) == WallOn(day, i)

Earliest(S) == CHOOSE x \in S : \A y \in S : x <= y

\* valid_candidate: of the instants that read w, the first one after base.
Candidates(w, base) == {i \in Instant : Wall(i) = w /\ i > base}

\* Faulty: the later of the two instants of a repeated reading.
NextRunLatest(base) ==
  LET W == {w \in schedule : Candidates(w, base) # {}}
  IN IF W = {} THEN Never
     ELSE CHOOSE i \in Candidates(Earliest(W), base) :
            \A j \in Candidates(Earliest(W), base) : j <= i

\* cron_next_run tries the readings of the day in order, from its beginning,
\* and takes the first that has an instant after base.
NextRun(base) ==
  LET W == {w \in schedule : Candidates(w, base) # {}}
  IN IF W = {} THEN Never ELSE Earliest(Candidates(Earliest(W), base))

\* The next matching instant.
FirstMatch(base) ==
  LET M == {i \in Instant : i > base /\ Wall(i) \in schedule}
  IN IF M = {} THEN Never ELSE Earliest(M)

Minute == clock \div Pace
Asleep(wake) == [at |-> "asleep", wake |-> wake]
Resting == Asleep(clock + interval)

SchedulerInit ==
  /\ day \in {"plain", "longer", "shorter"}
  /\ schedule \in {S \in SUBSET Reading : Cardinality(S) \in 1 .. 2}
  /\ clock = 0
  /\ interval \in Intervals
  /\ tick = Asleep(0)
  /\ lastCheck = Never /\ lastRun = Never /\ runs = 0
  /\ backups = {}

-----------------------------------------------------------------------------
ClockRuns ==
  /\ clock < LastInstant * Pace
  /\ clock' = clock + 1
  /\ UNCHANGED <<day, schedule, interval, tick, lastCheck, lastRun, runs, backups>>

\* Faulty: what was checked a moment ago is checked again.
DueEachTick(i) == Wall(i) \in schedule

\* The subtraction of two datetimes of one zone is one of readings.
Due(i) == Wall(i) \in schedule /\ (lastCheck = Never \/ Wall(i) > lastCheck)

TickBegins ==
  /\ tick.at = "asleep" /\ clock >= tick.wake
  /\ tick' = IF Due(Minute) THEN [at |-> "check", now |-> Minute]
             ELSE Resting
  /\ UNCHANGED <<day, schedule, clock, interval, lastCheck, lastRun, runs,
                 backups>>

\* The worker is asked for, and then the active backups; either may end the
\* matter, and the minute counts as checked unless the asking itself failed.
TickChecks ==
  /\ tick.at = "check"
  /\ \/ /\ tick' = Resting
        /\ lastCheck' \in {lastCheck, Wall(tick.now)}
     \/ /\ backups = {}
        /\ tick' = [tick EXCEPT !.at = "dispatch"]
        /\ lastCheck' = Wall(tick.now)
  /\ UNCHANGED <<day, schedule, clock, interval, lastRun, runs, backups>>

\* dispatch_backup_for_target, which may still refuse.
TickDispatches ==
  /\ tick.at = "dispatch"
  /\ \/ /\ backups' = backups \union {"schedule"}
        /\ lastRun' = Wall(tick.now) /\ runs' = runs + 1
     \/ UNCHANGED <<backups, lastRun, runs>>
  /\ tick' = Resting
  /\ UNCHANGED <<day, schedule, clock, interval, lastCheck>>

ManualBackup ==
  /\ "manual" \notin backups
  /\ backups' = backups \union {"manual"}
  /\ UNCHANGED <<day, schedule, clock, interval, tick, lastCheck, lastRun, runs>>

BackupEnds ==
  /\ \E b \in backups : backups' = backups \ {b}
  /\ UNCHANGED <<day, schedule, clock, interval, tick, lastCheck, lastRun, runs>>

\* The Control Plane is started anew, perhaps with another interval: what
\* was checked is forgotten.
SchedulerRestart ==
  /\ lastCheck # Never
  /\ interval' \in Intervals
  /\ tick' = Asleep(clock)
  /\ lastCheck' = Never /\ lastRun' = Never /\ runs' = 0
  /\ UNCHANGED <<day, schedule, clock, backups>>

SchedulerNext ==
  \/ ClockRuns \/ TickBegins \/ TickChecks \/ TickDispatches
  \/ ManualBackup \/ BackupEnds \/ SchedulerRestart

SchedulerSpec == SchedulerInit /\ [][SchedulerNext]_schedulerVars

-----------------------------------------------------------------------------
(* Properties.                                                             *)

SchedulerTypeOK ==
  /\ day \in {"plain", "longer", "shorter"}
  /\ schedule \subseteq Reading
  /\ clock \in 0 .. (LastInstant * Pace)
  /\ tick \in [at : {"asleep"}, wake : Nat]
                \union [at : {"check", "dispatch"}, now : Instant]
  /\ lastCheck \in Reading \union {Never}
  /\ interval \in Intervals /\ runs \in Nat
  /\ lastRun \in Reading \union {Never}
  /\ backups \subseteq {"schedule", "manual"}

\* Until the Control Plane restarts every scheduled dispatch is for a later
\* reading of the wall clock than the one before: no reading starts two, in
\* two ticks of one minute or on the day on which an hour is read twice,
\* whatever the loop waits and however long a tick takes.  And a scheduled
\* backup is never dispatched on top of another, restarts or not.
OneRunPerReading ==
  [][ runs' > runs => lastRun' > lastRun /\ "schedule" \notin backups
    ]_schedulerVars

\* The first of the two passes through a repeated hour.
FirstPass(i) == day = "longer" /\ i >= ChangeAt /\ i < ChangeAt + Shift

\* The run that the preview announces is the next instant that the schedule
\* matches, across clock changes in both directions, unless one asks during
\* the first pass through a repeated hour.
PreviewExactOutsideFirstPass ==
  ~FirstPass(Minute) => NextRun(Minute) = FirstMatch(Minute)

\* The docstring of cron_next_run: "Return the next matching instant in UTC".
\* During the first pass a reading that has already gone by, and will come
\* again, is preferred to a later reading that comes first.
PreviewIsNextMatch == NextRun(Minute) = FirstMatch(Minute)
=============================================================================
