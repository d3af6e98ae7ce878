------------------------------- MODULE TimeUtils -------------------------------
(***************************************************************************)
(* When does a class run?  A legacy record of config.json has the class's   *)
(* own time and the minutes to be early: from_dict (src/scheduling/models.py) *)
(* and src/scheduling/time_utils.py compute the run, and the migration of   *)
(* src/config/manager.py makes it a row of the store.  The form of          *)
(* src/ui/schedule_frame.py has a delay, previews the run and makes the row *)
(* itself.  ScheduleManager reads the row back as a local time.             *)
(*                                                                         *)
(* A moment is a number of minutes since midnight of some Saturday, the     *)
(* first day of the Persian week; a time of day is one below Day.  The local *)
(* clock shows the moment itself until it is set forward or back, once.     *)
(***************************************************************************)
EXTENDS Integers

CONSTANTS
    HourMinutes,    \* minutes of an hour: 60, fewer to check all of a week
    EarlyMinutes,   \* the values early_minutes may have
    Typed,          \* the numbers a delay field may hold
    QuickDelays,    \* the buttons beside the fields
    Moments,        \* when somebody looks at a schedule
    ClockChanges    \* at which moment the local clock is set, and by how much

ASSUME TimeConstants ==
    /\ HourMinutes \in Nat \ {0} /\ EarlyMinutes \subseteq Int
    /\ Typed \subseteq Int /\ QuickDelays \subseteq Nat \ {0} /\ Moments \subseteq Nat
    /\ ClockChanges \subseteq {c \in [at: Nat, by: Int] : c.at + c.by >= 0}

Day == 24 * HourMinutes
Week == 7 * Day
Weekdays == 0..6        \* PERSIAN_WEEKDAYS
Times == 0..Day - 1

NotBelowZero(n) == IF n < 0 THEN 0 ELSE n

-----------------------------------------------------------------------------
(* convert_24h_to_12h and convert_12h_to_24h.                                *)
To12h(time) ==
    LET hour == time \div HourMinutes
    IN [hour |-> IF hour % 12 = 0 THEN 12 ELSE hour % 12,
        minute |-> time % HourMinutes,
        period |-> IF hour < 12 THEN "AM" ELSE "PM"]

(* Variant: noon and midnight are taken as hour twelve of their half.        *)
To24hNaive(clock) ==
    (IF clock.period = "AM" THEN clock.hour ELSE clock.hour + 12) * HourMinutes + clock.minute

To24h(clock) ==
    LET hour == IF clock.period = "AM"
                THEN IF clock.hour = 12 THEN 0 ELSE clock.hour
                ELSE IF clock.hour = 12 THEN 12 ELSE clock.hour + 12
    IN hour * HourMinutes + clock.minute

(* actual_run_time: the time of day, and how many days before.               *)
ActualRunTime(start, early) ==
    LET actual == start - NotBelowZero(early)
    IN [time |-> actual % Day, offset |-> actual \div Day]

PreviousWeekday(weekday) == (weekday - 1) % 7

(* Variant: the day before is not looked for.                                *)
EffectiveSameDay(weekday, start, early) ==
    [weekday |-> weekday, time |-> ActualRunTime(start, early).time]

EffectiveForWeekday(weekday, start, early) ==
    LET run == ActualRunTime(start, early)
    IN [weekday |-> IF run.offset < 0 THEN PreviousWeekday(weekday) ELSE weekday,
        time |-> run.time]

(* Variant: one day before, as for weekdays.                                 *)
EffectiveOneDayBack(date, start, early) ==
    LET run == ActualRunTime(start, early)
    IN [date |-> IF run.offset < 0 THEN date - 1 ELSE date, time |-> run.time]

EffectiveForDate(date, start, early) ==
    LET run == ActualRunTime(start, early)
    IN [date |-> date + run.offset, time |-> run.time]

(* next_run_datetime of a weekly schedule.                                   *)
NextWeekly(weekday, time, now) ==
    LET today == now \div Day
        candidate == (today + ((weekday - (today % 7)) % 7)) * Day + time
    IN IF candidate <= now THEN candidate + Week ELSE candidate

-----------------------------------------------------------------------------
VARIABLES
    schedule,   \* a legacy record, or the two fields of the form
    change,     \* the one change of the local clock
    now,        \* the moment it is looked at
    preview,    \* the local time that the form's preview shows
    effective,  \* effective_run_weekday or _date, and effective_run_time
    next,       \* next_run, a local time
    row,        \* run_at_epoch, delay_hours and delay_minutes of its row
    listed      \* the local time that ScheduleManager makes of the row

timeVars == <<schedule, change, now, preview, effective, next, row, listed>>

Never == -Week
NoRow == [at |-> Never, hours |-> 0, minutes |-> 0]

Legacy == [recurrence: {"weekly", "once"}, day: Weekdays, start: Times, early: EarlyMinutes]
Fields == [recurrence: {"form"}, hours: Int, minutes: Int]

Local(moment) == IF moment < change.at THEN moment ELSE moment + change.by

(* datetime.timestamp of a naive local time: of one that the clock shows     *)
(* twice the first, of one that it skips the moment it would have been.      *)
EpochOf(local) ==
    IF local < change.at + NotBelowZero(change.by) THEN local ELSE local - change.by

(* Without a valid delay there is no schedule; text that is no number is     *)
(* refused like a negative one.                                              *)
NoDelay == 0

Delay(fields) ==
    IF fields.hours < 0 \/ fields.minutes \notin 0..HourMinutes - 1 THEN NoDelay
    ELSE fields.hours * HourMinutes + fields.minutes

Previewed(fields) == IF Delay(fields) = NoDelay THEN Never ELSE Local(now) + Delay(fields)

(* With the class in the second week, a date a few days back is a moment.    *)
(* The form starts with a delay of five minutes.                             *)
TimeInit ==
    /\ change \in ClockChanges /\ now \in Moments
    /\ schedule \in Legacy \cup {[recurrence |-> "form", hours |-> 0, minutes |-> 5 % HourMinutes]}
    /\ preview = IF schedule.recurrence = "form" THEN Previewed(schedule) ELSE Never
    /\ effective = [day |-> 0, time |-> Never] /\ next = Never
    /\ row = NoRow /\ listed = Never

-----------------------------------------------------------------------------
(* ClassSchedule.from_dict.                                                  *)
FromDict ==
    /\ schedule.recurrence # "form" /\ effective.time = Never
    /\ effective' =
        IF schedule.recurrence = "weekly"
        THEN LET run == EffectiveForWeekday(schedule.day, schedule.start, schedule.early)
             IN [day |-> run.weekday, time |-> run.time]
        ELSE LET run == EffectiveForDate(schedule.day + 7, schedule.start, schedule.early)
             IN [day |-> run.date, time |-> run.time]
    /\ UNCHANGED <<schedule, change, now, preview, next, row, listed>>

EffectiveMoment == effective.day * Day + effective.time

(* A record may have its next_run, from the version that wrote it.           *)
NextRunDatetime ==
    /\ schedule.recurrence # "form" /\ effective.time # Never
    /\ next = Never /\ row = NoRow
    /\ next' = IF schedule.recurrence = "weekly"
               THEN NextWeekly(effective.day, effective.time, Local(now))
               ELSE EffectiveMoment
    /\ UNCHANGED <<schedule, change, now, preview, effective, row, listed>>

(* _migrate_schedules_once and ScheduleManager.upsert: a weekly record       *)
(* without next_run has no date, and is passed over.                         *)
Migrates ==
    /\ schedule.recurrence # "form" /\ effective.time # Never /\ row = NoRow
    /\ next # Never \/ schedule.recurrence = "once"
    /\ row' = [at |-> EpochOf(IF next # Never THEN next ELSE EffectiveMoment),
               hours |-> 0, minutes |-> 0]
    /\ UNCHANGED <<schedule, change, now, preview, effective, next, listed>>

-----------------------------------------------------------------------------
(* The form: every write to a field renews the preview.                      *)
Types(hours, minutes) ==
    /\ schedule.recurrence = "form" /\ row = NoRow
    /\ schedule' = [schedule EXCEPT !.hours = hours, !.minutes = minutes]
    /\ preview' = Previewed(schedule')
    /\ UNCHANGED <<change, now, effective, next, row, listed>>

SetQuickDelay(minutes) == Types(minutes \div HourMinutes, minutes % HourMinutes)

(* The preview is not renewed as time goes by.                               *)
TimePasses ==
    /\ schedule.recurrence = "form" /\ row = NoRow
    /\ now' \in {moment \in Moments : moment > now}
    /\ UNCHANGED <<schedule, change, preview, effective, next, row, listed>>

(* Variant: the hours that timedelta keeps as days are left out.             *)
StoredWithinADay(delay) ==
    [hours |-> (delay % Day) \div HourMinutes, minutes |-> delay % HourMinutes]

(* What is stored of a timedelta, which is days and seconds of a day.        *)
Stored(delay) ==
    [hours |-> (delay \div Day) * 24 + (delay % Day) \div HourMinutes,
     minutes |-> (delay % Day) % HourMinutes]

(* save: _schedule_from_form and the row.                                    *)
Saves ==
    /\ schedule.recurrence = "form" /\ row = NoRow
    /\ Delay(schedule) # NoDelay
    /\ LET when == Local(now) + Delay(schedule)
           stored == Stored(Delay(schedule))
       IN /\ effective' = [day |-> when \div Day, time |-> when % Day]
          /\ next' = when
          /\ row' = [at |-> EpochOf(when), hours |-> stored.hours, minutes |-> stored.minutes]
    /\ UNCHANGED <<schedule, change, now, preview, listed>>

(* Variant: the row's epoch read as if the clock had never been set.         *)
ListsAsEpoch ==
    /\ row # NoRow /\ listed = Never
    /\ listed' = row.at
    /\ UNCHANGED <<schedule, change, now, preview, effective, next, row>>

(* ScheduleManager._model, for list and get.                                 *)
Lists ==
    /\ row # NoRow /\ listed = Never
    /\ listed' = Local(row.at)
    /\ UNCHANGED <<schedule, change, now, preview, effective, next, row>>

TimeNext ==
    \/ FromDict \/ NextRunDatetime \/ Migrates
    \/ \E hours, minutes \in Typed : Types(hours, minutes)
    \/ \E minutes \in QuickDelays : SetQuickDelay(minutes)
    \/ TimePasses \/ Saves \/ Lists

TimeSpec == TimeInit /\ [][TimeNext]_timeVars

-----------------------------------------------------------------------------
(* The moment of the class, in its own week.                                 *)
ClassMoment == schedule.day * Day + schedule.start
Early == NotBelowZero(schedule.early)

(* README, "a few minutes early": the run is the class's own time less the   *)
(* minutes to be early.  A weekly schedule runs next at the first moment     *)
(* after now that is that much before its class of some week.                *)
RunsBeforeItsClassHoweverEarly ==
    schedule.recurrence = "weekly" /\ next # Never =>
        /\ (next + Early) % Week = ClassMoment % Week
        /\ Local(now) < next /\ next <= Local(now) + Week

(* A dated one runs that much before its class, on whatever date that is.    *)
RunsBeforeItsDate ==
    schedule.recurrence = "once" /\ effective.time # Never =>
        /\ EffectiveMoment + Early = Week + ClassMoment
        /\ next \in {Never, EffectiveMoment}

(* A legacy schedule runs early by its minutes, at the next class; a weekly  *)
(* one if that is at most a day before the class.                            *)
RunsBeforeItsClass ==
    schedule.recurrence # "form" =>
        RunsBeforeItsDate /\ (Early <= Day => RunsBeforeItsClassHoweverEarly)

(* The clock shows this local time a second time after it was set back.      *)
ShownTwice(local) == change.at + change.by <= local /\ local < change.at

(* The form's row has the delay that was typed, days included, and is due    *)
(* after exactly that delay.  Not so if the clock is set meanwhile, or shows *)
(* the time of the run twice: then the first is taken.  And the run is not   *)
(* before the previewed time, unless the clock was set back.                 *)
RunsAfterItsDelay ==
    schedule.recurrence = "form" /\ row # NoRow =>
        LET delay == Delay(schedule)
        IN /\ row.hours * HourMinutes + row.minutes = delay
           /\ ~ShownTwice(next) /\ (change.at <= now \/ now + delay < change.at)
                => row.at = now + delay
           /\ change.by >= 0 => preview <= next

(* Whatever way it came to its row: the local time that is listed later is   *)
(* the one that was computed, previewed and stored, unless the clock skips   *)
(* it; then it is later by as much as the clock was set forward.             *)
ListedAsComputed ==
    listed # Never =>
        LET local == IF next # Never THEN next ELSE EffectiveMoment
        IN listed = IF change.at <= local /\ local < change.at + change.by
                    THEN local + change.by ELSE local

(* A twelve-hour clock and the stored time say the same.                     *)
ClockRoundTrip ==
    \A time \in Times :
        /\ To24h(To12h(time)) = time
        /\ To12h(time).hour \in 1..12
=============================================================================
