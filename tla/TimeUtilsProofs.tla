---------------------------- MODULE TimeUtilsProofs ----------------------------
(***************************************************************************)
(* Proofs about TimeUtils: hours of any length, any minutes to be early,    *)
(* any delay, any change of the local clock.  First the arithmetic that the *)
(* calendar rests on, with the length of a day as an unknown.               *)
(***************************************************************************)
EXTENDS TimeUtils, TLAPS

LEMMA DivMod ==
    ASSUME NEW x \in Int, NEW d \in Nat \ {0}
    PROVE  /\ x \div d \in Int /\ x % d \in 0..d - 1
           /\ x = d * (x \div d) + (x % d)
OBVIOUS

LEMMA Multiples ==
    ASSUME NEW q \in Int, NEW d \in Nat \ {0}
    PROVE  /\ d * q \in Int
           /\ q >= 1 => d * q >= d
           /\ q <= -1 => d * q <= -d
OBVIOUS

(* Quotient and remainder are unique.                                        *)
LEMMA DivModUnique ==
    ASSUME NEW q \in Int, NEW d \in Nat \ {0}, NEW r \in 0..d - 1
    PROVE  (d * q + r) \div d = q /\ (d * q + r) % d = r
<1> DEFINE x == d * q + r
<1> DEFINE e == x \div d - q
<1>1. x \in Int /\ d * q \in Int
    OBVIOUS
<1>2. x \div d \in Int /\ x % d \in 0..d - 1 /\ x = d * (x \div d) + (x % d)
    BY <1>1, DivMod
<1>3. e \in Int /\ d * (x \div d) = d * e + d * q
    BY <1>2
<1>4. d * e \in Int /\ d * e = r - (x % d)
    BY <1>1, <1>2, <1>3
<1>5. e = 0
    BY <1>2, <1>3, <1>4, Multiples
<1> QED
    BY <1>1, <1>2, <1>3, <1>4, <1>5

LEMMA DayType == HourMinutes \in Nat \ {0} /\ Day \in Nat \ {0} /\ Week = 7 * Day
BY TimeConstants DEF Day, Week

LEMMA HourOfDay ==
    ASSUME NEW time \in Times
    PROVE  /\ time \in Int /\ time \div HourMinutes \in 0..23
           /\ time % HourMinutes \in 0..HourMinutes - 1
           /\ time = (time \div HourMinutes) * HourMinutes + (time % HourMinutes)
<1> DEFINE q == time \div HourMinutes
<1>1. time \in Int /\ 0 <= time /\ time < 24 * HourMinutes
    BY DayType DEF Times, Day
<1>2. /\ q \in Int /\ time % HourMinutes \in 0..HourMinutes - 1
      /\ time = HourMinutes * q + (time % HourMinutes)
    BY <1>1, DayType, DivMod
<1>3. HourMinutes * q \in Int /\ HourMinutes * q = q * HourMinutes
    BY <1>2, DayType
<1>4. q >= 0
    BY <1>1, <1>2, <1>3, DayType, Multiples
<1>5. HourMinutes * (q - 23) = HourMinutes * q - 23 * HourMinutes
    BY <1>2, DayType
<1>6. q - 23 <= 0
    BY <1>1, <1>2, <1>3, <1>5, DayType, Multiples
<1>7. time = q * HourMinutes + (time % HourMinutes)
    <2> HIDE DEF q
    <2> QED
        BY <1>2, <1>3, Zenon
<1>8. q \in 0..23
    <2> HIDE DEF q
    <2> QED
        BY <1>2, <1>4, <1>6
<1> QED
    BY <1>1, <1>2, <1>7, <1>8

LEMMA HourRoundTrip ==
    ASSUME NEW hour \in 0..23
    PROVE  LET twelve == IF hour % 12 = 0 THEN 12 ELSE hour % 12
           IN /\ twelve \in 1..12
              /\ hour = IF hour < 12 THEN IF twelve = 12 THEN 0 ELSE twelve
                       ELSE IF twelve = 12 THEN 12 ELSE twelve + 12
OBVIOUS

(* Noon and midnight included, a stored time survives the clock of twelve    *)
(* hours, for hours of any length.                                           *)
THEOREM ClockConversionsAgree == ClockRoundTrip
<1> SUFFICES ASSUME NEW time \in Times
             PROVE  To24h(To12h(time)) = time /\ To12h(time).hour \in 1..12
    BY DEF ClockRoundTrip
<1> DEFINE hour == time \div HourMinutes
<1>1. hour \in 0..23 /\ time = hour * HourMinutes + (time % HourMinutes)
    BY HourOfDay
<1>2. To12h(time).hour \in 1..12
    BY <1>1, HourRoundTrip DEF To12h
<1>3. To24h(To12h(time)) = hour * HourMinutes + (time % HourMinutes)
    <2> HIDE DEF hour
    <2>1. CASE hour < 12
        BY <1>1, <2>1, HourRoundTrip DEF To12h, To24h, hour
    <2>2. CASE ~(hour < 12)
        BY <1>1, <2>2, HourRoundTrip DEF To12h, To24h, hour
    <2> QED
        BY <2>1, <2>2
<1> QED
    BY <1>1, <1>2, <1>3

-----------------------------------------------------------------------------
(* actual_run_time, for any minutes to be early, and within a day.           *)
LEMMA RunTime ==
    ASSUME NEW start \in Times, NEW early \in Int
    PROVE  LET run == ActualRunTime(start, early)
           IN /\ run.time \in 0..Day - 1 /\ run.offset \in Int
              /\ Day * run.offset + run.time = start - NotBelowZero(early)
<1>1. start - NotBelowZero(early) \in Int
    BY DayType DEF Times, NotBelowZero
<1> QED
    BY <1>1, DivMod, DayType DEF ActualRunTime

LEMMA RunTimeWithinADay ==
    ASSUME NEW start \in Times, NEW early \in Int, NotBelowZero(early) <= Day
    PROVE  LET run == ActualRunTime(start, early)
           IN /\ run.time \in 0..Day - 1
              /\ \/ run.offset = 0 /\ run.time = start - NotBelowZero(early)
                 \/ run.offset = -1 /\ run.time = start - NotBelowZero(early) + Day
<1> DEFINE run == ActualRunTime(start, early)
<1>1. /\ run.time \in Int /\ 0 <= run.time /\ run.time < Day /\ run.offset \in Int
      /\ Day * run.offset + run.time = start - NotBelowZero(early)
    BY RunTime, DayType
<1>2. /\ start \in Int /\ 0 <= start /\ start < Day
      /\ NotBelowZero(early) \in Int /\ 0 <= NotBelowZero(early)
    BY DayType DEF Times, NotBelowZero
<1> HIDE DEF run
<1>3. Day * run.offset \in Int /\ (run.offset + 1) \in Int
      /\ Day * (run.offset + 1) = Day * run.offset + Day
    BY <1>1, DayType
<1>4. run.offset <= 0
    BY <1>1, <1>2, <1>3, DayType, Multiples
<1>5. run.offset + 1 >= 0
    BY <1>1, <1>2, <1>3, DayType, Multiples
<1>6. run.offset = 0 \/ run.offset = -1
    BY <1>1, <1>4, <1>5
<1> QED
    BY <1>1, <1>2, <1>6, DayType DEF run

(* The weekly candidate: the day of the week that is asked for, today or in  *)
(* the days after it.                                                        *)
LEMMA DaysAhead ==
    ASSUME NEW weekday \in Weekdays, NEW today \in Int
    PROVE  LET days == (weekday - (today % 7)) % 7
           IN /\ days \in 0..6
              /\ \E k \in Int : today + days = 7 * k + weekday
<1> DEFINE days == (weekday - (today % 7)) % 7
<1>1. today % 7 \in 0..6 /\ today \div 7 \in Int /\ today = 7 * (today \div 7) + (today % 7)
    OBVIOUS
<1>2. days \in 0..6
    BY <1>1 DEF Weekdays
<1>3. CASE weekday >= today % 7
    <2>1. today + days = 7 * (today \div 7) + weekday
        BY <1>1, <1>3 DEF Weekdays
    <2> QED
        BY <1>1, <1>2, <2>1
<1>4. CASE weekday < today % 7
    <2>1. today + days = 7 * (today \div 7 + 1) + weekday
        BY <1>1, <1>4 DEF Weekdays
    <2>2. today \div 7 + 1 \in Int
        BY <1>1
    <2> QED
        BY <1>2, <2>1, <2>2
<1> QED
    BY <1>1, <1>3, <1>4 DEF Weekdays

LEMMA NextWeeklyIsNext ==
    ASSUME NEW weekday \in Weekdays, NEW time \in 0..Day - 1, NEW local \in Int
    PROVE  LET moment == NextWeekly(weekday, time, local)
           IN /\ moment \in Int /\ local < moment /\ moment <= local + Week
              /\ \E k \in Int : moment = Week * k + (weekday * Day + time)
<1> DEFINE today == local \div Day
           days == (weekday - (today % 7)) % 7
           candidate == (today + days) * Day + time
<1>1. today \in Int /\ Day * today <= local /\ local < Day * today + Day
    BY DivMod, DayType
<1>2. days \in 0..6 /\ \E k \in Int : today + days = 7 * k + weekday
    BY <1>1, DaysAhead
<1>3. PICK k \in Int : today + days = 7 * k + weekday
    BY <1>2
<1>4. NextWeekly(weekday, time, local) = IF candidate <= local THEN candidate + Week ELSE candidate
    BY DEF NextWeekly
<1> HIDE DEF today, days
<1>5. /\ (today + days) * Day = Day * today + days * Day
      /\ days * Day \in Int /\ Day * today \in Int
    BY <1>1, <1>2, DayType
<1>6. 0 <= days * Day /\ days * Day <= 6 * Day
    BY <1>2, DayType
<1>7. /\ candidate \in Int
      /\ candidate <= local + Week /\ local < candidate + Week
    BY <1>1, <1>5, <1>6, DayType
<1>8. candidate = Week * k + (weekday * Day + time)
    <2>1. candidate = (7 * k + weekday) * Day + time
        BY <1>3
    <2>2. (7 * k + weekday) * Day = (7 * Day) * k + weekday * Day
        BY DayType DEF Weekdays
    <2>3. (7 * Day) * k \in Int /\ weekday * Day \in Int
        BY DayType DEF Weekdays
    <2> QED
        BY <2>1, <2>2, <2>3, DayType
<1>9. candidate + Week = Week * (k + 1) + (weekday * Day + time)
    BY <1>8, DayType DEF Weekdays
<1>10. k + 1 \in Int /\ Week \in Int
    BY DayType
<1> HIDE DEF candidate
<1>11. CASE candidate <= local
    <2>1. NextWeekly(weekday, time, local) = candidate + Week
        BY <1>4, <1>11
    <2>2. candidate + Week \in Int /\ local < candidate + Week /\ candidate + Week <= local + Week
        BY <1>7, <1>10, <1>11
    <2> QED
        BY <2>1, <2>2, <1>9, <1>10
<1>12. CASE ~(candidate <= local)
    <2>1. NextWeekly(weekday, time, local) = candidate
        BY <1>4, <1>12
    <2> QED
        BY <2>1, <1>7, <1>8, <1>12
<1> QED
    BY <1>11, <1>12

LEMMA PlaceInItsWeek ==
    ASSUME NEW k \in Int, NEW moment \in 0..Week - 1
    PROVE  (Week * k + moment) % Week = moment /\ moment % Week = moment
<1>1. Week \in Nat \ {0}
    BY DayType
<1>2. (Week * k + moment) % Week = moment
    BY <1>1, DivModUnique
<1>3. moment % Week = moment
    BY <1>1
<1> QED
    BY <1>2, <1>3

(* A weekly run at most a day before its class is at the class's own moment  *)
(* of the week, less the minutes to be early: Saturday's may be on Friday.   *)
LEMMA WeeklyRun ==
    ASSUME NEW day \in Weekdays, NEW start \in Times, NEW early \in Int,
           NotBelowZero(early) <= Day, NEW local \in Int
    PROVE  LET run == EffectiveForWeekday(day, start, early)
               moment == NextWeekly(run.weekday, run.time, local)
           IN /\ moment \in Int /\ local < moment /\ moment <= local + Week
              /\ (moment + NotBelowZero(early)) % Week = (day * Day + start) % Week
<1> DEFINE run == EffectiveForWeekday(day, start, early)
           actual == ActualRunTime(start, early)
           moment == NextWeekly(run.weekday, run.time, local)
           back == NotBelowZero(early)
<1>1. /\ actual.time \in 0..Day - 1
      /\ \/ actual.offset = 0 /\ actual.time = start - back
         \/ actual.offset = -1 /\ actual.time = start - back + Day
    BY RunTimeWithinADay
<1>2. /\ run.time = actual.time
      /\ run.weekday = IF actual.offset < 0 THEN PreviousWeekday(day) ELSE day
    BY DEF EffectiveForWeekday
<1>3. day \in 0..6 /\ start \in Int /\ 0 <= start /\ start < Day /\ back \in Int
    BY DayType DEF Weekdays, Times, NotBelowZero
<1>4. PreviousWeekday(day) = IF day = 0 THEN 6 ELSE day - 1
    BY <1>3 DEF PreviousWeekday
<1>5. run.weekday \in Weekdays /\ run.time \in 0..Day - 1
    BY <1>1, <1>2, <1>3, <1>4 DEF Weekdays
<1> HIDE DEF run, actual, back
<1>6. /\ moment \in Int /\ local < moment /\ moment <= local + Week
      /\ \E k \in Int : moment = Week * k + (run.weekday * Day + run.time)
    BY <1>5, NextWeeklyIsNext
<1>7. PICK k \in Int : moment = Week * k + (run.weekday * Day + run.time)
    BY <1>6
<1>8. day * Day + start \in 0..Week - 1
    BY <1>3, DayType
<1>9. \E w \in Int : moment + back = Week * w + (day * Day + start)
    <2> HIDE DEF moment
    <2>1. Week * k \in Int /\ Week * (k + 1) = Week * k + Week /\ k + 1 \in Int
        BY DayType
    <2>2. CASE actual.offset = 0
        <3>1. moment + back = Week * k + (day * Day + start)
            BY <1>1, <1>2, <1>3, <1>7, <2>1, <2>2, DayType
        <3> QED
            BY <3>1
    <2>3. CASE actual.offset = -1 /\ day = 0
        <3>1. moment + back = Week * (k + 1) + (day * Day + start)
            BY <1>1, <1>2, <1>3, <1>4, <1>7, <2>1, <2>3, DayType
        <3> QED
            BY <2>1, <3>1
    <2>4. CASE actual.offset = -1 /\ day # 0
        <3>1. run.weekday = day - 1 /\ run.time = start - back + Day
            BY <1>1, <1>2, <1>3, <1>4, <2>4
        <3>2. (day - 1) * Day = day * Day - Day /\ day * Day \in Int
            BY <1>3, DayType
        <3>3. moment + back = Week * k + (day * Day + start)
            BY <1>3, <1>7, <2>1, <3>1, <3>2, DayType
        <3> QED
            BY <3>3
    <2> QED
        BY <1>1, <2>2, <2>3, <2>4
<1>10. (moment + back) % Week = (day * Day + start) % Week
    BY <1>8, <1>9, PlaceInItsWeek
<1> QED
    BY <1>6, <1>10 DEF run, back

(* A dated run is that much before its class, on whatever date that is.      *)
LEMMA DatedRun ==
    ASSUME NEW date \in Int, NEW start \in Times, NEW early \in Int
    PROVE  LET run == EffectiveForDate(date, start, early)
           IN /\ run.date \in Int /\ run.time \in 0..Day - 1
              /\ run.date * Day + run.time + NotBelowZero(early) = date * Day + start
<1> DEFINE actual == ActualRunTime(start, early)
           run == EffectiveForDate(date, start, early)
<1>1. /\ actual.time \in 0..Day - 1 /\ actual.offset \in Int
      /\ Day * actual.offset + actual.time = start - NotBelowZero(early)
    BY RunTime
<1>2. run.date = date + actual.offset /\ run.time = actual.time
    BY DEF EffectiveForDate
<1>3. start \in Int /\ NotBelowZero(early) \in Int
    BY DayType DEF Times, NotBelowZero
<1> HIDE DEF actual, run
<1>4. /\ (date + actual.offset) * Day = date * Day + Day * actual.offset
      /\ date * Day \in Int /\ Day * actual.offset \in Int
    BY <1>1, DayType
<1>5. /\ run.date \in Int /\ run.time \in 0..Day - 1
      /\ run.date * Day + run.time + NotBelowZero(early) = date * Day + start
    <2>1. run.date \in Int /\ run.time \in 0..Day - 1
        BY <1>1, <1>2
    <2>2. run.date * Day = date * Day + Day * actual.offset
        BY <1>2, <1>4
    <2> QED
        BY <1>1, <1>2, <1>3, <1>4, <2>1, <2>2, DayType
<1> QED
    BY <1>5 DEF run

-----------------------------------------------------------------------------
(* The form: what is stored of a delay gives the delay again, days included. *)
LEMMA StoredDelay ==
    ASSUME NEW delay \in Nat
    PROVE  /\ Stored(delay).hours \in Int /\ Stored(delay).minutes \in Int
           /\ Stored(delay).hours * HourMinutes + Stored(delay).minutes = delay
<1> DEFINE days == delay \div Day
           rest == delay % Day
           hours == rest \div HourMinutes
           minutes == rest % HourMinutes
<1>1. days \in Int /\ rest \in Int /\ delay = Day * days + rest
    BY DivMod, DayType
<1> HIDE DEF days, rest
<1>2. hours \in Int /\ minutes \in Int /\ rest = HourMinutes * hours + minutes
    BY <1>1, DivMod, DayType
<1>3. Stored(delay) = [hours |-> days * 24 + hours, minutes |-> minutes]
    BY DEF Stored, days, rest
<1> HIDE DEF hours, minutes
<1>4. (days * 24 + hours) * HourMinutes = Day * days + HourMinutes * hours
    BY <1>1, <1>2, DayType DEF Day
<1>5. (days * 24 + hours) * HourMinutes + minutes = delay
    BY <1>1, <1>2, <1>4, DayType
<1> QED
    BY <1>1, <1>2, <1>3, <1>5

LEMMA DelayType ==
    ASSUME NEW fields \in Fields
    PROVE  Delay(fields) \in Nat
<1>1. fields.hours \in Int /\ fields.minutes \in Int
    BY DEF Fields
<1>2. CASE fields.hours < 0 \/ fields.minutes \notin 0..HourMinutes - 1
    BY <1>2 DEF Delay, NoDelay
<1>3. CASE fields.hours >= 0 /\ fields.minutes \in 0..HourMinutes - 1
    <2>1. fields.hours * HourMinutes \in Nat
        BY <1>1, <1>3, DayType
    <2> QED
        BY <1>1, <1>3, <2>1, DayType DEF Delay
<1> QED
    BY <1>1, <1>2, <1>3

-----------------------------------------------------------------------------
(* The local clock, and the moments that its times stand for.                *)
ClockType == change.at \in Nat /\ change.by \in Int /\ change.at + change.by >= 0

LEMMA LocalClock ==
    ASSUME ClockType, NEW moment \in Nat
    PROVE  /\ Local(moment) \in Nat
           /\ change.by >= 0 => \A later \in Nat : moment <= later => Local(moment) <= Local(later)
BY DEF ClockType, Local

LEMMA MomentOfLocal ==
    ASSUME ClockType, NEW local \in Int
    PROVE  /\ EpochOf(local) \in Int
           /\ Local(EpochOf(local)) = IF change.at <= local /\ local < change.at + change.by
                                      THEN local + change.by ELSE local
BY DEF ClockType, Local, EpochOf, NotBelowZero

LEMMA MomentAfterDelay ==
    ASSUME ClockType, NEW moment \in Nat, NEW delay \in Nat,
           ~ShownTwice(Local(moment) + delay), change.at <= moment \/ moment + delay < change.at
    PROVE  EpochOf(Local(moment) + delay) = moment + delay
BY DEF ClockType, Local, EpochOf, NotBelowZero, ShownTwice

-----------------------------------------------------------------------------
(* What is true of a schedule at any stage: its effective day and time, its  *)
(* next run and its row are what the stages before computed.                 *)
TimeTypes ==
    /\ ClockType /\ now \in Nat /\ schedule \in Legacy \cup Fields
    /\ effective.day \in Int /\ effective.time \in Int /\ next \in Int

LegacyStages ==
    schedule.recurrence # "form" =>
        /\ schedule \in Legacy
        /\ effective.time # Never =>
            \/ /\ schedule.recurrence = "weekly"
               /\ LET run == EffectiveForWeekday(schedule.day, schedule.start, schedule.early)
                  IN effective.day = run.weekday /\ effective.time = run.time
            \/ /\ schedule.recurrence = "once"
               /\ LET run == EffectiveForDate(schedule.day + 7, schedule.start, schedule.early)
                  IN effective.day = run.date /\ effective.time = run.time
        /\ next # Never =>
            /\ effective.time # Never
            /\ next = IF schedule.recurrence = "weekly"
                      THEN NextWeekly(effective.day, effective.time, Local(now))
                      ELSE EffectiveMoment
        /\ row # NoRow => effective.time # Never

FormStages ==
    schedule.recurrence = "form" =>
        /\ schedule \in Fields /\ preview \in Int
        /\ change.by >= 0 => preview <= Local(now) + Delay(schedule)
        /\ row # NoRow =>
            /\ next = Local(now) + Delay(schedule)
            /\ row.hours * HourMinutes + row.minutes = Delay(schedule)
            /\ row.at = EpochOf(next)

RowStages ==
    /\ row # NoRow => row.at = EpochOf(IF next # Never THEN next ELSE EffectiveMoment)
    /\ listed # Never => row # NoRow /\ listed = Local(row.at)

TimeInv == TimeTypes /\ LegacyStages /\ FormStages /\ RowStages

(* Effective days and times are those of a moment, and never look unset.     *)
LEMMA EffectiveTypes ==
    ASSUME NEW legacy \in Legacy
    PROVE  /\ legacy.day \in Weekdays /\ legacy.start \in Times /\ legacy.early \in Int
           /\ LET run == EffectiveForWeekday(legacy.day, legacy.start, legacy.early)
              IN run.weekday \in Weekdays /\ run.time \in 0..Day - 1
           /\ LET run == EffectiveForDate(legacy.day + 7, legacy.start, legacy.early)
              IN run.date \in Int /\ run.time \in 0..Day - 1
<1>1. legacy.day \in Weekdays /\ legacy.start \in Times /\ legacy.early \in Int
    BY TimeConstants DEF Legacy
<1> DEFINE weekly == EffectiveForWeekday(legacy.day, legacy.start, legacy.early)
           dated == EffectiveForDate(legacy.day + 7, legacy.start, legacy.early)
<1>2. weekly.weekday \in Weekdays /\ weekly.time \in 0..Day - 1
    <2>1. ActualRunTime(legacy.start, legacy.early).time \in 0..Day - 1
        BY <1>1, RunTime
    <2>2. PreviousWeekday(legacy.day) \in Weekdays
        BY <1>1 DEF PreviousWeekday, Weekdays
    <2> QED
        BY <1>1, <2>1, <2>2 DEF EffectiveForWeekday
<1>3. legacy.day + 7 \in Int
    BY <1>1 DEF Weekdays
<1>4. dated.date \in Int /\ dated.time \in 0..Day - 1
    BY <1>1, <1>3, DatedRun
<1> QED
    BY <1>1, <1>2, <1>4

LEMMA TimeInitial == TimeInit => TimeInv
<1> SUFFICES ASSUME TimeInit PROVE TimeInv
    OBVIOUS
<1> USE DEF TimeInit
<1>1. ClockType /\ now \in Nat
    BY TimeConstants DEF ClockType
<1>2. 5 % HourMinutes \in Int /\ Never \in Int /\ Never < 0
    BY DayType DEF Never
<1>3. schedule \in Legacy \cup Fields
    BY <1>2 DEF Fields
<1>4. effective.day = 0 /\ effective.time = Never
    OBVIOUS
<1>5. TimeTypes
    BY <1>1, <1>2, <1>3, <1>4 DEF TimeTypes
<1>6. LegacyStages
    BY <1>3, <1>4 DEF LegacyStages, Fields
<1>7. RowStages
    BY DEF RowStages
<1>8. FormStages
    <2> SUFFICES ASSUME schedule.recurrence = "form"
                 PROVE  /\ schedule \in Fields /\ preview \in Int
                        /\ change.by >= 0 => preview <= Local(now) + Delay(schedule)
        BY DEF FormStages
    <2>1. schedule \in Fields
        BY <1>3 DEF Legacy
    <2>2. Delay(schedule) \in Nat /\ Local(now) \in Nat
        BY <1>1, <2>1, DelayType, LocalClock
    <2> QED
        BY <1>2, <2>1, <2>2 DEF Previewed
<1> QED
    BY <1>5, <1>6, <1>7, <1>8 DEF TimeInv

(* One step for each of the actions; the facts about the schedule and the    *)
(* clock are needed by all.                                                  *)
LEMMA TimeStep == TimeInv /\ [TimeNext]_timeVars => TimeInv'
<1> SUFFICES ASSUME TimeInv, [TimeNext]_timeVars PROVE TimeInv'
    OBVIOUS
<1> USE DEF TimeInv
<1>0. /\ ClockType /\ now \in Nat /\ Local(now) \in Nat /\ Never \in Int /\ Never < 0
      /\ schedule.recurrence = "form" => schedule \in Fields
      /\ schedule.recurrence # "form" => schedule \in Legacy
    BY LocalClock, DayType DEF TimeTypes, LegacyStages, FormStages, Never
<1>1. CASE FromDict
    <2> USE DEF FromDict
    <2> DEFINE weekly == EffectiveForWeekday(schedule.day, schedule.start, schedule.early)
               dated == EffectiveForDate(schedule.day + 7, schedule.start, schedule.early)
    <2>1. /\ weekly.weekday \in Int /\ weekly.time \in Int
          /\ dated.date \in Int /\ dated.time \in Int
        BY <1>0, <1>1, EffectiveTypes, DayType DEF Weekdays
    <2> HIDE DEF weekly, dated
    <2>2. /\ schedule.recurrence = "weekly"
             => effective'.day = weekly.weekday /\ effective'.time = weekly.time
          /\ schedule.recurrence # "weekly"
             => effective'.day = dated.date /\ effective'.time = dated.time
        BY <1>1 DEF weekly, dated
    <2>3. TimeTypes'
        BY <1>1, <2>1, <2>2 DEF TimeTypes, ClockType
    <2>4. next = Never /\ row = NoRow /\ listed = Never
        BY <1>1 DEF LegacyStages, RowStages
    <2>5. LegacyStages'
        <3>1. schedule.recurrence \in {"weekly", "once"}
            BY <1>0, <1>1 DEF Legacy
        <3> QED
            BY <1>0, <1>1, <2>2, <2>4, <3>1 DEF LegacyStages, weekly, dated
    <2>6. FormStages' /\ RowStages'
        BY <1>1, <2>4 DEF FormStages, RowStages
    <2> QED
        BY <2>3, <2>5, <2>6
<1>2. CASE NextRunDatetime
    <2> USE DEF NextRunDatetime
    <2>1. /\ schedule \in Legacy /\ effective.time # Never
          /\ next = Never /\ row = NoRow /\ listed = Never
        BY <1>0, <1>2 DEF RowStages
    <2>2. EffectiveMoment \in Int
        BY DayType DEF TimeTypes, EffectiveMoment
    <2>3. schedule.recurrence = "weekly" => NextWeekly(effective.day, effective.time, Local(now)) \in Int
        <3> SUFFICES ASSUME schedule.recurrence = "weekly"
                     PROVE  NextWeekly(effective.day, effective.time, Local(now)) \in Int
            OBVIOUS
        <3>1. effective.day \in Weekdays /\ effective.time \in 0..Day - 1
            BY <1>2, <2>1, EffectiveTypes DEF LegacyStages
        <3> QED
            BY <1>0, <3>1, NextWeeklyIsNext
    <2>4. TimeTypes'
        BY <1>2, <2>2, <2>3 DEF TimeTypes, ClockType
    <2>5. LegacyStages'
        <3>1. EffectiveMoment' = EffectiveMoment /\ Local(now)' = Local(now)
            BY <1>2 DEF EffectiveMoment, Local
        <3> QED
            BY <1>2, <2>1, <3>1 DEF LegacyStages
    <2>6. FormStages' /\ RowStages'
        BY <1>2, <2>1 DEF FormStages, RowStages
    <2> QED
        BY <2>4, <2>5, <2>6
<1>3. CASE Migrates
    <2> USE DEF Migrates
    <2>1. TimeTypes'
        BY <1>3 DEF TimeTypes, ClockType
    <2>2. EffectiveMoment' = EffectiveMoment /\ Local(now)' = Local(now)
        BY <1>3 DEF EffectiveMoment, Local
    <2>3. LegacyStages'
        BY <1>3, <2>2 DEF LegacyStages
    <2>4. FormStages'
        BY <1>3 DEF FormStages
    <2>5. RowStages'
        <3> DEFINE local == IF next # Never THEN next ELSE EffectiveMoment
        <3>1. local' = local /\ EpochOf(local)' = EpochOf(local)
            BY <1>3, <2>2 DEF EpochOf
        <3> HIDE DEF local
        <3>2. row' = [at |-> EpochOf(local), hours |-> 0, minutes |-> 0]
            BY <1>3 DEF local
        <3>3. listed' = Never
            BY <1>3 DEF RowStages
        <3>4. row'.at = EpochOf(local)'
            BY <3>1, <3>2
        <3> QED
            BY <3>3, <3>4 DEF RowStages, local
    <2> QED
        BY <2>1, <2>3, <2>4, <2>5
<1>4. ASSUME NEW hours \in Int, NEW minutes \in Int, Types(hours, minutes)
      PROVE  TimeInv'
    <2> USE DEF Types
    <2>1. schedule \in Fields /\ schedule.recurrence = "form"
        BY <1>0, <1>4
    <2>2. schedule' \in Fields /\ schedule'.recurrence = "form"
        BY <1>4, <2>1 DEF Fields
    <2>3. row = NoRow /\ listed = Never
        BY <1>4 DEF RowStages
    <2>4. TimeTypes' /\ LegacyStages' /\ RowStages'
        BY <1>4, <2>2, <2>3 DEF TimeTypes, ClockType, LegacyStages, RowStages
    <2>5. Delay(schedule') \in Nat
        BY <2>2, DelayType
    <2>6. FormStages'
        <3>1. /\ preview' = IF Delay(schedule') = NoDelay THEN Never
                            ELSE Local(now) + Delay(schedule')
              /\ Local(now)' = Local(now)
            BY <1>4 DEF Previewed, Local
        <3> HIDE DEF Types
        <3>2. preview' \in Int /\ preview' <= Local(now)' + Delay(schedule')
            BY <1>0, <2>5, <3>1
        <3>3. row' = NoRow
            BY <1>4, <2>3 DEF Types
        <3> QED
            BY <2>2, <3>2, <3>3 DEF FormStages
    <2> QED
        BY <2>4, <2>6
<1>5. ASSUME NEW minutes \in QuickDelays, SetQuickDelay(minutes) PROVE TimeInv'
    <2>1. minutes \div HourMinutes \in Int /\ minutes % HourMinutes \in Int
        BY TimeConstants, DivMod
    <2> QED
        BY <1>4, <1>5, <2>1 DEF SetQuickDelay
<1>6. CASE TimePasses
    <2> USE DEF TimePasses
    <2>1. now' \in Nat /\ now <= now' /\ row = NoRow /\ listed = Never
        BY <1>0, <1>6, TimeConstants DEF RowStages
    <2>2. TimeTypes' /\ LegacyStages' /\ RowStages'
        BY <1>6, <2>1 DEF TimeTypes, ClockType, LegacyStages, RowStages
    <2>3. FormStages'
        <3>1. schedule \in Fields /\ Delay(schedule) \in Nat
            BY <1>0, <1>6, DelayType
        <3>2. Local(now)' \in Int /\ (change.by >= 0 => Local(now) <= Local(now)')
            <4>1. Local(now') = Local(now)'
                BY <1>6 DEF Local
            <4> QED
                BY <1>0, <2>1, <4>1, LocalClock
        <3>3. /\ schedule' = schedule /\ preview' = preview /\ change' = change /\ row' = NoRow
              /\ Delay(schedule)' = Delay(schedule)
            BY <1>6, <2>1 DEF Delay
        <3> HIDE DEF TimePasses
        <3>4. preview \in Int /\ (change.by >= 0 => preview <= Local(now) + Delay(schedule))
            BY <1>6 DEF TimePasses, FormStages
        <3>5. (change.by >= 0 => preview <= Local(now) + Delay(schedule))'
            <4> SUFFICES ASSUME change.by >= 0
                         PROVE  preview <= Local(now)' + Delay(schedule)
                BY <3>3
            <4> QED
                BY <1>0, <3>1, <3>2, <3>4
        <3> QED
            BY <3>1, <3>3, <3>4, <3>5 DEF FormStages
    <2> QED
        BY <2>2, <2>3
<1>7. CASE Saves
    <2> DEFINE delay == Delay(schedule)
               when == Local(now) + delay
    <2>1. /\ schedule.recurrence = "form" /\ schedule \in Fields /\ delay \in Nat
          /\ listed = Never /\ row = NoRow
        BY <1>0, <1>7, DelayType DEF Saves, RowStages
    <2>2. when \in Nat
        BY <1>0, <2>1
    <2>3. Delay(schedule)' = delay /\ (Local(now) + Delay(schedule))' = when /\ EpochOf(when)' = EpochOf(when)
        BY <1>7 DEF Saves, Delay, Local, EpochOf
    <2>4. /\ next' = when
          /\ effective' = [day |-> when \div Day, time |-> when % Day]
          /\ row' = [at |-> EpochOf(when), hours |-> Stored(delay).hours,
                     minutes |-> Stored(delay).minutes]
          /\ UNCHANGED <<schedule, change, now, preview, listed>>
        BY <1>7 DEF Saves
    <2> HIDE DEF delay, when
    <2>5. when \div Day \in Int /\ when % Day \in Int
        BY <2>2, DivMod, DayType
    <2>6. TimeTypes' /\ LegacyStages'
        BY <2>1, <2>2, <2>4, <2>5 DEF TimeTypes, ClockType, LegacyStages
    <2>7. /\ row'.at = EpochOf(when)
          /\ row'.hours * HourMinutes + row'.minutes = delay
        BY <2>1, <2>4, StoredDelay
    <2>8. next' # Never /\ EpochOf(next)' = EpochOf(when)
        <3>1. next' # Never
            BY <1>0, <2>2, <2>4
        <3>2. EpochOf(next)' = EpochOf(when)
            BY <2>4 DEF EpochOf
        <3> QED
            BY <3>1, <3>2
    <2>9. FormStages'
        <3>1. preview' \in Int /\ (change.by >= 0 => preview <= Local(now) + Delay(schedule))'
            <4>1. preview \in Int /\ (change.by >= 0 => preview <= when)
                BY <2>1 DEF FormStages, when, delay
            <4> QED
                BY <2>3, <2>4, <4>1
        <3> QED
            BY <2>1, <2>3, <2>4, <2>7, <2>8, <3>1 DEF FormStages
    <2>10. RowStages'
        <3>1. (IF next # Never THEN next ELSE EffectiveMoment)' = when
            BY <2>4, <2>8 DEF Never, Week, Day
        <3>2. row'.at = EpochOf(IF next # Never THEN next ELSE EffectiveMoment)'
            BY <2>4, <2>7, <3>1 DEF EpochOf
        <3> QED
            BY <2>1, <2>4, <3>2 DEF RowStages
    <2> QED
        BY <2>6, <2>9, <2>10
<1>8. CASE Lists
    <2> USE DEF Lists
    <2>1. /\ EffectiveMoment' = EffectiveMoment /\ Local(now)' = Local(now)
          /\ Local(row.at)' = Local(row.at) /\ Delay(schedule)' = Delay(schedule)
          /\ EpochOf(next)' = EpochOf(next)
          /\ EpochOf(IF next # Never THEN next ELSE EffectiveMoment)'
                = EpochOf(IF next # Never THEN next ELSE EffectiveMoment)
        BY <1>8 DEF EffectiveMoment, Local, Delay, EpochOf
    <2>2. TimeTypes' /\ LegacyStages'
        BY <1>8, <2>1 DEF TimeTypes, ClockType, LegacyStages
    <2>3. FormStages'
        BY <1>8, <2>1 DEF FormStages
    <2>4. RowStages'
        BY <1>8, <2>1 DEF RowStages
    <2> QED
        BY <2>2, <2>3, <2>4
<1>9. CASE UNCHANGED timeVars
    BY <1>9 DEF timeVars, TimeTypes, ClockType, LegacyStages, FormStages, RowStages,
                EffectiveMoment, Local, Delay, EpochOf
<1> QED
    BY <1>1, <1>2, <1>3, <1>4, <1>5, <1>6, <1>7, <1>8, <1>9, TimeConstants DEF TimeNext

LEMMA TimeInvariant == TimeSpec => []TimeInv
<1> QED
    BY TimeInitial, TimeStep, PTL DEF TimeSpec

(* Whatever the hour, the minutes to be early and the moment it is looked    *)
(* at, a legacy schedule runs that many minutes before its class.            *)
THEOREM LegacyRunsAreOnTime == TimeSpec => []RunsBeforeItsClass
<1>1. TimeInv => RunsBeforeItsClass
    <2> SUFFICES ASSUME TimeInv, schedule.recurrence # "form"
                 PROVE  RunsBeforeItsDate /\ (Early <= Day => RunsBeforeItsClassHoweverEarly)
        BY DEF RunsBeforeItsClass
    <2>1. /\ schedule \in Legacy
          /\ schedule.day \in Weekdays /\ schedule.start \in Times /\ schedule.early \in Int
        BY EffectiveTypes DEF TimeInv, LegacyStages
    <2>2. RunsBeforeItsDate
        <3> SUFFICES ASSUME schedule.recurrence = "once", effective.time # Never
                     PROVE  /\ EffectiveMoment + Early = Week + ClassMoment
                            /\ next \in {Never, EffectiveMoment}
            BY DEF RunsBeforeItsDate
        <3> DEFINE run == EffectiveForDate(schedule.day + 7, schedule.start, schedule.early)
        <3>1. effective.day = run.date /\ effective.time = run.time
            BY DEF TimeInv, LegacyStages
        <3>2. schedule.day + 7 \in Int
            BY <2>1 DEF Weekdays
        <3>3. run.date * Day + run.time + Early = (schedule.day + 7) * Day + schedule.start
            BY <2>1, <3>2, DatedRun DEF Early
        <3> HIDE DEF run
        <3>4. EffectiveMoment + Early = (schedule.day + 7) * Day + schedule.start
            BY <3>1, <3>3 DEF EffectiveMoment
        <3>5. (schedule.day + 7) * Day + schedule.start = Week + ClassMoment
            <4>1. (schedule.day + 7) * Day = schedule.day * Day + Week /\ schedule.day * Day \in Int
                BY <2>1, DayType DEF Weekdays
            <4> QED
                BY <2>1, <4>1, DayType DEF ClassMoment, Times
        <3>6. next \in {Never, EffectiveMoment}
            BY DEF TimeInv, LegacyStages
        <3> QED
            BY <3>4, <3>5, <3>6
    <2>3. Early <= Day => RunsBeforeItsClassHoweverEarly
        <3> SUFFICES ASSUME Early <= Day, schedule.recurrence = "weekly", next # Never
                     PROVE  /\ (next + Early) % Week = ClassMoment % Week
                            /\ Local(now) < next /\ next <= Local(now) + Week
            BY DEF RunsBeforeItsClassHoweverEarly
        <3> DEFINE run == EffectiveForWeekday(schedule.day, schedule.start, schedule.early)
        <3>1. /\ effective.day = run.weekday /\ effective.time = run.time
              /\ next = NextWeekly(effective.day, effective.time, Local(now))
            BY DEF TimeInv, LegacyStages
        <3>2. next = NextWeekly(run.weekday, run.time, Local(now))
            BY <3>1
        <3>3. Local(now) \in Int
            BY LocalClock DEF TimeInv, TimeTypes
        <3> QED
            BY <2>1, <3>2, <3>3, WeeklyRun DEF Early, ClassMoment
    <2> QED
        BY <2>2, <2>3
<1> QED
    BY <1>1, TimeInvariant, PTL

(* Whatever is typed, the row of the form's schedule has that delay, and is  *)
(* due when it is over.                                                      *)
THEOREM FormRunsAfterTheDelay == TimeSpec => []RunsAfterItsDelay
<1>1. TimeInv => RunsAfterItsDelay
    <2> SUFFICES ASSUME TimeInv, schedule.recurrence = "form", row # NoRow
                 PROVE  LET delay == Delay(schedule)
                        IN /\ row.hours * HourMinutes + row.minutes = delay
                           /\ ~ShownTwice(next) /\ (change.at <= now \/ now + delay < change.at)
                                => row.at = now + delay
                           /\ change.by >= 0 => preview <= next
        BY DEF RunsAfterItsDelay
    <2>1. /\ schedule \in Fields /\ next = Local(now) + Delay(schedule)
          /\ row.hours * HourMinutes + row.minutes = Delay(schedule)
          /\ row.at = EpochOf(next)
          /\ change.by >= 0 => preview <= next
        BY DEF TimeInv, FormStages
    <2>2. ClockType /\ now \in Nat /\ Delay(schedule) \in Nat
        BY <2>1, DelayType DEF TimeInv, TimeTypes
    <2> QED
        BY <2>1, <2>2, MomentAfterDelay
<1> QED
    BY <1>1, TimeInvariant, PTL

(* Whatever the clock was set to, the stored moment is read back as the      *)
(* local time it was made of, if there is such a time.                       *)
THEOREM RowsAreListedAsComputed == TimeSpec => []ListedAsComputed
<1>1. TimeInv => ListedAsComputed
    <2> SUFFICES ASSUME TimeInv, listed # Never PROVE ListedAsComputed
        BY DEF ListedAsComputed
    <2> DEFINE local == IF next # Never THEN next ELSE EffectiveMoment
    <2>1. listed = Local(EpochOf(local))
        BY DEF TimeInv, RowStages
    <2>2. ClockType /\ local \in Int
        BY DayType DEF TimeInv, TimeTypes, EffectiveMoment
    <2> HIDE DEF local
    <2>3. listed = IF change.at <= local /\ local < change.at + change.by
                   THEN local + change.by ELSE local
        BY <2>1, <2>2, MomentOfLocal
    <2> QED
        BY <2>3 DEF ListedAsComputed, local
<1> QED
    BY <1>1, TimeInvariant, PTL
=============================================================================
