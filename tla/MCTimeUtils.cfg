CONSTANTS
    HourMinutes = 2
    EarlyMinutes <- AnyEarly
    Typed <- AnyTyped
    QuickDelays <- AnyQuick
    Moments <- AnyMoment
    ClockChanges <- AnyChange
SPECIFICATION TimeSpec
INVARIANT RunsBeforeItsClass
INVARIANT RunsAfterItsDelay
INVARIANT ListedAsComputed
CHECK_DEADLOCK FALSE
