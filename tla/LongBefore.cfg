CONSTANTS
    HourMinutes = 2
    EarlyMinutes <- AnyEarly
    Typed <- AnyTyped
    QuickDelays <- AnyQuick
    Moments <- AnyMoment
    ClockChanges <- AnyChange
SPECIFICATION TimeSpec
INVARIANT RunsBeforeItsClassHoweverEarly
CHECK_DEADLOCK FALSE
