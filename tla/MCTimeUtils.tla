------------------------------ MODULE MCTimeUtils ------------------------------
(* All of a week, with hours of two minutes: up to a day early, and more.    *)
(* The clock is set in the second week, by an hour at most.                  *)
EXTENDS TimeUtils
AnyEarly == {-3, 0, 1, 5, 47, 48, 100}
AnyTyped == {-1, 0, 1, 2, 25}
AnyQuick == {5, 15, 30, 60}
ChangeMoment == Week + Day + 3
AnyMoment == {0, 3 * Day + 5, Week - 1, ChangeMoment - 1, ChangeMoment}
AnyChange == [at: {ChangeMoment}, by: {-2, 0, 2}]
=============================================================================
