------------------------------ MODULE MCFullFlow ------------------------------
(* Model values for FullFlow: two courses, the name of one part of the       *)
(* other's, a third course, and the configurations of the GUI and the worker. *)
EXTENDS FullFlow

CONSTANTS algebra, algebraTwo, physics

MCPartOf == {<<algebra, algebraTwo>>}

AnyConfig == Config
=============================================================================
