----------------------------- MODULE MCConfigFile -----------------------------
(* Model values for ConfigFile: an old file with a schedule that has an id   *)
(* and a date, one without a date and one without an id.                     *)
EXTENDS ConfigFile
CONSTANTS dated, undated, idless
=============================================================================
