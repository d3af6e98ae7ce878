--------------------------- MODULE MCAdobeProcesses ---------------------------
(* Model values for AdobeProcesses: pids are interchangeable.                *)
EXTENDS AdobeProcesses, TLC

PidSymmetry == Permutations(Pids)
=============================================================================
