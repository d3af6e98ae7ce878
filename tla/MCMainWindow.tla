----------------------------- MODULE MCMainWindow -----------------------------
(* Model values for MainWindow: two class cards and three threads.           *)
EXTENDS MainWindow
CONSTANTS quran, ethics
=============================================================================
