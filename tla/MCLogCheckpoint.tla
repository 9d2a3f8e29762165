--------------------------- MODULE MCLogCheckpoint ---------------------------
(***************************************************************************)
(* LogCheckpoint for model checking.  The configurations scale the sizes   *)
(* of log0log.cc down: a block of 10 bytes, three log files of two blocks  *)
(* of log each, records and markers of 4 bytes, so that a dozen record     *)
(* groups take the log once round the ring of files and the ages that      *)
(* log_calc_max_ages derives from it are all met.                          *)
(***************************************************************************)
EXTENDS LogCheckpoint, TLC

ThreadSymmetry == Permutations(Threads)

=============================================================================
