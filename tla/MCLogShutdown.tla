---------------------------- MODULE MCLogShutdown ----------------------------
(***************************************************************************)
(* LogShutdown for model checking.  The threads are not a symmetry set:    *)
(* the run checks liveness, for which symmetry is not sound.               *)
(***************************************************************************)
EXTENDS LogShutdown

=============================================================================
