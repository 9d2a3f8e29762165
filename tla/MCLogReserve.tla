---------------------------- MODULE MCLogReserve ----------------------------
(***************************************************************************)
(* LogReserve for model checking.  The sizes are scaled down as for        *)
(* LogWriter: a block of 10 bytes, a page of 20, a buffer of 4 pages.  A   *)
(* record of 42 bytes or more is longer than half of the buffer and makes  *)
(* its mini-transaction extend it; the margins are small enough for a      *)
(* write to leave the buffer uncompacted with its tail in the second       *)
(* block, so that the reallocation has something to rebase.                *)
(***************************************************************************)
EXTENDS LogReserve, TLC

ThreadSymmetry == Permutations(Threads)

=============================================================================
