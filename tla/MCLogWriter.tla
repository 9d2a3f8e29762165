----------------------------- MODULE MCLogWriter -----------------------------
(***************************************************************************)
(* LogWriter for model checking.  The configurations scale the sizes of    *)
(* log0log.cc down (a block of 10 bytes: 1 of header, 8 of payload, 1 of   *)
(* trailer) so that a few mini-transactions fill the buffer, make it       *)
(* compact, cross the end of a log file and wrap around the ring of files. *)
(***************************************************************************)
EXTENDS LogWriter, TLC

ThreadSymmetry == Permutations(Threads)

(***************************************************************************)
(* The part of a state that can still be read.  Left out are the blocks of *)
(* the buffer outside the live area (log_write_low initialises a block     *)
(* before it uses it, log_write_up_to zeroes the padding before it writes  *)
(* it), the blocks of the files behind the oldest block the log still      *)
(* answers for (no step reads the files), and the record group ends        *)
(* that are before that block and too old for a caller to ask for.         *)
(***************************************************************************)
LiveState ==
    <<[log_sys EXCEPT !.buf = [i \in LiveBufBlocks |-> @[i]]],
      [S \in BlockLsns(OldestOnDisk, log_sys.write_lsn) |-> files.blk[RingBlock(S)]],
      files.hdr, synced_lsn, srv_unix_file_flush_method, pc, arg,
      {m \in mtr_ends : m >= OldestOnDisk \/ m \in CallLsns}, acked>>

=============================================================================
