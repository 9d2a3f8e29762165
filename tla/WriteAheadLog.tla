---------------------------- MODULE WriteAheadLog ----------------------------
(***************************************************************************)
(* What the redo log promises to the rest of the server, without the       *)
(* buffer, the blocks, the files and the threads that keep the promise.    *)
(*                                                                         *)
(* The log is a sequence of bytes numbered by lsn.  It has three ends: the *)
(* lsn up to which redo has been appended, the lsn up to which it has been *)
(* handed to the operating system, and the lsn up to which it is on stable *)
(* storage.  A page changed in memory is known by the lsn at which the     *)
(* redo of its first unwritten change starts.  The checkpoint is the lsn   *)
(* from which recovery would read the log after a crash.                   *)
(*                                                                         *)
(* The rules are those of write-ahead logging: a commit is acknowledged    *)
(* only when its redo is on stable storage, a page is written only when    *)
(* the redo of its changes is, and the checkpoint never passes the stable  *)
(* end of the log nor the redo of a page that is still to be written.      *)
(* Modules LogWriter and LogCheckpoint implement this specification.       *)
(***************************************************************************)
EXTENDS Naturals

VARIABLES
    log_end,      \* redo has been appended up to this lsn
    written_end,  \* ... and handed to the operating system up to this one
    durable_end,  \* ... and is on stable storage up to this one
    acked,        \* the highest lsn a caller was told is on stable storage
    dirty,        \* for each page to be written, the lsn where its redo starts
    checkpoint    \* the lsn recovery starts from, 0 before the first checkpoint

vars == <<log_end, written_end, durable_end, acked, dirty, checkpoint>>

Init ==
    /\ log_end \in Nat /\ written_end \in Nat /\ durable_end \in Nat
    /\ durable_end <= written_end /\ written_end <= log_end
    /\ acked = 0
    /\ dirty = {}
    /\ checkpoint = 0

\* The operating system is given more of the log, and more of what it was
\* given reaches stable storage.
Hardens ==
    /\ written_end' \in written_end .. log_end
    /\ durable_end' \in durable_end .. written_end'

\* Redo is appended, for pages that become dirty by it or for none.  The
\* appender may first have written out log to make room.
Append ==
    /\ log_end' > log_end
    /\ dirty \subseteq dirty'
    /\ \A p \in dirty' \ dirty : log_end <= p /\ p < log_end'
    /\ written_end' \in written_end .. log_end
    /\ UNCHANGED <<durable_end, acked, checkpoint>>

\* Log is written, or flushed, or both.
WriteOut ==
    /\ Hardens
    /\ <<written_end', durable_end'>> # <<written_end, durable_end>>
    /\ UNCHANGED <<log_end, acked, dirty, checkpoint>>

\* A caller learns that the log up to an lsn is on stable storage.
Acknowledge ==
    /\ acked' \in acked + 1 .. durable_end
    /\ UNCHANGED <<log_end, written_end, durable_end, dirty, checkpoint>>

\* Pages are written to the data files, their redo first.
FlushPages ==
    /\ dirty' \subseteq dirty /\ dirty' # dirty
    /\ Hardens
    /\ \A p \in dirty \ dirty' : p < durable_end'
    /\ UNCHANGED <<log_end, acked, checkpoint>>

\* The checkpoint moves forward, to an lsn whose redo is on stable storage
\* and before which no page is left to write.
Checkpoint ==
    /\ checkpoint' > checkpoint
    /\ checkpoint' <= durable_end
    /\ \A p \in dirty : checkpoint' <= p
    /\ UNCHANGED <<log_end, written_end, durable_end, acked, dirty>>

Next ==
    \/ Append
    \/ WriteOut
    \/ Acknowledge
    \/ FlushPages
    \/ Checkpoint

Spec == Init /\ [][Next]_vars

=============================================================================
