---------------------------- MODULE LogCheckpoint ----------------------------
(***************************************************************************)
(* Checkpoints and the margins that call for them: log_check_margins,      *)
(* log_checkpoint_margin, log_preflush_pool_modified_pages,                *)
(* log_checkpoint, log_write_checkpoint_info, log_group_checkpoint,        *)
(* log_io_complete and log_make_checkpoint_at, with the threads that       *)
(* append redo, the i/o handler that completes a checkpoint write and the  *)
(* page cleaner that writes dirty pages.                                   *)
(*                                                                         *)
(* A step of a thread is a stretch of code under the log mutex, or a call  *)
(* made without it; no stretch under the mutex waits, so the mutex itself  *)
(* is not a variable.  log_write_up_to is one step (WriteUpToAtOnce of     *)
(* LogSys; module LogWriter has the steps of it), and so is the retry loop *)
(* of log_reserve_and_open (module LogReserve has its steps).  The log     *)
(* files are flushed with fsync.  The buffer pool is the set of the        *)
(* oldest_modification lsns of its dirty pages.  Changed page tracking and *)
(* archiving are off.  The server runs; module LogShutdown has the         *)
(* shutdown, and takes the steps of the threads from here.                 *)
(***************************************************************************)
EXTENDS LogSys, FiniteSets

CONSTANTS
    Threads,                  \* the threads that call into the log
    MtrLens,                  \* the lengths of redo a mini-transaction appends
    MaxLsn,                   \* bound: no call is begun beyond this lsn
    LSN_MAX,                  \* the largest lsn_t
    SIZE_OF_MLOG_CHECKPOINT,  \* bytes of the MLOG_CHECKPOINT marker
    WriteAlways,              \* the write_always of log_make_checkpoint_at
    ForegroundPreflush,       \* the values srv_foreground_preflush takes
    flush_log_at_trx_commit   \* thd_flush_log_at_trx_commit(NULL)

ASSUME /\ MtrLens \subseteq Nat \ {0}
       /\ SIZE_OF_MLOG_CHECKPOINT \in Nat \ {0}
       /\ WriteAlways \subseteq BOOLEAN /\ WriteAlways # {}
       /\ ForegroundPreflush \subseteq {"sync_preflush", "exp_backoff"}
       /\ ForegroundPreflush # {}
       /\ LSN_MAX > MaxLsn

VARIABLES
    log_sys,         \* log_t, the record of module LogSys
    files,           \* the log files: file headers and log blocks
    checkpoints,     \* the two checkpoint fields in the header of the first file
    checkpoint_io,   \* the write of a checkpoint field that fil_io was given
    dirty,           \* the oldest_modification of each dirty page of the pool
    batch_running,   \* the page cleaner is in a flush list batch
    pc,              \* where each thread is
    arg,             \* the parameters and locals of each thread
    mtr_ends,        \* history: the lsns at which record groups end
    promised_lsn     \* history: the highest lsn a log_checkpoint(sync = true)
                     \* that returned true was to checkpoint

vars == <<log_sys, files, checkpoints, checkpoint_io, dirty, batch_running,
          pc, arg, mtr_ends, promised_lsn>>

\* The offsets of the two checkpoint fields in the file header.
LOG_CHECKPOINT_1 == BLOCK
LOG_CHECKPOINT_2 == 3 * BLOCK

\* A checkpoint field of a fresh file, or one that a write has torn: its
\* checksums do not match.  synced: the field is on stable storage.
NoCheckpoint == [no |-> 0, lsn |-> 0, offset |-> 0, synced |-> FALSE]

NoIo == [state |-> "none", field |-> 0, buf |-> NoCheckpoint]

PcValues ==
    {"idle", "flush_margin", "checkpoint_margin", "margins_recheck",
     "preflush", "checkpoint", "checkpoint_flush", "checkpoint_write",
     "checkpoint_wait", "reserve"}

NoArg == [len |-> 0, new_oldest |-> 0, do_checkpoint |-> FALSE,
          sync |-> FALSE, write_always |-> FALSE, oldest_lsn |-> 0,
          flush_lsn |-> 0, caller |-> "none", success |-> FALSE]

\* An upper bound on the lsn advance of appending len bytes.
Growth(len) ==
    IF len = 0 THEN 0 ELSE len + (HDR + TRL) * (1 + len \div (BLOCK - HDR - TRL))

\* The parameters and locals a thread keeps when it goes to the place `to':
\* those of the calls it has returned from are forgotten.
Kept(a, to) ==
    IF to = "preflush" THEN a
    ELSE IF to = "checkpoint"
    THEN [a EXCEPT !.new_oldest = 0, !.do_checkpoint = FALSE,
                   !.oldest_lsn = 0, !.flush_lsn = 0, !.success = FALSE]
    ELSE [NoArg EXCEPT !.len = a.len]

Init ==
    /\ log_sys = log_group_init(log_init)
    /\ files = files_init
    /\ checkpoints = [f \in {LOG_CHECKPOINT_1, LOG_CHECKPOINT_2} |-> NoCheckpoint]
    /\ checkpoint_io = NoIo
    /\ dirty = {}
    /\ batch_running = FALSE
    /\ pc = [t \in Threads |-> "idle"]
    /\ arg = [t \in Threads |-> NoArg]
    /\ mtr_ends = {log_init.lsn}
    /\ promised_lsn = 0

-----------------------------------------------------------------------------
(* The buffer pool and the log it forces *)

\* buf_pool_get_oldest_modification(): 0 when no page is dirty.
buf_pool_get_oldest_modification == IF dirty = {} THEN 0 ELSE Min(dirty)

log_buf_pool_get_oldest_modification ==
    IF buf_pool_get_oldest_modification = 0 THEN log_sys.lsn
    ELSE buf_pool_get_oldest_modification

\* fil_flush() of the log files puts the checkpoint fields written so far
\* on stable storage with the log.
fil_flush(c) == [f \in DOMAIN c |-> [c[f] EXCEPT !.synced = c[f].lsn # 0]]

\* log_write_up_to(lsn, flush_to_disk), from the state (l, f).
LogWrittenUpTo(l, f, lsn, flush_to_disk) ==
    /\ \E done \in {WriteUpToAtOnce(l, f, lsn, flush_to_disk)} :
          log_sys' = done.log /\ files' = done.files
    /\ checkpoints' = IF flush_to_disk /\ l.flushed_to_disk_lsn < lsn
                      THEN fil_flush(checkpoints) ELSE checkpoints

\* The lsn up to which the log is flushed before the pages are written: the
\* end of the record group that made the youngest of them dirty.
NewestModification(pages) ==
    IF pages = {} THEN 0 ELSE Min({e \in mtr_ends : e > Max(pages)})

\* The pages are written to the data files, the log first, and leave the
\* flush list.
PagesFlushed(pages) ==
    /\ LogWrittenUpTo(log_sys, files, NewestModification(pages), TRUE)
    /\ dirty' = dirty \ pages

\* The page cleaner starts a flush list batch.
CleanerBegins ==
    /\ ~batch_running
    /\ dirty # {}
    /\ batch_running' = TRUE
    /\ UNCHANGED <<log_sys, files, checkpoints, checkpoint_io, dirty, pc, arg,
                   mtr_ends, promised_lsn>>

\* The batch ends: it has written the oldest dirty page, if one is left.
CleanerEnds ==
    /\ batch_running
    /\ PagesFlushed({d \in dirty : d = Min(dirty)})
    /\ batch_running' = FALSE
    /\ UNCHANGED <<checkpoint_io, pc, arg, mtr_ends, promised_lsn>>

-----------------------------------------------------------------------------
(* Mini-transactions: log_free_check, log_reserve_and_open, the append *)

\* A mini-transaction has len bytes of redo.  log_free_check() looks at
\* check_flush_or_checkpoint, without the mutex, and calls
\* log_check_margins() when it is set.
MtrStart(t, len) ==
    /\ pc[t] = "idle"
    /\ log_sys.lsn + Growth(len) <= MaxLsn
    /\ pc' = [pc EXCEPT ![t] = IF log_sys.check_flush_or_checkpoint
                               THEN "flush_margin" ELSE "reserve"]
    /\ arg' = [arg EXCEPT ![t].len = len]
    /\ UNCHANGED <<log_sys, files, checkpoints, checkpoint_io, dirty,
                   batch_running, mtr_ends, promised_lsn>>

\* Lines 311-326 of log_reserve_and_open: not enough room in the buffer;
\* the buffer is written out and the thread is at loop again.
ReserveNoSpace(t) ==
    /\ pc[t] = "reserve"
    /\ BufferTooFull(log_sys, arg[t].len)
    /\ LogWrittenUpTo(log_sys, files, log_sys.lsn, FALSE)
    /\ UNCHANGED <<checkpoint_io, dirty, batch_running, pc, arg, mtr_ends,
                   promised_lsn>>

\* log_reserve_and_open returns, the caller appends with log_write_low,
\* calls log_close and puts the page it changed, a clean one, on the flush
\* list with the lsn at which its redo starts.
MtrAppend(t) ==
    /\ pc[t] = "reserve"
    /\ ~BufferTooFull(log_sys, arg[t].len)
    /\ log_sys' = log_close(log_write_low(log_sys, arg[t].len),
                            buf_pool_get_oldest_modification)
    /\ dirty' = dirty \cup {log_sys.lsn}
    /\ mtr_ends' = mtr_ends \cup {log_sys'.lsn}
    /\ pc' = [pc EXCEPT ![t] = "idle"]
    /\ arg' = [arg EXCEPT ![t] = NoArg]
    /\ UNCHANGED <<files, checkpoints, checkpoint_io, batch_running,
                   promised_lsn>>

-----------------------------------------------------------------------------
(* log_check_margins() *)

\* log_flush_margin(): the buffer is written, not flushed, when it is
\* fuller than max_buf_free.
LogFlushMargin(t) ==
    /\ pc[t] = "flush_margin"
    /\ LogWrittenUpTo(log_sys, files,
                      IF log_sys.buf_free > log_sys.max_buf_free
                      THEN log_sys.lsn ELSE 0, FALSE)
    /\ pc' = [pc EXCEPT ![t] = "checkpoint_margin"]
    /\ UNCHANGED <<checkpoint_io, dirty, batch_running, arg, mtr_ends,
                   promised_lsn>>

\* Defect variant of log_checkpoint_margin: the flag is cleared although a
\* checkpoint is urgent.
log_checkpoint_margin_clears(l, oldest_lsn) ==
    LET age            == l.lsn - oldest_lsn
        checkpoint_age == l.lsn - l.last_checkpoint_lsn
    IN  [advance         |-> IF age > l.max_modified_age_sync
                             THEN 2 * (age - l.max_modified_age_sync) ELSE 0,
         checkpoint_sync |-> FALSE,
         do_checkpoint   |-> checkpoint_age > l.max_checkpoint_age_async,
         flag            |-> FALSE]

\* Defect variant of log_checkpoint_margin: the flag is left set when
\* nothing is urgent.
log_checkpoint_margin_flag_stays(l, oldest_lsn) ==
    [log_checkpoint_margin_clears(l, oldest_lsn) EXCEPT
        !.checkpoint_sync = l.lsn - l.last_checkpoint_lsn > l.max_checkpoint_age,
        !.do_checkpoint   = @ \/ l.lsn - l.last_checkpoint_lsn > l.max_checkpoint_age,
        !.flag            = TRUE]

\* Lines 2067-2095 of log_checkpoint_margin: how far the pool has to be
\* flushed ahead, whether a checkpoint is to be made and waited for, and
\* what check_flush_or_checkpoint is left at.
log_checkpoint_margin(l, oldest_lsn) ==
    LET age            == l.lsn - oldest_lsn
        checkpoint_age == l.lsn - l.last_checkpoint_lsn
        urgent         == checkpoint_age > l.max_checkpoint_age
    IN  [advance         |-> IF age > l.max_modified_age_sync
                             THEN 2 * (age - l.max_modified_age_sync) ELSE 0,
         checkpoint_sync |-> urgent,
         do_checkpoint   |-> urgent \/ checkpoint_age > l.max_checkpoint_age_async,
         flag            |-> urgent]

\* Lines 2062-2065: nothing asks for a flush or a checkpoint.
MarginQuiet(t) ==
    /\ pc[t] = "checkpoint_margin"
    /\ ~log_sys.check_flush_or_checkpoint
    /\ pc' = [pc EXCEPT ![t] = "margins_recheck"]
    /\ arg' = [arg EXCEPT ![t] = Kept(@, "margins_recheck")]
    /\ UNCHANGED <<log_sys, files, checkpoints, checkpoint_io, dirty,
                   batch_running, mtr_ends, promised_lsn>>

\* Where log_checkpoint_margin goes on after its preflush.
AfterPreflush(a) ==
    IF a.caller = "make" \/ a.do_checkpoint THEN "checkpoint"
    ELSE "margins_recheck"

\* Lines 2059-2117: the decision under the mutex, and the way it takes.
MarginDecide(t) ==
    /\ pc[t] = "checkpoint_margin"
    /\ log_sys.check_flush_or_checkpoint
    /\ LET oldest_lsn == log_buf_pool_get_oldest_modification
           m == log_checkpoint_margin(log_sys, oldest_lsn)
           a == [arg[t] EXCEPT
                   !.new_oldest    = IF m.advance > 0
                                     THEN oldest_lsn + m.advance ELSE 0,
                   !.do_checkpoint = m.do_checkpoint,
                   !.sync          = m.checkpoint_sync,
                   !.write_always  = FALSE,
                   !.caller        = "margin"]
           to == IF m.advance > 0 THEN "preflush" ELSE AfterPreflush(a)
       IN  /\ log_sys' = [log_sys EXCEPT !.check_flush_or_checkpoint = m.flag]
           /\ arg' = [arg EXCEPT ![t] = Kept(a, to)]
           /\ pc' = [pc EXCEPT ![t] = to]
    /\ UNCHANGED <<files, checkpoints, checkpoint_io, dirty, batch_running,
                   mtr_ends, promised_lsn>>

\* Lines 2214-2226: the tracking and the archive margin have nothing to
\* wait for; the loop goes round while check_flush_or_checkpoint is set.
MarginsRecheck(t) ==
    /\ pc[t] = "margins_recheck"
    /\ pc' = [pc EXCEPT ![t] = IF log_sys.check_flush_or_checkpoint
                               THEN "flush_margin" ELSE "reserve"]
    /\ UNCHANGED <<log_sys, files, checkpoints, checkpoint_io, dirty,
                   batch_running, arg, mtr_ends, promised_lsn>>

-----------------------------------------------------------------------------
(* log_preflush_pool_modified_pages(new_oldest) *)

\* Lines 1554-1557: the thread flushes the pool itself (buf_flush_lists)
\* when the page cleaner is gone, when the server is set to do so, or when
\* all of the pool is to be flushed.
FlushesItself(a, cleaner_active) ==
    \/ ~cleaner_active
    \/ "sync_preflush" \in ForegroundPreflush
    \/ a.new_oldest = LSN_MAX

\* Lines 1552-1570: the thread flushes the pool up to new_oldest, after the
\* batch of the page cleaner it has to wait for.  cleaner_active:
\* buf_page_cleaner_is_active.
PreflushSyncWhen(t, cleaner_active) ==
    /\ pc[t] = "preflush"
    /\ FlushesItself(arg[t], cleaner_active)
    /\ ~batch_running
    /\ PagesFlushed({d \in dirty : d < arg[t].new_oldest})
    /\ pc' = [pc EXCEPT ![t] = AfterPreflush(arg[t])]
    /\ arg' = [arg EXCEPT ![t] = Kept(@, AfterPreflush(@))]
    /\ UNCHANGED <<checkpoint_io, batch_running, mtr_ends, promised_lsn>>

\* The same while the server runs: the page cleaner is active.
PreflushSync(t) == PreflushSyncWhen(t, TRUE)

\* The same, when a batch of the page cleaner is running: buf_flush_lists
\* fails, and log_checkpoint_margin (lines 2107-2114) raises
\* check_flush_or_checkpoint and begins again.
PreflushBusy(t) ==
    /\ pc[t] = "preflush"
    /\ arg[t].caller = "margin"
    /\ "sync_preflush" \in ForegroundPreflush
    /\ batch_running
    /\ log_sys' = [log_sys EXCEPT !.check_flush_or_checkpoint = TRUE]
    /\ pc' = [pc EXCEPT ![t] = "checkpoint_margin"]
    /\ arg' = [arg EXCEPT ![t] = Kept(@, "checkpoint_margin")]
    /\ UNCHANGED <<files, checkpoints, checkpoint_io, dirty, batch_running,
                   mtr_ends, promised_lsn>>

\* Lines 1572-1591: the thread waits, backing off, until the page cleaner
\* has flushed the pool up to new_oldest.
PreflushBackoffWhen(t, cleaner_active) ==
    /\ pc[t] = "preflush"
    /\ cleaner_active
    /\ arg[t].new_oldest # LSN_MAX /\ "exp_backoff" \in ForegroundPreflush
    /\ \/ buf_pool_get_oldest_modification = 0
       \/ buf_pool_get_oldest_modification >= arg[t].new_oldest
    /\ pc' = [pc EXCEPT ![t] = AfterPreflush(arg[t])]
    /\ arg' = [arg EXCEPT ![t] = Kept(@, AfterPreflush(@))]
    /\ UNCHANGED <<log_sys, files, checkpoints, checkpoint_io, dirty,
                   batch_running, mtr_ends, promised_lsn>>

\* The same while the server runs.
PreflushBackoff(t) == PreflushBackoffWhen(t, TRUE)

-----------------------------------------------------------------------------
(* log_checkpoint(sync, write_always) and log_make_checkpoint_at *)

\* log_make_checkpoint_at(LSN_MAX, write_always): all of the pool is
\* flushed, then log_checkpoint(true, write_always) is called until it
\* returns true.
log_make_checkpoint_at(t, write_always) ==
    /\ pc' = [pc EXCEPT ![t] = "preflush"]
    /\ arg' = [arg EXCEPT ![t] = [NoArg EXCEPT !.new_oldest = LSN_MAX,
                                               !.sync = TRUE,
                                               !.write_always = write_always,
                                               !.caller = "make"]]

\* A thread calls it.
MakeCheckpointAt(t, write_always) ==
    /\ pc[t] = "idle"
    /\ log_sys.lsn + Growth(SIZE_OF_MLOG_CHECKPOINT) <= MaxLsn
    /\ log_make_checkpoint_at(t, write_always)
    /\ UNCHANGED <<log_sys, files, checkpoints, checkpoint_io, dirty,
                   batch_running, mtr_ends, promised_lsn>>

\* log_checkpoint returns success to its caller: log_checkpoint_margin
\* begins again after a checkpoint it waited for, log_make_checkpoint_at
\* calls again after a failure.  What a successful call with sync promised
\* is noted: a checkpoint at lsn or after it.
Returns(t, success, lsn) ==
    LET a  == arg[t]
        to == IF a.caller = "margin"
              THEN IF a.sync THEN "checkpoint_margin" ELSE "margins_recheck"
              ELSE IF success THEN "idle" ELSE "checkpoint"
    IN  /\ pc' = [pc EXCEPT ![t] = to]
        /\ arg' = [arg EXCEPT ![t] = Kept(a, to)]
        /\ promised_lsn' = IF success /\ a.sync /\ lsn > promised_lsn
                           THEN lsn ELSE promised_lsn

\* Lines 1953-1960: nothing but the marker of the last checkpoint was
\* logged since, and the call returns true on the strength of that
\* checkpoint.
NothingLogged(write_always) ==
    /\ ~write_always
    /\ log_buf_pool_get_oldest_modification
         = log_sys.last_checkpoint_lsn + SIZE_OF_MLOG_CHECKPOINT

CheckpointNothingNew(t) ==
    /\ pc[t] = "checkpoint"
    /\ NothingLogged(arg[t].write_always)
    /\ Returns(t, TRUE, log_sys.last_checkpoint_lsn)
    /\ UNCHANGED <<log_sys, files, checkpoints, checkpoint_io, dirty,
                   batch_running, mtr_ends>>

\* Defect variant of do_write: the marker is always wanted.
do_write_always(l, flush_lsn, shutting_down) == TRUE

\* Lines 1974-1977: at shutdown no marker is wanted when the checkpoint is
\* made at the end of the log.
do_write(l, flush_lsn, shutting_down) ==
    ~shutting_down \/ flush_lsn # l.lsn

\* fil_names_clear(lsn, do_write): the MLOG_CHECKPOINT marker is appended to
\* the log as a record group, after the buffer has made room for it, when
\* do_write says so; no tablespace has a name to log.
fil_names_clear(l, f, write) ==
    LET room == IF BufferTooFull(l, SIZE_OF_MLOG_CHECKPOINT)
                THEN WriteUpToAtOnce(l, f, l.lsn, FALSE)
                ELSE [log |-> l, files |-> f]
    IN  IF write
        THEN [room EXCEPT !.log = log_close(log_write_low(@, SIZE_OF_MLOG_CHECKPOINT),
                                            buf_pool_get_oldest_modification)]
        ELSE [log |-> l, files |-> f]

\* Lines 1940-1984: under the mutex the thread reads the lsn the checkpoint
\* is to be at, the oldest modification in the pool, and appends the marker;
\* the log is to be flushed to its end.  shutting_down: srv_shutdown_state
\* is not SRV_SHUTDOWN_NONE.
CheckpointMarkWhen(t, shutting_down) ==
    /\ pc[t] = "checkpoint"
    /\ ~NothingLogged(arg[t].write_always)
    /\ \E marked \in {fil_names_clear(
                          log_sys, files,
                          do_write(log_sys, log_buf_pool_get_oldest_modification,
                                   shutting_down))} :
          /\ log_sys' = marked.log
          /\ files' = marked.files
          /\ mtr_ends' = mtr_ends \cup {marked.log.lsn}
          /\ arg' = [arg EXCEPT
                       ![t].oldest_lsn = log_buf_pool_get_oldest_modification,
                       ![t].flush_lsn  = marked.log.lsn]
    /\ pc' = [pc EXCEPT ![t] = "checkpoint_flush"]
    /\ UNCHANGED <<checkpoints, checkpoint_io, dirty, batch_running,
                   promised_lsn>>

\* The same while the server runs.
CheckpointMark(t) == CheckpointMarkWhen(t, FALSE)

\* Defect variant of CheckpointFlushLog: the log is written and not flushed.
CheckpointFlushLog_write_only(t) ==
    /\ pc[t] = "checkpoint_flush"
    /\ LogWrittenUpTo(log_sys, files, arg[t].flush_lsn, FALSE)
    /\ pc' = [pc EXCEPT ![t] = "checkpoint_write"]
    /\ arg' = [arg EXCEPT ![t].flush_lsn = 0]
    /\ UNCHANGED <<checkpoint_io, dirty, batch_running, mtr_ends, promised_lsn>>

\* Line 1986: log_write_up_to(flush_lsn, true), without the mutex.
CheckpointFlushLog(t) ==
    /\ pc[t] = "checkpoint_flush"
    /\ LogWrittenUpTo(log_sys, files, arg[t].flush_lsn, TRUE)
    /\ pc' = [pc EXCEPT ![t] = "checkpoint_write"]
    /\ arg' = [arg EXCEPT ![t].flush_lsn = 0]
    /\ UNCHANGED <<checkpoint_io, dirty, batch_running, mtr_ends, promised_lsn>>

\* Defect variant of AlreadyCheckpointed: no second look.
AlreadyCheckpointed_no_look(a) == FALSE

\* Lines 1990-1994: back under the mutex; another thread has made a
\* checkpoint at or after the lsn read.
AlreadyCheckpointed(a) ==
    ~a.write_always /\ log_sys.last_checkpoint_lsn >= a.oldest_lsn

CheckpointAlreadyDone(t) ==
    /\ pc[t] = "checkpoint_write"
    /\ AlreadyCheckpointed(arg[t])
    /\ Returns(t, TRUE, arg[t].oldest_lsn)
    /\ UNCHANGED <<log_sys, files, checkpoints, checkpoint_io, dirty,
                   batch_running, mtr_ends>>

\* The thread goes to wait for the checkpoint lock, or returns.
WaitsOrReturns(t, success) ==
    IF arg[t].sync
    THEN /\ pc' = [pc EXCEPT ![t] = "checkpoint_wait"]
         /\ arg' = [arg EXCEPT ![t].success = success]
         /\ UNCHANGED promised_lsn
    ELSE Returns(t, success, arg[t].oldest_lsn)

\* Lines 1998-2009: a checkpoint write is running.
CheckpointBusy(t) ==
    /\ pc[t] = "checkpoint_write"
    /\ ~AlreadyCheckpointed(arg[t])
    /\ log_sys.n_pending_checkpoint_writes > 0
    /\ WaitsOrReturns(t, FALSE)
    /\ UNCHANGED <<log_sys, files, checkpoints, checkpoint_io, dirty,
                   batch_running, mtr_ends>>

\* Defect variant of CheckpointField: always the first field.
CheckpointField_first(checkpoint_no) == LOG_CHECKPOINT_1

\* Line 1772: the field a checkpoint is written to.
CheckpointField(checkpoint_no) ==
    IF checkpoint_no % 2 = 1 THEN LOG_CHECKPOINT_2 ELSE LOG_CHECKPOINT_1

\* Lines 1711-1775: the field is built from log_sys and given to fil_io,
\* and the write is counted, the checkpoint lock taken with the first.
CheckpointIssued(l, lsn_offset) ==
    [log |-> [l EXCEPT !.n_pending_checkpoint_writes = @ + 1,
                       !.checkpoint_lock = TRUE],
     io  |-> [state |-> "issued",
              field |-> CheckpointField(l.next_checkpoint_no),
              buf   |-> [no     |-> l.next_checkpoint_no,
                         lsn    |-> l.next_checkpoint_lsn,
                         offset |-> lsn_offset,
                         synced |-> FALSE]]]

\* Defect variant of log_group_checkpoint: the offset is the one the group
\* keeps for its own lsn.
log_group_checkpoint_group_offset(l) == CheckpointIssued(l, l.group_lsn_offset)

\* log_group_checkpoint(group): the offset recorded is that of the lsn of
\* the checkpoint.
log_group_checkpoint(l) ==
    CheckpointIssued(l, log_group_calc_lsn_offset(l.next_checkpoint_lsn, l))

\* Defect variant of NextCheckpointLsn: the checkpoint is made at the end
\* of the log.
NextCheckpointLsn_log_end(a) == log_sys.lsn

\* Line 2011: the lsn of the checkpoint is the one read before the flush.
NextCheckpointLsn(a) == a.oldest_lsn

\* Lines 2011-2012, log_write_checkpoint_info and log_group_checkpoint: the
\* checkpoint is written to the field its number selects, the checkpoint
\* lock is taken for the time of the write, and the write is in flight: the
\* field holds nothing valid until it is complete.
CheckpointWrite(t) ==
    /\ pc[t] = "checkpoint_write"
    /\ ~AlreadyCheckpointed(arg[t])
    /\ log_sys.n_pending_checkpoint_writes = 0
    /\ \E written \in {log_group_checkpoint(
                           [log_sys EXCEPT !.next_checkpoint_lsn =
                                               NextCheckpointLsn(arg[t])])} :
          /\ log_sys' = written.log
          /\ checkpoint_io' = written.io
          /\ checkpoints' = [checkpoints EXCEPT ![written.io.field] = NoCheckpoint]
    /\ WaitsOrReturns(t, TRUE)
    /\ UNCHANGED <<files, dirty, batch_running, mtr_ends>>

\* Lines 1882-1886 and 2002-2006: rw_lock_s_lock on the checkpoint lock
\* returns when no checkpoint write is running.
CheckpointWaited(t) ==
    /\ pc[t] = "checkpoint_wait"
    /\ ~log_sys.checkpoint_lock
    /\ Returns(t, arg[t].success, arg[t].oldest_lsn)
    /\ UNCHANGED <<log_sys, files, checkpoints, checkpoint_io, dirty,
                   batch_running, mtr_ends>>

-----------------------------------------------------------------------------
(* The i/o handler: log_io_complete for a checkpoint write *)

\* Defect variant of CheckpointIsFlushed: the field is never flushed.
CheckpointIsFlushed_never == FALSE

\* Lines 1026-1037: the log files are flushed after the write of the
\* field, unless thd_flush_log_at_trx_commit is 2.
CheckpointIsFlushed == flush_log_at_trx_commit # 2

\* The write is complete; log_io_complete flushes the file.
IoWritten ==
    /\ checkpoint_io.state = "issued"
    /\ checkpoints' =
          LET written == [checkpoints EXCEPT ![checkpoint_io.field] = checkpoint_io.buf]
          IN  IF CheckpointIsFlushed THEN fil_flush(written) ELSE written
    /\ checkpoint_io' = [checkpoint_io EXCEPT !.state = "written"]
    /\ UNCHANGED <<log_sys, files, dirty, batch_running, pc, arg, mtr_ends,
                   promised_lsn>>

\* Defect variant of log_complete_checkpoint: the checkpoint lock is kept.
log_complete_checkpoint_keeps_lock(l) ==
    [l EXCEPT !.next_checkpoint_no  = @ + 1,
              !.last_checkpoint_lsn = l.next_checkpoint_lsn]

\* log_complete_checkpoint(): the checkpoint counts as made, and the
\* threads that wait for it are let go.
log_complete_checkpoint(l) ==
    [l EXCEPT !.next_checkpoint_no  = @ + 1,
              !.last_checkpoint_lsn = l.next_checkpoint_lsn,
              !.checkpoint_lock     = FALSE]

\* log_io_complete_checkpoint(): the last write of a checkpoint completes it.
log_io_complete_checkpoint(l) ==
    LET counted == [l EXCEPT !.n_pending_checkpoint_writes = @ - 1]
    IN  IF counted.n_pending_checkpoint_writes = 0
        THEN log_complete_checkpoint(counted) ELSE counted

\* log_io_complete then calls log_io_complete_checkpoint.
IoComplete ==
    /\ checkpoint_io.state = "written"
    /\ log_sys' = log_io_complete_checkpoint(log_sys)
    /\ checkpoint_io' = NoIo
    /\ UNCHANGED <<files, checkpoints, dirty, batch_running, pc, arg,
                   mtr_ends, promised_lsn>>

-----------------------------------------------------------------------------

ThreadStep(t) ==
    \/ \E len \in MtrLens : MtrStart(t, len)
    \/ ReserveNoSpace(t)
    \/ MtrAppend(t)
    \/ LogFlushMargin(t)
    \/ MarginQuiet(t)
    \/ MarginDecide(t)
    \/ MarginsRecheck(t)
    \/ PreflushSync(t)
    \/ PreflushBusy(t)
    \/ PreflushBackoff(t)
    \/ \E write_always \in WriteAlways : MakeCheckpointAt(t, write_always)
    \/ CheckpointNothingNew(t)
    \/ CheckpointMark(t)
    \/ CheckpointFlushLog(t)
    \/ CheckpointAlreadyDone(t)
    \/ CheckpointBusy(t)
    \/ CheckpointWrite(t)
    \/ CheckpointWaited(t)

Next ==
    \/ \E t \in Threads : ThreadStep(t)
    \/ IoWritten
    \/ IoComplete
    \/ CleanerBegins
    \/ CleanerEnds

Spec == Init /\ [][Next]_vars

-----------------------------------------------------------------------------
(* Properties *)

Blocks == [no : Nat, len : 0 .. BLOCK, frg : 0 .. BLOCK]

\* What a call in progress may still append beyond MaxLsn: its record and a
\* marker for each round of log_checkpoint_margin.
LsnBound == MaxLsn + 4 * Cardinality(Threads) * Growth(SIZE_OF_MLOG_CHECKPOINT)

CheckpointFields ==
    [no : Nat, lsn : 0 .. LsnBound, offset : 0 .. NFiles * FileSize - 1,
     synced : BOOLEAN]

TypeOK ==
    /\ log_sys.lsn \in LOG_START_LSN .. LsnBound
    /\ log_sys.buf \in [1 .. log_sys.buf_size \div BLOCK -> Blocks]
    /\ log_sys.buf_next_to_write \in 0 .. log_sys.buf_free
    /\ log_sys.buf_free \in 0 .. log_sys.buf_size
    /\ log_sys.check_flush_or_checkpoint \in BOOLEAN
    /\ log_sys.last_checkpoint_lsn \in LOG_START_LSN .. log_sys.lsn
    /\ log_sys.next_checkpoint_lsn \in 0 .. log_sys.lsn
    /\ log_sys.next_checkpoint_no \in Nat
    /\ log_sys.n_pending_checkpoint_writes \in {0, 1}
    /\ log_sys.checkpoint_lock = (log_sys.n_pending_checkpoint_writes > 0)
    /\ files.blk \in [1 .. NDiskBlocks -> Blocks]
    /\ checkpoints \in [{LOG_CHECKPOINT_1, LOG_CHECKPOINT_2} -> CheckpointFields]
    /\ checkpoint_io \in [state : {"none", "issued", "written"},
                          field : {0, LOG_CHECKPOINT_1, LOG_CHECKPOINT_2},
                          buf : CheckpointFields]
    /\ dirty \subseteq LOG_START_LSN .. LsnBound
    /\ batch_running \in BOOLEAN
    /\ pc \in [Threads -> PcValues]
    /\ arg \in [Threads -> [len : MtrLens \cup {0},
                            new_oldest : 0 .. LsnBound \cup {LSN_MAX},
                            do_checkpoint : BOOLEAN, sync : BOOLEAN,
                            write_always : BOOLEAN,
                            oldest_lsn : 0 .. LsnBound,
                            flush_lsn : 0 .. LsnBound,
                            caller : {"none", "margin", "make"},
                            success : BOOLEAN]]
    /\ mtr_ends \subseteq LOG_START_LSN .. LsnBound
    /\ promised_lsn \in 0 .. LsnBound

\* What log_group_read_checkpoint_info reads into checkpoint_buf: the
\* content of one of the two checkpoint fields of the first log file.
log_group_read_checkpoint_info(field) == checkpoints[field]

\* The checkpoint recovery would start from after a crash: of the fields on
\* stable storage with valid content, the one with the highest number.  The
\* set is empty when no checkpoint was made yet.
RecoveryCheckpoint ==
    LET durable == {log_group_read_checkpoint_info(f) : f \in DOMAIN checkpoints}
                     \cap [no : Nat, lsn : Nat \ {0}, offset : Nat, synced : {TRUE}]
    IN  {c \in durable : \A d \in durable : d.no <= c.no}

\* Write-ahead logging at the checkpoint: the log is flushed up to the lsn
\* of the checkpoint a crash would leave, and no page of the pool is dirty
\* from before it.  It is about log_checkpoint, which reads the oldest
\* modification under the mutex, gives the mutex up to flush the log, and
\* writes the lsn it read when it is back, while other threads append and
\* the page cleaner flushes.
CheckpointCoversPool ==
    \A c \in RecoveryCheckpoint :
        /\ c.lsn <= log_sys.flushed_to_disk_lsn
        /\ \A d \in dirty : c.lsn <= d

\* Recovery finds the log: what log_group_read_log_seg reads for the lsns
\* from the block of the checkpoint a crash would leave up to the end of the
\* written log, in the group that the checkpoint's lsn and offset describe,
\* is the log, block for block.  It is about the ring of files, in which
\* log_write_up_to overwrites the oldest log: log_close, log_check_margins
\* and log_checkpoint_margin must have moved the checkpoint on before that,
\* whatever the threads between their margin check and their append add up
\* to; about the tenth of the capacity log_calc_max_ages keeps back, which
\* has to cover the block the checkpoint lsn lies in; about the offset
\* log_group_checkpoint computes for an lsn behind the group's own; and
\* about the reads, which stop at the end of a file and go on behind the
\* header of the next where the writes did.
CheckpointFindsLog ==
    \A c \in RecoveryCheckpoint :
        LET start_lsn == ut_calc_align_down(c.lsn, BLOCK)
            end_lsn   == ut_calc_align(log_sys.write_lsn, BLOCK)
            group     == [group_lsn |-> c.lsn, group_lsn_offset |-> c.offset]
        IN  start_lsn < end_lsn =>
                log_group_read_log_seg(files, group, start_lsn, end_lsn)
                  = [i \in 1 .. (end_lsn - start_lsn) \div BLOCK |->
                        LogBlockAt(mtr_ends, start_lsn + (i - 1) * BLOCK,
                                   log_sys.write_lsn)]

\* What log_checkpoint(sync = true) promised by returning true stays true:
\* recovery after any later crash starts from a checkpoint at or after the
\* lsn that call was to checkpoint.  It is about the two fields written in
\* turn (line 1772), the flush of log_io_complete before the checkpoint
\* counts as made, and the checkpoints of other threads that follow.
PromisedCheckpointIsOnDisk ==
    promised_lsn > 0 =>
        \E c \in RecoveryCheckpoint : c.lsn >= promised_lsn

\* The log never grows a whole log group ahead of the last checkpoint: the
\* error of line 500 in log_close is not met.  It is about the threads that
\* passed log_free_check before the flag was raised and append after, and
\* about the markers that the calls of log_checkpoint append while a
\* checkpoint write is running; the reserve LOG_CHECKPOINT_FREE has to cover
\* both.
CheckpointAgeBounded ==
    log_sys.lsn - log_sys.last_checkpoint_lsn < log_sys.log_group_capacity

\* Checkpoints only advance: no step moves last_checkpoint_lsn back, and a
\* step that moves it takes the next checkpoint number.  It is about the
\* second look of log_checkpoint at last_checkpoint_lsn (line 1990), after
\* the flush during which other threads made their checkpoints; the ages
\* log_close and log_checkpoint_margin compute rely on it.
CheckpointAdvances ==
    [][/\ log_sys'.last_checkpoint_lsn >= log_sys.last_checkpoint_lsn
       /\ log_sys'.last_checkpoint_lsn > log_sys.last_checkpoint_lsn
             => log_sys'.next_checkpoint_no = log_sys.next_checkpoint_no + 1]_vars

\* The abstract log this module implements.  The checkpoint is the one
\* recovery would start from; log_write_up_to is one step here, so that
\* flushed_to_disk_lsn is the stable end of the log.
WAL == INSTANCE WriteAheadLog WITH
    log_end     <- log_sys.lsn,
    written_end <- log_sys.write_lsn,
    durable_end <- log_sys.flushed_to_disk_lsn,
    acked       <- 0,
    checkpoint  <- Max({0} \cup {c.lsn : c \in RecoveryCheckpoint})

\* Every step of the threads, the i/o handler and the page cleaner is a
\* step of the write-ahead log, or changes nothing of it: pages leave the
\* flush list only with their redo flushed, and the checkpoint on disk only
\* moves forward, to an lsn that is flushed and that no dirty page is
\* behind at the moment the field reaches the disk.  It is about the lsn
\* log_checkpoint reads several steps before log_io_complete makes it the
\* checkpoint, and about the field that the write of the next checkpoint
\* destroys while it is in flight.
ImplementsWriteAheadLog == WAL!Spec

=============================================================================
