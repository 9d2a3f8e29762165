----------------------------- MODULE LogReserve -----------------------------
(***************************************************************************)
(* How a mini-transaction gets room in the log buffer: the retry loop of   *)
(* log_reserve_and_open, the growing of the buffer by log_buffer_extend,   *)
(* and the log mutex that both take and give up around their waits.        *)
(*                                                                         *)
(* The log mutex is a variable here, and a thread's steps are the          *)
(* stretches of code between two operations on it.  What a thread does     *)
(* inside log_write_up_to is one step (WriteUpToAtOnce of LogSys); module  *)
(* LogWriter has the steps of it.                                          *)
(*                                                                         *)
(* The retry counter `count' of log_reserve_and_open is incremented inside *)
(* ut_ad() only, so it stays 0 in a build without debug assertions; that   *)
(* build is the one modelled.                                              *)
(***************************************************************************)
EXTENDS LogSys, FiniteSets, SequencesExt

CONSTANTS
    Threads,             \* the threads that commit mini-transactions
    MtrLens,             \* the lengths of redo a mini-transaction may append
    MaxLsn,              \* bound: no append is begun that could pass this lsn
    UNIV_PAGE_SIZE,      \* srv_log_buffer_size counts pages of this size
    TrackChangedPages,   \* srv_track_changed_pages at startup
    TrackingRetries,     \* the 50 of line 351
    NoOwner              \* the value of a free mutex

ASSUME /\ UNIV_PAGE_SIZE % BLOCK = 0 /\ UNIV_PAGE_SIZE > 0
       /\ LOG_BUFFER_SIZE % UNIV_PAGE_SIZE = 0
       /\ TrackChangedPages \in BOOLEAN
       /\ TrackingRetries \in Nat
       /\ NoOwner \notin Threads

VARIABLES
    log_sys,                  \* log_t, the record of module LogSys
    files,                    \* the log files
    mutex,                    \* the owner of log_sys->mutex, or NoOwner
    srv_log_buffer_size,      \* the size of the log buffer in pages
    srv_track_changed_pages,  \* changed page tracking is on
    tracked_lsn,              \* how far the tracking thread has read the log
    pc,                       \* where each thread is
    arg,                      \* the parameters and locals of each thread
    mtr_ends                  \* history: the lsns at which record groups end

vars == <<log_sys, files, mutex, srv_log_buffer_size, srv_track_changed_pages,
          tracked_lsn, pc, arg, mtr_ends>>

\* The places where a thread waits for the log mutex, and where it is once
\* it has it.
AfterEnter ==
    [reserve_enter |-> "loop",            \* the caller's, and lines 304, 325
     extend_enter  |-> "extend_wait",     \* line 194
     recheck_enter |-> "extend_recheck",  \* line 203
     drain_enter   |-> "extend_drain"]    \* line 235

PcValues ==
    {"idle", "flush_read", "flush_write"} \cup DOMAIN AfterEnter
      \cup {AfterEnter[p] : p \in DOMAIN AfterEnter}

NoArg == [len |-> 0, ext_len |-> 0, tcount |-> 0,
          lsn |-> 0, flush |-> FALSE, resume |-> "idle"]

\* An upper bound on the lsn advance of appending len bytes.
Growth(len) ==
    IF len = 0 THEN 0 ELSE len + (HDR + TRL) * (1 + len \div (BLOCK - HDR - TRL))

Init ==
    /\ log_sys = log_group_init(log_init)
    /\ files = files_init
    /\ mutex = NoOwner
    /\ srv_log_buffer_size = LOG_BUFFER_SIZE \div UNIV_PAGE_SIZE
    /\ srv_track_changed_pages = TrackChangedPages
    /\ tracked_lsn = log_init.lsn    \* the tracking thread is up to date
    /\ pc = [t \in Threads |-> "idle"]
    /\ arg = [t \in Threads |-> NoArg]
    /\ mtr_ends = {log_init.lsn}

-----------------------------------------------------------------------------
(* The mini-transaction, and the log mutex *)

\* The size a mini-transaction asks log_buffer_extend for.
ExtendRequest(len) == (len + 1) * 2

\* A mini-transaction has len bytes of redo to append.  It looks at the
\* size of the buffer, without the mutex: a record longer than half of it
\* makes it call log_buffer_extend first.
MtrStart(t, len) ==
    /\ pc[t] = "idle"
    /\ log_sys.lsn + SumFunction([u \in Threads |-> Growth(arg[u].len)])
         + Growth(len) <= MaxLsn
    /\ IF len > log_sys.buf_size \div 2
       THEN /\ pc' = [pc EXCEPT ![t] = "extend_enter"]
            /\ arg' = [arg EXCEPT ![t].len = len,
                                  ![t].ext_len = ExtendRequest(len)]
       ELSE /\ pc' = [pc EXCEPT ![t] = "reserve_enter"]
            /\ arg' = [arg EXCEPT ![t].len = len]
    /\ UNCHANGED <<log_sys, files, mutex, srv_log_buffer_size,
                   srv_track_changed_pages, tracked_lsn, mtr_ends>>

\* log_mutex_enter() returns.
MutexEnter(t) ==
    /\ pc[t] \in DOMAIN AfterEnter
    /\ mutex = NoOwner
    /\ mutex' = t
    /\ pc' = [pc EXCEPT ![t] = AfterEnter[pc[t]]]
    /\ UNCHANGED <<log_sys, files, srv_log_buffer_size,
                   srv_track_changed_pages, tracked_lsn, arg, mtr_ends>>

\* log_mutex_exit(): the mutex is free, whoever held it.
MutexExit == mutex' = NoOwner

-----------------------------------------------------------------------------
(* log_buffer_flush_to_disk() and log_buffer_sync_in_background(false) *)

\* The thread, without the mutex, goes to have the log written out and
\* comes back to wait for the mutex at resume.
CallFlush(t, flush, resume) ==
    /\ pc' = [pc EXCEPT ![t] = "flush_read"]
    /\ arg' = [arg EXCEPT ![t].flush = flush, ![t].resume = resume]

\* Both read the end of the log under the mutex and release it.
FlushReadLsn(t) ==
    /\ pc[t] = "flush_read"
    /\ mutex = NoOwner
    /\ arg' = [arg EXCEPT ![t].lsn = log_sys.lsn]
    /\ pc' = [pc EXCEPT ![t] = "flush_write"]
    /\ UNCHANGED <<log_sys, files, mutex, srv_log_buffer_size,
                   srv_track_changed_pages, tracked_lsn, mtr_ends>>

\* Then they call log_write_up_to with the lsn read, and return.
FlushWrite(t) ==
    /\ pc[t] = "flush_write"
    /\ mutex = NoOwner
    /\ \E done \in {WriteUpToAtOnce(log_sys, files, arg[t].lsn, arg[t].flush)} :
          log_sys' = done.log /\ files' = done.files
    /\ pc' = [pc EXCEPT ![t] = arg[t].resume]
    /\ arg' = [arg EXCEPT ![t].lsn = 0, ![t].flush = FALSE,
                          ![t].resume = "idle"]
    /\ UNCHANGED <<mutex, srv_log_buffer_size, srv_track_changed_pages,
                   tracked_lsn, mtr_ends>>

-----------------------------------------------------------------------------
(* log_buffer_extend(len) *)

\* Lines 196-201: another thread is extending the buffer.  This one helps
\* to flush the log and looks again.
ExtendWaitOther(t) ==
    /\ pc[t] = "extend_wait"
    /\ log_sys.is_extending
    /\ MutexExit
    /\ CallFlush(t, TRUE, "recheck_enter")
    /\ UNCHANGED <<log_sys, files, srv_log_buffer_size,
                   srv_track_changed_pages, tracked_lsn, mtr_ends>>

\* Lines 205-210: back with the mutex, the thread returns if the buffer is
\* large enough by now, else it is at the loop test of line 196 again.
ExtendRecheck(t) ==
    /\ pc[t] = "extend_recheck"
    /\ IF srv_log_buffer_size > arg[t].ext_len \div UNIV_PAGE_SIZE
       THEN /\ MutexExit
            /\ pc' = [pc EXCEPT ![t] = "reserve_enter"]
            /\ arg' = [arg EXCEPT ![t].ext_len = 0]
       ELSE /\ pc' = [pc EXCEPT ![t] = "extend_wait"]
            /\ UNCHANGED <<mutex, arg>>
    /\ UNCHANGED <<log_sys, files, srv_log_buffer_size,
                   srv_track_changed_pages, tracked_lsn, mtr_ends>>

\* Defect variant of ExtendBegin: is_extending is not looked at.
ExtendBegin_unguarded(t) ==
    /\ pc[t] = "extend_wait"
    /\ log_sys' = [log_sys EXCEPT !.is_extending = TRUE]
    /\ pc' = [pc EXCEPT ![t] = "extend_drain"]
    /\ UNCHANGED <<files, mutex, srv_log_buffer_size,
                   srv_track_changed_pages, tracked_lsn, arg, mtr_ends>>

\* Lines 196-224: nobody is extending the buffer; this thread will.
ExtendBegin(t) ==
    /\ pc[t] = "extend_wait"
    /\ ~log_sys.is_extending
    /\ log_sys' = [log_sys EXCEPT !.is_extending = TRUE]
    /\ pc' = [pc EXCEPT ![t] = "extend_drain"]
    /\ UNCHANGED <<files, mutex, srv_log_buffer_size,
                   srv_track_changed_pages, tracked_lsn, arg, mtr_ends>>

\* The loop test of line 226: more than the last block is still to write.
BlocksToWrite(l) ==
    ut_calc_align_down(l.buf_free, BLOCK)
      # ut_calc_align_down(l.buf_next_to_write, BLOCK)

\* Lines 226-233: the buffer holds whole blocks that are not written; the
\* thread gives up the mutex and flushes the log.
ExtendDrain(t) ==
    /\ pc[t] = "extend_drain"
    /\ BlocksToWrite(log_sys)
    /\ MutexExit
    /\ CallFlush(t, TRUE, "drain_enter")
    /\ UNCHANGED <<log_sys, files, srv_log_buffer_size,
                   srv_track_changed_pages, tracked_lsn, mtr_ends>>

\* Defect variant of log_buffer_moved: buf_next_to_write is not rebased.
log_buffer_moved_no_rebase(l, pages) ==
    LET move_start == ut_calc_align_down(l.buf_free, BLOCK)
        buf_size   == pages * UNIV_PAGE_SIZE
    IN  [l EXCEPT !.buf_free     = @ - move_start,
                  !.buf          = <<l.buf[move_start \div BLOCK + 1]>>
                                     \o ZeroBlocks(buf_size \div BLOCK - 1),
                  !.buf_size     = buf_size,
                  !.max_buf_free = MaxBufFree(buf_size),
                  !.is_extending = FALSE]

\* Defect variant of log_buffer_moved: the last block is not restored.
log_buffer_moved_tail_lost(l, pages) ==
    LET move_start == ut_calc_align_down(l.buf_free, BLOCK)
        buf_size   == pages * UNIV_PAGE_SIZE
    IN  [l EXCEPT !.buf_free          = @ - move_start,
                  !.buf_next_to_write = @ - move_start,
                  !.buf               = ZeroBlocks(buf_size \div BLOCK),
                  !.buf_size          = buf_size,
                  !.max_buf_free      = MaxBufFree(buf_size),
                  !.is_extending      = FALSE]

\* Lines 238-265: a zero-filled buffer of the given number of pages takes
\* the place of the old one; the bytes of the last block, from its start to
\* buf_free, are carried over to its first block and the cursors follow.
log_buffer_moved(l, pages) ==
    LET move_start == ut_calc_align_down(l.buf_free, BLOCK)
        move_end   == l.buf_free
        tmp_buf    == IF move_end - move_start >= HDR
                      THEN l.buf[move_start \div BLOCK + 1] ELSE ZeroBlock
        buf_size   == pages * UNIV_PAGE_SIZE
    IN  [l EXCEPT !.buf_free          = @ - move_start,
                  !.buf_next_to_write = @ - move_start,
                  !.buf               = <<tmp_buf>>
                                          \o ZeroBlocks(buf_size \div BLOCK - 1),
                  !.buf_size          = buf_size,
                  !.max_buf_free      = MaxBufFree(buf_size),
                  !.is_extending      = FALSE]

\* Lines 226-267: only the last block is left to write; the buffer is
\* reallocated with the size asked for and the thread returns.
ExtendRealloc(t) ==
    /\ pc[t] = "extend_drain"
    /\ ~BlocksToWrite(log_sys)
    /\ srv_log_buffer_size' = arg[t].ext_len \div UNIV_PAGE_SIZE + 1
    /\ log_sys' = log_buffer_moved(log_sys, srv_log_buffer_size')
    /\ MutexExit
    /\ pc' = [pc EXCEPT ![t] = "reserve_enter"]
    /\ arg' = [arg EXCEPT ![t].ext_len = 0]
    /\ UNCHANGED <<files, srv_track_changed_pages, tracked_lsn, mtr_ends>>

-----------------------------------------------------------------------------
(* log_reserve_and_open(len), and the append that follows it *)

\* Defect variant of ReserveExtending: the thread goes back to loop without
\* asking for the mutex again.
ReserveExtending_no_enter(t) ==
    /\ pc[t] = "loop"
    /\ log_sys.is_extending
    /\ MutexExit
    /\ UNCHANGED <<log_sys, files, srv_log_buffer_size,
                   srv_track_changed_pages, tracked_lsn, pc, arg, mtr_ends>>

\* Lines 294-305: the buffer is being extended; the thread gives up the
\* mutex, sleeps, and asks for the mutex again.
ReserveExtending(t) ==
    /\ pc[t] = "loop"
    /\ log_sys.is_extending
    /\ MutexExit
    /\ pc' = [pc EXCEPT ![t] = "reserve_enter"]
    /\ UNCHANGED <<log_sys, files, srv_log_buffer_size,
                   srv_track_changed_pages, tracked_lsn, arg, mtr_ends>>

\* Lines 311-326: not enough room; the thread gives up the mutex, has the
\* buffer written, and asks for the mutex again.
ReserveNoSpace(t) ==
    /\ pc[t] = "loop"
    /\ ~log_sys.is_extending
    /\ BufferTooFull(log_sys, arg[t].len)
    /\ MutexExit
    /\ CallFlush(t, FALSE, "reserve_enter")
    /\ UNCHANGED <<log_sys, files, srv_log_buffer_size,
                   srv_track_changed_pages, tracked_lsn, mtr_ends>>

\* log_check_tracking_margin(lsn_advance): the append would take the log
\* further ahead of the tracking thread than max_checkpoint_age.
log_check_tracking_margin(lsn_advance) ==
    /\ srv_track_changed_pages
    /\ log_sys.lsn - tracked_lsn + lsn_advance
         > log_calc_max_ages.max_checkpoint_age

\* The test of lines 350-351 passes the thread on to wait.
TrackingMustWait(t) ==
    /\ log_check_tracking_margin(len_upper_limit(arg[t].len))
    /\ arg[t].tcount + 1 < TrackingRetries

\* Defect variant of ReserveTrackingWait: the rounds are not counted.
ReserveTrackingWait_no_count(t) ==
    /\ pc[t] = "loop"
    /\ ~log_sys.is_extending
    /\ ~BufferTooFull(log_sys, arg[t].len)
    /\ log_check_tracking_margin(len_upper_limit(arg[t].len))
    /\ MutexExit
    /\ UNCHANGED <<log_sys, files, srv_log_buffer_size,
                   srv_track_changed_pages, tracked_lsn, pc, arg, mtr_ends>>

\* Lines 350-361: the tracking thread is too far behind; the thread gives
\* up the mutex, sleeps, and is at loop again.
ReserveTrackingWait(t) ==
    /\ pc[t] = "loop"
    /\ ~log_sys.is_extending
    /\ ~BufferTooFull(log_sys, arg[t].len)
    /\ TrackingMustWait(t)
    /\ arg' = [arg EXCEPT ![t].tcount = @ + 1]
    /\ MutexExit
    /\ UNCHANGED <<log_sys, files, srv_log_buffer_size,
                   srv_track_changed_pages, tracked_lsn, pc, mtr_ends>>

\* What buf_pool_get_oldest_modification() may answer in log_close: 0 when
\* no page is dirty, else an lsn between the last checkpoint and the start
\* of this record group; the two ends of that range stand for it.
OldestModification == {0, log_sys.last_checkpoint_lsn, log_sys.lsn}

\* Defect variant of TrackingGivesUp: tracking is never stopped.
TrackingGivesUp_never(l) == FALSE

\* Lines 481-496 of log_close: tracking stops when the log has run a whole
\* log group ahead of the tracking thread.
TrackingGivesUp(l) == l.lsn - tracked_lsn >= l.log_group_capacity

\* Line 364 and the caller: log_reserve_and_open returns with the mutex
\* held; the caller appends with log_write_low, calls log_close and
\* releases the mutex.
MtrAppend(t) ==
    /\ pc[t] = "loop"
    /\ ~log_sys.is_extending
    /\ ~BufferTooFull(log_sys, arg[t].len)
    /\ ~TrackingMustWait(t)
    /\ \E oldest_lsn \in OldestModification :
          log_sys' = log_close(log_write_low(log_sys, arg[t].len), oldest_lsn)
    /\ srv_track_changed_pages' =
          (srv_track_changed_pages /\ ~TrackingGivesUp(log_sys'))
    /\ mtr_ends' = mtr_ends \cup {log_sys'.lsn}
    /\ MutexExit
    /\ pc' = [pc EXCEPT ![t] = "idle"]
    /\ arg' = [arg EXCEPT ![t] = NoArg]
    /\ UNCHANGED <<files, srv_log_buffer_size, tracked_lsn>>

\* The tracking thread has read more of the written log.
TrackerAdvance ==
    /\ srv_track_changed_pages
    /\ \E lsn \in mtr_ends :
          /\ tracked_lsn < lsn /\ lsn <= log_sys.write_lsn
          /\ tracked_lsn' = lsn
    /\ UNCHANGED <<log_sys, files, mutex, srv_log_buffer_size,
                   srv_track_changed_pages, pc, arg, mtr_ends>>

-----------------------------------------------------------------------------

ThreadStep(t) ==
    \/ \E len \in MtrLens : MtrStart(t, len)
    \/ MutexEnter(t)
    \/ FlushReadLsn(t)
    \/ FlushWrite(t)
    \/ ExtendWaitOther(t)
    \/ ExtendRecheck(t)
    \/ ExtendBegin(t)
    \/ ExtendDrain(t)
    \/ ExtendRealloc(t)
    \/ ReserveExtending(t)
    \/ ReserveNoSpace(t)
    \/ MtrAppend(t)

\* The log code with changed page tracking off.
Next == \E t \in Threads : ThreadStep(t)

Spec == Init /\ [][Next]_vars

\* The log code with changed page tracking, and the tracking thread.
TrackedNext ==
    \/ Next
    \/ \E t \in Threads : ReserveTrackingWait(t)
    \/ TrackerAdvance

TrackedSpec == Init /\ [][TrackedNext]_vars

\* A step of a thread that is inside the log code.
Running(t) == pc[t] # "idle" /\ ThreadStep(t)

\* A step in which a thread takes the log mutex.
TakesMutex(t) == MutexEnter(t) \/ FlushReadLsn(t) \/ FlushWrite(t)

\* Every thread inside the log code keeps running, and a thread that asks
\* for the log mutex gets it if the mutex is free again and again: the
\* threads that take it in a retry loop sleep between two rounds
\* (os_thread_sleep at lines 300 and 359) or write the log (line 319).
\* Nothing is assumed of the tracking thread, which may stand still.
TrackedFairSpec ==
    /\ TrackedSpec
    /\ \A t \in Threads :
          /\ WF_vars(Running(t) \/ ReserveTrackingWait(t))
          /\ SF_vars(TakesMutex(t))

-----------------------------------------------------------------------------
(* Properties *)

Blocks == [no : Nat, len : 0 .. BLOCK, frg : 0 .. BLOCK]

TypeOK ==
    /\ log_sys.lsn \in LOG_START_LSN .. MaxLsn
    /\ log_sys.buf_size = srv_log_buffer_size * UNIV_PAGE_SIZE
    /\ log_sys.buf \in Seq(Blocks) /\ Len(log_sys.buf) * BLOCK = log_sys.buf_size
    /\ log_sys.buf_next_to_write \in 0 .. log_sys.buf_free
    /\ log_sys.buf_free \in 0 .. log_sys.buf_size
    /\ log_sys.is_extending \in BOOLEAN
    /\ mutex \in Threads \cup {NoOwner}
    /\ srv_track_changed_pages \in BOOLEAN
    /\ tracked_lsn \in 0 .. log_sys.lsn
    /\ pc \in [Threads -> PcValues]
    /\ arg \in [Threads -> [len : MtrLens \cup {0},
                            ext_len : {0} \cup {ExtendRequest(n) : n \in MtrLens},
                            tcount : 0 .. TrackingRetries,
                            lsn : 0 .. MaxLsn, flush : BOOLEAN,
                            resume : DOMAIN AfterEnter \cup {"idle"}]]
    /\ mtr_ends \subseteq LOG_START_LSN .. MaxLsn

\* The log mutex is owned where the code says it is: a thread at the label
\* loop of log_reserve_and_open (ut_ad(log_mutex_own()), line 291), and one
\* inside the loops of log_buffer_extend, holds it.
MutexOwned ==
    \A t \in Threads :
        pc[t] \in {AfterEnter[p] : p \in DOMAIN AfterEnter} => mutex = t

\* The threads that have set is_extending and not yet reallocated.
Extenders ==
    {t \in Threads : \/ pc[t] = "extend_drain"
                     \/ pc[t] = "drain_enter"
                     \/ pc[t] \in {"flush_read", "flush_write"}
                          /\ arg[t].resume = "drain_enter"}

\* is_extending is set exactly while one thread is between lines 224 and
\* 265 of log_buffer_extend: two threads never reallocate the buffer
\* against each other, and the flag is not left set.
ExtenderIsAlone ==
    Cardinality(Extenders) = IF log_sys.is_extending THEN 1 ELSE 0

\* The log buffer holds the tail of the log whatever log_buffer_extend and
\* the compaction after a write have moved: the unwritten bytes lie between
\* the two cursors, and the live blocks are the log blocks at their lsns.
BufferHoldsLogTail == HoldsLogTail(log_sys, mtr_ends)

\* The log at the lsns start_lsn to end_lsn, block for block, when it is
\* written up to write_lsn.
WrittenLog(start_lsn, end_lsn) ==
    [i \in 1 .. (end_lsn - start_lsn) \div BLOCK |->
        LogBlockAt(mtr_ends, start_lsn + (i - 1) * BLOCK, log_sys.write_lsn)]

\* While changed page tracking is on, the tracking thread finds the log it
\* has not read yet: what log_group_read_log_seg reads from the block of
\* tracked_lsn to the end of the written log is the log, not newer log
\* that has come round the ring of files.  It is about the retry limit of
\* log_reserve_and_open (line 351), past which appends go ahead of the
\* tracking thread however far it is behind, and log_close (lines 481-496),
\* which has to stop the tracking before a write laps what is unread.
TrackerFindsLog ==
    LET start_lsn == ut_calc_align_down(tracked_lsn, BLOCK)
        end_lsn   == ut_calc_align(log_sys.write_lsn, BLOCK)
    IN  srv_track_changed_pages /\ start_lsn < end_lsn =>
            log_group_read_log_seg(files, log_sys, start_lsn, end_lsn)
              = WrittenLog(start_lsn, end_lsn)

\* log_buffer_extend grows the buffer: no step makes it smaller.
BufferOnlyGrows ==
    [][log_sys'.buf_size >= log_sys.buf_size]_vars

\* A mini-transaction that asks for room gets it and appends: neither the
\* retry loop of log_reserve_and_open nor the loops of log_buffer_extend go
\* round for ever, and the wait for the tracking thread (lines 350-361)
\* ends by its count of rounds when the tracking thread does not move.
MtrCommits ==
    \A t \in Threads : pc[t] # "idle" ~> pc[t] = "idle"

=============================================================================
