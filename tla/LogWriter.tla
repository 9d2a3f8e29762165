------------------------------ MODULE LogWriter ------------------------------
(***************************************************************************)
(* The threads that append to the redo log buffer and write and flush it   *)
(* to the log files: log_reserve_and_open / log_write_low / log_close of   *)
(* a mini-transaction commit, log_write_up_to with its callers             *)
(* log_buffer_flush_to_disk, log_buffer_sync_in_background and             *)
(* log_flush_margin.                                                       *)
(*                                                                         *)
(* A step is one stretch of code between two points where another thread   *)
(* can interfere: a critical section of the log mutex, or one access to    *)
(* shared memory made without it.  The code of log_write_up_to after       *)
(* log_mutex_exit() is therefore four steps (fil_flush, the store to       *)
(* flushed_to_disk_lsn, the decrement of n_pending_flushes, os_event_set). *)
(*                                                                         *)
(* Configuration modelled: the server is past recovery                     *)
(* (recv_no_ibuf_operations is false), changed page tracking and log       *)
(* archiving are off, and the log buffer is not being extended             *)
(* (log_sys->is_extending is false).                                       *)
(***************************************************************************)
EXTENDS LogSys, FiniteSets, SequencesExt

CONSTANTS
    Threads,         \* the threads that use the log
    MtrLens,         \* lengths of the redo a mini-transaction may append
    FlushMethods,    \* values srv_unix_file_flush_method may be started with
    MaxLsn           \* bound: no mini-transaction starts that could pass it

ASSUME /\ FlushMethods \subseteq {"fsync", "O_DSYNC", "ALL_O_DIRECT"}
       /\ MtrLens \subseteq Nat \ {0}

VARIABLES
    log_sys,     \* the log_t singleton, see LogSys!log_init
    files,       \* the log files as the operating system holds them
    synced_lsn,  \* the log up to this lsn is on stable storage
    srv_unix_file_flush_method,
    pc,          \* where each thread is
    arg,         \* the parameters and locals of the call each thread is in
    mtr_ends,    \* history: the lsns at which a record group ended
    acked        \* history: the highest lsn a returned log_write_up_to(lsn, true)
                 \* promised to be flushed

vars == <<log_sys, files, synced_lsn, srv_unix_file_flush_method,
          pc, arg, mtr_ends, acked>>

\* The locals of a thread that is not in a call.
NoArg == [lsn |-> 0, flush_to_disk |-> FALSE, work_done |-> FALSE,
          loop_count |-> 0, len |-> 0, ack |-> 0]

\* Bound: the debug counter loop_count of log_write_up_to stops counting here.
LoopCountCap == 3

\* The steps of log_write_up_to after log_mutex_exit(), lines 1431-1447.
FlushTail == {"fil_flush", "publish", "unpend", "signal"}

PcValues == {"idle", "reserve", "sync_in_background", "write_up_to", "mutex",
             "event_wait", "sleeping", "woken"} \cup FlushTail

\* os_unix_file_flush_method values with which the log files are opened so
\* that a completed write is on disk (lines 1415-1416).
Unbuffered == {"O_DSYNC", "ALL_O_DIRECT"}

\* An upper bound on the lsn advance of appending len bytes.
Growth(len) ==
    IF len = 0 THEN 0 ELSE len + (HDR + TRL) * (1 + len \div (BLOCK - HDR - TRL))

-----------------------------------------------------------------------------

Init ==
    /\ log_sys = log_group_init(log_init)
    /\ files = files_init
    /\ synced_lsn = 0
    /\ srv_unix_file_flush_method \in FlushMethods
    /\ pc = [t \in Threads |-> "idle"]
    /\ arg = [t \in Threads |-> NoArg]
    /\ mtr_ends = {log_init.lsn}
    /\ acked = 0

\* A thread enters log_write_up_to(lsn, flush_to_disk).  ack records what
\* the call promises when it returns: the log up to lsn, as far as it existed.
Call(t, lsn, flush_to_disk) ==
    /\ pc' = [pc EXCEPT ![t] = "write_up_to"]
    /\ arg' = [arg EXCEPT ![t].lsn = lsn,
                          ![t].flush_to_disk = flush_to_disk,
                          ![t].work_done = FALSE,
                          ![t].ack = IF flush_to_disk
                                     THEN Min({lsn, log_sys.lsn}) ELSE 0]

\* Where a thread goes on after log_write_up_to: to the top of
\* log_reserve_and_open when that called log_buffer_sync_in_background, else
\* out of the log code.
ReturnTo(t) == IF arg[t].len > 0 THEN "reserve" ELSE "idle"

\* log_write_up_to returns.
Return(t) ==
    /\ pc' = [pc EXCEPT ![t] = ReturnTo(t)]
    /\ arg' = [arg EXCEPT ![t] = [NoArg EXCEPT !.len = arg[t].len]]
    /\ acked' = Max({acked, arg[t].ack})

-----------------------------------------------------------------------------
(* A mini-transaction commit appends its redo *)

\* The mini-transaction takes the log mutex to append len bytes.
MtrStart(t, len) ==
    /\ pc[t] = "idle"
    /\ log_sys.lsn + SumFunction([u \in Threads |-> Growth(arg[u].len)])
         + Growth(len) <= MaxLsn
    /\ pc' = [pc EXCEPT ![t] = "reserve"]
    /\ arg' = [arg EXCEPT ![t].len = len]
    /\ UNCHANGED <<log_sys, files, synced_lsn, srv_unix_file_flush_method,
                   mtr_ends, acked>>

\* log_reserve_and_open finds the buffer too full (line 314): it gives up
\* the mutex and goes to write the buffer out.
ReserveNoSpace(t) ==
    /\ pc[t] = "reserve"
    /\ BufferTooFull(log_sys, arg[t].len)
    /\ pc' = [pc EXCEPT ![t] = "sync_in_background"]
    /\ UNCHANGED <<log_sys, files, synced_lsn, srv_unix_file_flush_method,
                   arg, mtr_ends, acked>>

\* What buf_pool_get_oldest_modification() may answer in log_close: 0 when
\* no page is dirty, else an lsn between the last checkpoint and the start
\* of this record group; the two ends of that range stand for it.
OldestModification == {0, log_sys.last_checkpoint_lsn, log_sys.lsn}

\* log_reserve_and_open finds room and returns with the mutex held; the
\* caller appends with log_write_low, calls log_close and releases the mutex.
MtrAppend(t) ==
    /\ pc[t] = "reserve"
    /\ ~BufferTooFull(log_sys, arg[t].len)
    /\ \E oldest_lsn \in OldestModification :
          log_sys' = log_close(log_write_low(log_sys, arg[t].len), oldest_lsn)
    /\ mtr_ends' = mtr_ends \cup {log_sys'.lsn}
    /\ pc' = [pc EXCEPT ![t] = "idle"]
    /\ arg' = [arg EXCEPT ![t] = NoArg]
    /\ UNCHANGED <<files, synced_lsn, srv_unix_file_flush_method, acked>>

-----------------------------------------------------------------------------
(* The callers of log_write_up_to *)

\* The lsns a caller from outside the log code asks for: the end of a
\* recent record group, as a transaction commit or a page flush does.  (The
\* end of the log is what log_buffer_flush_to_disk asks for; no caller in
\* this file passes an lsn beyond it.)
CallLsns ==
    {m \in mtr_ends : m < log_sys.lsn /\ m >= log_sys.lsn - Growth(Max(MtrLens))}

\* A thread asks for the log up to lsn.
WriteUpToCall(t, lsn, flush_to_disk) ==
    /\ pc[t] = "idle"
    /\ Call(t, lsn, flush_to_disk)
    /\ UNCHANGED <<log_sys, files, synced_lsn, srv_unix_file_flush_method,
                   mtr_ends, acked>>

\* log_buffer_flush_to_disk(): reads log_sys->lsn under the mutex.
LogBufferFlushToDisk(t) ==
    /\ pc[t] = "idle"
    /\ Call(t, log_sys.lsn, TRUE)
    /\ UNCHANGED <<log_sys, files, synced_lsn, srv_unix_file_flush_method,
                   mtr_ends, acked>>

\* The master thread calls log_buffer_sync_in_background(flush).
SyncInBackgroundCall(t, flush) ==
    /\ pc[t] = "idle"
    /\ pc' = [pc EXCEPT ![t] = "sync_in_background"]
    /\ arg' = [arg EXCEPT ![t].flush_to_disk = flush]
    /\ UNCHANGED <<log_sys, files, synced_lsn, srv_unix_file_flush_method,
                   mtr_ends, acked>>

\* log_buffer_sync_in_background(flush) finds a flush in progress that
\* covers the whole log and returns at once (lines 1486-1492).
SyncInBackgroundCovered(t) ==
    /\ pc[t] = "sync_in_background"
    /\ arg[t].flush_to_disk
    /\ log_sys.n_pending_flushes > 0
    /\ log_sys.current_flush_lsn >= log_sys.lsn
    /\ pc' = [pc EXCEPT ![t] = ReturnTo(t)]
    /\ arg' = [arg EXCEPT ![t] = [NoArg EXCEPT !.len = arg[t].len]]
    /\ UNCHANGED <<log_sys, files, synced_lsn, srv_unix_file_flush_method,
                   mtr_ends, acked>>

\* log_buffer_sync_in_background(flush) otherwise: log_write_up_to(lsn, flush).
SyncInBackgroundWrite(t) ==
    /\ pc[t] = "sync_in_background"
    /\ ~ /\ arg[t].flush_to_disk
         /\ log_sys.n_pending_flushes > 0
         /\ log_sys.current_flush_lsn >= log_sys.lsn
    /\ Call(t, log_sys.lsn, arg[t].flush_to_disk)
    /\ UNCHANGED <<log_sys, files, synced_lsn, srv_unix_file_flush_method,
                   mtr_ends, acked>>

\* log_flush_margin(): the buffer is fuller than max_buf_free, so write it.
LogFlushMargin(t) ==
    /\ pc[t] = "idle"
    /\ log_sys.buf_free > log_sys.max_buf_free
    /\ Call(t, log_sys.lsn, FALSE)
    /\ UNCHANGED <<log_sys, files, synced_lsn, srv_unix_file_flush_method,
                   mtr_ends, acked>>

-----------------------------------------------------------------------------
(* log_write_up_to(lsn, flush_to_disk) *)

\* Lines 1265-1277: the head of the retry loop counts the round, and a
\* write-only request reads write_lsn without the mutex.
WriteUpToDirtyRead(t) ==
    /\ pc[t] = "write_up_to"
    /\ IF ~arg[t].flush_to_disk /\ log_sys.write_lsn >= arg[t].lsn
       THEN Return(t)
       ELSE /\ pc' = [pc EXCEPT ![t] = "mutex"]
            /\ arg' = [arg EXCEPT ![t].loop_count =
                                      Min({@ + 1, LoopCountCap})]
            /\ UNCHANGED acked
    /\ UNCHANGED <<log_sys, files, synced_lsn, srv_unix_file_flush_method,
                   mtr_ends>>

\* Defect variant of LimitLsn: a flush request is measured against what is
\* written.
LimitLsn_written(t) == log_sys.write_lsn

\* limit_lsn of line 1283.
LimitLsn(t) ==
    IF arg[t].flush_to_disk THEN log_sys.flushed_to_disk_lsn
                            ELSE log_sys.write_lsn

\* Defect variant of FlushInProgress: the flush event is not consulted.
FlushInProgress_pending_only == log_sys.n_pending_flushes > 0

\* Lines 1307-1309: a flush is in progress, the request has to wait for it.
FlushInProgress ==
    log_sys.n_pending_flushes > 0 \/ ~log_sys.flush_event

\* Lines 1287-1290: the log is already written, or flushed, far enough.
WriteUpToDone(t) ==
    /\ pc[t] = "mutex"
    /\ LimitLsn(t) >= arg[t].lsn
    /\ Return(t)
    /\ UNCHANGED <<log_sys, files, synced_lsn, srv_unix_file_flush_method,
                   mtr_ends>>

\* Lines 1307-1314: a flush request finds a flush in progress; it notes
\* whether that flush covers it, releases the mutex and goes to wait.
WriteUpToMustWait(t) ==
    /\ pc[t] = "mutex"
    /\ LimitLsn(t) < arg[t].lsn
    /\ arg[t].flush_to_disk /\ FlushInProgress
    /\ arg' = [arg EXCEPT ![t].work_done =
                              log_sys.current_flush_lsn >= arg[t].lsn]
    /\ pc' = [pc EXCEPT ![t] = "event_wait"]
    /\ UNCHANGED <<log_sys, files, synced_lsn, srv_unix_file_flush_method,
                   mtr_ends, acked>>

\* Lines 1325-1327: a write-only request is under the mutex, short of its
\* lsn, and the buffer holds nothing that is not written.
NothingToWrite(t) ==
    /\ pc[t] = "mutex"
    /\ LimitLsn(t) < arg[t].lsn
    /\ ~arg[t].flush_to_disk
    /\ log_sys.buf_free = log_sys.buf_next_to_write

\* Defect variant of BeginFlush: the flush is not counted.
BeginFlush_not_counted(l) ==
    [l EXCEPT !.current_flush_lsn = l.lsn,
              !.flush_event       = FALSE]

\* Defect variant of BeginFlush: the lsn noted is the one written so far,
\* not the one this write will reach.
BeginFlush_write_lsn(l) ==
    [l EXCEPT !.n_pending_flushes = @ + 1,
              !.current_flush_lsn = l.write_lsn,
              !.flush_event       = FALSE]

\* Lines 1344-1349: the thread becomes the flusher.
BeginFlush(l) ==
    [l EXCEPT !.n_pending_flushes = @ + 1,
              !.current_flush_lsn = l.lsn,
              !.flush_event       = FALSE]

\* Lines 1415-1421: the log files are not buffered by the operating system,
\* so what is written counts as flushed.
WrittenIsFlushed(l) ==
    [l EXCEPT !.flushed_to_disk_lsn = l.write_lsn]

\* Lines 1344-1429: the thread writes the buffer to the files under the
\* mutex.  A write-only request returns; a flush request goes on without
\* the mutex.
WriteUpToWrite(t) ==
    LET flush  == arg[t].flush_to_disk
        direct == srv_unix_file_flush_method \in Unbuffered
    IN  /\ pc[t] = "mutex"
        /\ LimitLsn(t) < arg[t].lsn
        /\ ~(flush /\ FlushInProgress)
        /\ flush \/ log_sys.buf_free # log_sys.buf_next_to_write
        /\ \E done \in {log_write_buffer(
                            IF flush THEN BeginFlush(log_sys) ELSE log_sys,
                            files)} :
              /\ files' = done.files
              /\ log_sys' = IF direct THEN WrittenIsFlushed(done.log)
                                      ELSE done.log
              /\ synced_lsn' = IF direct THEN done.log.write_lsn
                                         ELSE synced_lsn
        /\ IF flush
           THEN /\ pc' = [pc EXCEPT ![t] = "fil_flush"]
                /\ UNCHANGED <<arg, acked>>
           ELSE Return(t)
        /\ UNCHANGED <<srv_unix_file_flush_method, mtr_ends>>

\* Lines 1434-1440: fil_flush() makes everything written so far durable.
WriteUpToFilFlush(t) ==
    /\ pc[t] = "fil_flush"
    /\ srv_unix_file_flush_method # "O_DSYNC"
    /\ synced_lsn' = log_sys.write_lsn
    /\ pc' = [pc EXCEPT ![t] = "publish"]
    /\ UNCHANGED <<log_sys, files, srv_unix_file_flush_method, arg, mtr_ends,
                   acked>>

\* Defect variant of WriteUpToNoFlush: with nothing to flush the function
\* returns at once, past the decrement and the os_event_set.
WriteUpToNoFlush_returns(t) ==
    /\ pc[t] = "fil_flush"
    /\ srv_unix_file_flush_method = "O_DSYNC"
    /\ Return(t)
    /\ UNCHANGED <<log_sys, files, synced_lsn, srv_unix_file_flush_method,
                   mtr_ends>>

\* Line 1434: with O_DSYNC there is nothing to flush (do_flush is false).
WriteUpToNoFlush(t) ==
    /\ pc[t] = "fil_flush"
    /\ srv_unix_file_flush_method = "O_DSYNC"
    /\ pc' = [pc EXCEPT ![t] = "unpend"]
    /\ UNCHANGED <<log_sys, files, synced_lsn, srv_unix_file_flush_method,
                   arg, mtr_ends, acked>>

\* Defect variant of PublishFlushed: the end of the log as it is now is
\* published, not the lsn noted before the write.
PublishFlushed_lsn(l) ==
    [l EXCEPT !.flushed_to_disk_lsn = l.lsn]

\* Line 1441, without the mutex.
PublishFlushed(l) ==
    [l EXCEPT !.flushed_to_disk_lsn = l.current_flush_lsn]

WriteUpToPublish(t) ==
    /\ pc[t] = "publish"
    /\ log_sys' = PublishFlushed(log_sys)
    /\ pc' = [pc EXCEPT ![t] = "unpend"]
    /\ UNCHANGED <<files, synced_lsn, srv_unix_file_flush_method, arg,
                   mtr_ends, acked>>

\* Defect variant of WriteUpToUnpend: the flush stays counted as pending.
WriteUpToUnpend_no_decrement(t) ==
    /\ pc[t] = "unpend"
    /\ pc' = [pc EXCEPT ![t] = "signal"]
    /\ UNCHANGED <<log_sys, files, synced_lsn, srv_unix_file_flush_method, arg,
                   mtr_ends, acked>>

\* Line 1444, without the mutex.
WriteUpToUnpend(t) ==
    /\ pc[t] = "unpend"
    /\ log_sys' = [log_sys EXCEPT !.n_pending_flushes = @ - 1]
    /\ pc' = [pc EXCEPT ![t] = "signal"]
    /\ UNCHANGED <<files, synced_lsn, srv_unix_file_flush_method, arg,
                   mtr_ends, acked>>

\* The threads os_event_set(flush_event) releases: those asleep in
\* os_event_wait.
Sleepers == {u \in Threads : pc[u] = "sleeping"}

\* Line 1447: os_event_set(flush_event), and the flusher returns.
WriteUpToSignal(t) ==
    /\ pc[t] = "signal"
    /\ log_sys' = [log_sys EXCEPT !.flush_event = TRUE]
    /\ pc' = [u \in Threads |->
                 IF u = t THEN ReturnTo(t)
                 ELSE IF u \in Sleepers THEN "woken" ELSE pc[u]]
    /\ arg' = [arg EXCEPT ![t] = [NoArg EXCEPT !.len = arg[t].len]]
    /\ acked' = Max({acked, arg[t].ack})
    /\ UNCHANGED <<files, synced_lsn, srv_unix_file_flush_method, mtr_ends>>

\* Defect variant of AfterWait: the waiter returns whether or not the flush
\* it waited for covered its request.
AfterWait_returns(t) == Return(t)

\* Lines 1318-1322: after the wait the request is done if the flush it
\* waited for covered it, else it starts over.
AfterWait(t) ==
    IF arg[t].work_done
    THEN Return(t)
    ELSE /\ pc' = [pc EXCEPT ![t] = "write_up_to"]
         /\ UNCHANGED <<arg, acked>>

\* Line 1316: os_event_wait(flush_event) finds the event set.
EventWaitPass(t) ==
    /\ pc[t] = "event_wait"
    /\ log_sys.flush_event
    /\ AfterWait(t)
    /\ UNCHANGED <<log_sys, files, synced_lsn, srv_unix_file_flush_method,
                   mtr_ends>>

\* Line 1316: os_event_wait(flush_event) finds the event reset and sleeps
\* until the next os_event_set.
EventWaitSleep(t) ==
    /\ pc[t] = "event_wait"
    /\ ~log_sys.flush_event
    /\ pc' = [pc EXCEPT ![t] = "sleeping"]
    /\ UNCHANGED <<log_sys, files, synced_lsn, srv_unix_file_flush_method,
                   arg, mtr_ends, acked>>

\* The thread runs again after os_event_set woke it.
EventWaitWoken(t) ==
    /\ pc[t] = "woken"
    /\ AfterWait(t)
    /\ UNCHANGED <<log_sys, files, synced_lsn, srv_unix_file_flush_method,
                   mtr_ends>>

-----------------------------------------------------------------------------

ThreadStep(t) ==
    \/ \E len \in MtrLens : MtrStart(t, len)
    \/ ReserveNoSpace(t)
    \/ MtrAppend(t)
    \/ \E lsn \in CallLsns, flush \in BOOLEAN : WriteUpToCall(t, lsn, flush)
    \/ LogBufferFlushToDisk(t)
    \/ \E flush \in BOOLEAN : SyncInBackgroundCall(t, flush)
    \/ SyncInBackgroundCovered(t)
    \/ SyncInBackgroundWrite(t)
    \/ LogFlushMargin(t)
    \/ WriteUpToDirtyRead(t)
    \/ WriteUpToDone(t)
    \/ WriteUpToMustWait(t)
    \/ WriteUpToWrite(t)
    \/ WriteUpToFilFlush(t)
    \/ WriteUpToNoFlush(t)
    \/ WriteUpToPublish(t)
    \/ WriteUpToUnpend(t)
    \/ WriteUpToSignal(t)
    \/ EventWaitPass(t)
    \/ EventWaitSleep(t)
    \/ EventWaitWoken(t)

Next == \E t \in Threads : ThreadStep(t)

Spec == Init /\ [][Next]_vars

\* A step of the flusher after it has released the log mutex.
FlusherStep(t) ==
    \/ WriteUpToFilFlush(t)
    \/ WriteUpToNoFlush(t)
    \/ WriteUpToPublish(t)
    \/ WriteUpToUnpend(t)
    \/ WriteUpToSignal(t)

\* The flusher runs on to its os_event_set: it holds no lock and waits for
\* nothing but the fil_flush() it calls, which returns.
FlusherFairSpec == Spec /\ \A t \in Threads : WF_vars(FlusherStep(t))

\* A step of a thread that is inside the log code.
Running(t) == pc[t] # "idle" /\ ThreadStep(t)

\* Every thread inside the log code keeps running: the operating system
\* schedules it, and the log mutex it asks for is free between two critical
\* sections, each of which is one step here.  Which of the threads that ask
\* for the mutex gets it is not constrained.  Nothing makes an idle thread
\* call again, and a sleeper runs only when it is woken.
FairSpec == Spec /\ \A t \in Threads : WF_vars(Running(t))

-----------------------------------------------------------------------------
(* Properties *)

Blocks == [no : Nat, len : 0 .. BLOCK, frg : 0 .. BLOCK]

TypeOK ==
    /\ log_sys.lsn \in LOG_START_LSN .. MaxLsn
    /\ log_sys.write_lsn \in LOG_START_LSN .. MaxLsn
    /\ log_sys.flushed_to_disk_lsn \in 0 .. MaxLsn
    /\ log_sys.current_flush_lsn \in 0 .. MaxLsn
    /\ log_sys.n_pending_flushes \in Nat
    /\ log_sys.flush_event \in BOOLEAN
    /\ log_sys.is_extending = FALSE
    /\ log_sys.check_flush_or_checkpoint \in BOOLEAN
    /\ log_sys.buf \in [1 .. log_sys.buf_size \div BLOCK -> Blocks]
    /\ log_sys.buf_free \in 0 .. log_sys.buf_size
    /\ log_sys.buf_next_to_write \in 0 .. log_sys.buf_free
    /\ log_sys.group_lsn \in LOG_START_LSN .. MaxLsn
    /\ log_sys.group_lsn_offset \in 0 .. NFiles * FileSize - 1
    /\ files.hdr \in [0 .. NFiles - 1 -> 0 .. MaxLsn]
    /\ files.blk \in [1 .. NDiskBlocks -> Blocks]
    /\ synced_lsn \in 0 .. MaxLsn
    /\ srv_unix_file_flush_method \in FlushMethods
    /\ pc \in [Threads -> PcValues]
    /\ arg \in [Threads -> [lsn : Nat, flush_to_disk : BOOLEAN,
                            work_done : BOOLEAN,
                            loop_count : 0 .. LoopCountCap,
                            len : MtrLens \cup {0},
                            ack : 0 .. MaxLsn]]
    /\ mtr_ends \subseteq LOG_START_LSN .. MaxLsn
    /\ acked \in 0 .. MaxLsn

\* What the log is, told from the history of appends: the block that starts
\* at lsn S, when the log ends at lsn end.
LogBlock(S, end) == LogBlockAt(mtr_ends, S, end)

\* The real offset of block i of the files, and the file it is in.
RealOffset(i) == (i - 1) * BLOCK
FileOf(i) == RealOffset(i) \div FileSize

\* The blocks of the files that hold log data, in the order of the ring.
DataBlocks ==
    SetToSortSeq({i \in 1 .. NDiskBlocks :
                     RealOffset(i) % FileSize >= LOG_FILE_HDR_SIZE},
                 LAMBDA i, j : i < j)

\* Where in the files the block that starts at lsn S belongs: the ring of
\* data blocks, entered at its first block by LOG_START_LSN.
RingBlock(S) ==
    DataBlocks[(((S - LOG_START_LSN) \div BLOCK) % Len(DataBlocks)) + 1]

\* The oldest block a write has not yet overwritten: a write reaches at most
\* one write-ahead unit beyond the last block of the log.
OldestOnDisk ==
    Max({LOG_START_LSN,
         ut_calc_align(log_sys.write_lsn, BLOCK) + WriteAheadSize - BLOCK
           - log_group_get_capacity})

\* The blocks of the log buffer that hold log not yet written, or the block
\* being filled.
LiveBufBlocks == LiveBlocksOf(log_sys)

\* The lsn ordering of the log: nothing is reported flushed that is not on
\* stable storage, nothing is on stable storage that was not written, and
\* nothing is written that was not appended.  It is about log_write_up_to:
\* the flusher publishes current_flush_lsn, which it noted before its write,
\* after a fil_flush() that other threads' writes may have preceded.
DurabilityOrder ==
    /\ log_sys.flushed_to_disk_lsn <= synced_lsn
    /\ synced_lsn <= log_sys.write_lsn
    /\ log_sys.write_lsn <= log_sys.lsn

\* The log buffer holds the tail of the log: the bytes between write_lsn and
\* lsn lie between buf_next_to_write and buf_free, and every live block has
\* the number, the data length and the first_rec_group of the log block at
\* its lsn.  It is about log_write_low and log_close filling blocks, and
\* about log_sys_write_completion moving the tail to the start of the
\* buffer while both cursors and the blocks must move together.
BufferHoldsLogTail == HoldsLogTail(log_sys, mtr_ends)

\* After every append there is room left in the buffer for the padding of a
\* write, which is what the space test of log_reserve_and_open with its
\* 5/4 allowance for block headers and trailers is for.
BufferHasRoom ==
    log_sys.buf_free + WriteAheadSize <= log_sys.buf_size

\* Every block of the log that is written and not yet overwritten by a later
\* lap of the ring is in the files where the ring of data blocks puts it,
\* with the content the log has there.  It is about log_write_up_to and
\* log_group_write_buf: the write starts at the block of write_lsn, found
\* through the group's (lsn, lsn_offset) pair that lags one write behind,
\* is split at the end of a file, and may be padded.
DiskHoldsLog ==
    \A S \in BlockLsns(OldestOnDisk, log_sys.write_lsn) :
        files.blk[RingBlock(S)] = LogBlock(S, log_sys.write_lsn)

\* A file header names the lsn of the block that is at the start of the
\* file: for each written block that is first in its file, the header of
\* that file carries its lsn.  It is about log_group_write_buf, which
\* writes a header only when a write begins a file with new data or
\* continues into it from the file before.
FileHeadersNameFirstBlock ==
    \A S \in BlockLsns(OldestOnDisk, log_sys.write_lsn) :
        RealOffset(RingBlock(S)) % FileSize = LOG_FILE_HDR_SIZE
           => files.hdr[FileOf(RingBlock(S))] = S

\* There is one flusher at a time, as ut_a(n_pending_flushes == 1) at line
\* 1431 claims without the mutex: the threads past the write of a flush
\* request are at most one, n_pending_flushes counts it until it has
\* decremented, and the flush event stays reset until it has signalled.
SingleFlusher ==
    LET flushers == {t \in Threads : pc[t] \in FlushTail}
    IN  /\ Cardinality(flushers) <= 1
        /\ log_sys.n_pending_flushes =
              Cardinality({t \in flushers : pc[t] # "signal"})
        /\ log_sys.flush_event <=> flushers = {}

\* What a returned log_write_up_to(lsn, true) promised flushed is reported
\* flushed from then on: flushed_to_disk_lsn does not fall below it.  It is
\* about the store to flushed_to_disk_lsn after the mutex is released, and
\* about a waiter that returns on work_done after the event.
FlushedCoversAcked == acked <= log_sys.flushed_to_disk_lsn

\* The two ways the code has of finding where an lsn is in the files agree
\* with the ring, for every block of the log that is on disk:
\* log_group_calc_lsn_offset, from the (lsn, lsn_offset) pair of the group
\* that every write moves, also for an lsn behind that pair; and
\* log_calc_where_lsn_is, from the lsn at the start of the first file.
OffsetsAgree ==
    \A S \in BlockLsns(OldestOnDisk, log_sys.write_lsn) :
        LET where == log_calc_where_lsn_is(LOG_START_LSN, S)
        IN  /\ log_group_calc_lsn_offset(S, log_sys) = RealOffset(RingBlock(S))
            /\ where.file_no * FileSize + where.log_file_offset
                  = RealOffset(RingBlock(S))

\* A request is through the retry loop of log_write_up_to in two rounds,
\* far from the 128 that ut_ad(++loop_count < 128) allows: the flush it
\* waited for in the first round may have begun before its log was appended,
\* but a flush it meets in the second began after, so that
\* current_flush_lsn covers the request.
RetryLoopIsShort ==
    \A t \in Threads : arg[t].loop_count <= 2

\* The early return of lines 1325-1330 ("Nothing to write and no flush to
\* disk requested") is never taken: log_sys_write_completion advances
\* write_lsn to lsn in the step that empties the buffer, so a write-only
\* request for log that exists, still short of its lsn under the mutex
\* whatever the other threads wrote since its dirty read of line 1275,
\* finds bytes to write.
WriteOnlyFindsLog ==
    \A t \in Threads : ~NothingToWrite(t)

\* A thread that went to sleep in os_event_wait(flush_event) is woken: the
\* flusher whose flush it found in progress under the mutex reaches its
\* os_event_set, although the sleeper tested the event only after it had
\* released the mutex, and flushers may have come and gone in between.
SleeperIsWoken ==
    \A t \in Threads : pc[t] = "sleeping" ~> pc[t] = "woken"

\* Every call of log_write_up_to returns when the threads inside the log
\* code keep running.  It is about the goto loop of line 1321: a flush
\* request that met a flush which did not cover it starts over, other
\* requests can become the flusher before it, and it must still come to a
\* flush that covers it or to the mutex when no flush is running; and about
\* the sleeper, which returns or starts over only after the flusher's
\* os_event_set.
WriteUpToReturns ==
    \A t \in Threads : pc[t] = "write_up_to" ~> pc[t] \in {"idle", "reserve"}

\* The abstract log this module implements: its ends are the three lsns of
\* the log, the stable one being what fil_flush() or an unbuffered write has
\* really put on disk; there are no pages and no checkpoint here.
WAL == INSTANCE WriteAheadLog WITH
    log_end     <- log_sys.lsn,
    written_end <- log_sys.write_lsn,
    durable_end <- synced_lsn,
    dirty       <- {},
    checkpoint  <- 0

\* Every step of the threads is a step of the write-ahead log, or changes
\* nothing of it: the log only grows, it is written only as far as it was
\* appended and flushed only as far as it was written, and a
\* log_write_up_to(lsn, true) returns only when the log it promised is on
\* stable storage.  It is about the callers that return without having
\* flushed themselves: through the limit test on flushed_to_disk_lsn, which
\* another thread stored without the mutex, or on work_done after the wait
\* for another thread's flush.
ImplementsWriteAheadLog == WAL!Spec

=============================================================================
