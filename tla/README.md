# TLA+ models of the InnoDB redo log (`log0log.cc`)

This directory holds TLA+ specifications of the redo log of
`src/storage/innobase/log/log0log.cc`, the TLC configurations that check
them, and `PROJECT.json`, which lists the components, the runs, the map from
definitions to source lines, the findings and the hazards.

Run a configuration with

    tlc -workers 2 -config LogWriter_flush.cfg MCLogWriter
    tlc -workers 2 -config LogReserve_extend.cfg MCLogReserve
    tlc -workers 2 -config LogCheckpoint_safe.cfg MCLogCheckpoint
    tlc -workers 2 -config LogShutdown_clean.cfg MCLogShutdown

## 1. The system

`log0log.cc` is the write-ahead log of the storage engine.  One object,
`log_sys`, guarded by the log mutex, holds everything:

| part | state | operations |
|---|---|---|
| log buffer | `buf`, `buf_size`, `buf_free`, `buf_next_to_write`, `max_buf_free`, `lsn`, `check_flush_or_checkpoint`, `is_extending` | `log_reserve_and_open`, `log_write_low`, `log_close`, `log_buffer_extend` |
| log group (the ring of files) | `file_size`, `n_files`, `lsn`, `lsn_offset`, the file headers, the blocks | `log_group_calc_lsn_offset`, `log_group_set_fields`, `log_calc_where_lsn_is`, `log_group_write_buf`, `log_group_file_header_flush` |
| writer / flusher | `write_lsn`, `flushed_to_disk_lsn`, `current_flush_lsn`, `n_pending_flushes`, `flush_event`, `write_end_offset` | `log_write_up_to`, `log_sys_write_completion`, `log_buffer_flush_to_disk`, `log_buffer_sync_in_background`, `log_flush_margin` |
| checkpoints | `last_checkpoint_lsn`, `next_checkpoint_no`, `n_pending_checkpoint_writes`, `checkpoint_lock`, the two checkpoint slots | `log_checkpoint`, `log_group_checkpoint`, `log_write_checkpoint_info`, `log_complete_checkpoint`, `log_io_complete`, `log_make_checkpoint_at` |
| margins | `max_modified_age_*`, `max_checkpoint_age*`, `log_group_capacity` | `log_calc_max_ages`, `log_check_margins`, `log_checkpoint_margin`, `log_preflush_pool_modified_pages` |
| recovery read | the files | `log_group_read_checkpoint_info`, `log_group_read_log_seg` |
| shutdown | `srv_shutdown_state`, `srv_fast_shutdown`, the server's threads, pending i/o, the buffer pool | `logs_empty_and_mark_files_at_shutdown`, `log_shutdown` |
| diagnostics | counters | `log_print`, `log_refresh_stats`, `log_peek_lsn` |

How they interact.  A mini-transaction commit takes the mutex in
`log_reserve_and_open`, which gives the mutex up and calls
`log_buffer_sync_in_background(false)` when the buffer is too full, then
appends with `log_write_low` and ends with `log_close`.  Any thread may call
`log_write_up_to(lsn, flush_to_disk)`: under the mutex it writes the buffer
from `buf_next_to_write` to `buf_free` to the files, and a flush request goes
on *without* the mutex to `fil_flush`, the store to `flushed_to_disk_lsn`,
the decrement of `n_pending_flushes` and `os_event_set(flush_event)`, while
other flush requests wait on that event and other threads append and write.
A mini-transaction whose record is longer than half of the buffer first
calls `log_buffer_extend`, which sets `is_extending`, flushes the log (giving
up the mutex each time) until only the last block is unwritten, and replaces
the buffer; meanwhile `log_reserve_and_open` makes appenders sleep and retry.

Before a mini-transaction starts, `log_free_check` looks at
`check_flush_or_checkpoint`, which `log_close` raises when the buffer is
fuller than `max_buf_free` or an age passes its limit, and calls
`log_check_margins`: `log_flush_margin` writes the buffer, and
`log_checkpoint_margin` decides under the mutex whether pages have to be
flushed ahead (`log_preflush_pool_modified_pages`) and whether a checkpoint
is to be made, and acts on both without the mutex.  `log_checkpoint` reads
the oldest modification of the buffer pool under the mutex, appends an
`MLOG_CHECKPOINT` marker, gives the mutex up to flush the log, takes it
again, and writes the lsn it read into one of the two checkpoint fields of
the first file header; the i/o handler (`log_io_complete`) flushes the file
and only then moves `last_checkpoint_lsn`.  All the while other threads
append, the page cleaner writes pages, and the ring of files is overwritten
from the other end.

At shutdown `logs_empty_and_mark_files_at_shutdown` waits until no thread
is at work, the page cleaner has exited and no i/o is pending, makes a
checkpoint with `log_make_checkpoint_at(LSN_MAX, TRUE)`, and begins again
unless that checkpoint is at the end of the log and no thread woke up
meanwhile; then it stamps the data files with the lsn.  After a crash,
recovery reads the two checkpoint fields (`log_group_read_checkpoint_info`)
and the log from the newer checkpoint on (`log_group_read_log_seg`).

What makes it hard: the tail of `log_write_up_to` runs unlocked; waiters
decide under the mutex (`work_done`) and act after the wait; the buffer is
compacted in place while its cursors and the lsn must stay in step; a write
is found through a (lsn, offset) pair that lags one write behind, wraps round
a ring of files with headers in between and may be padded; three flush
methods take different paths.

The second file in the repository, `src/unnamed/part_000`, is a mysqltest
script about `RELEASE_LOCK()`; the code it tests is not in the repository.

## 2. Modules

| module | models | contents |
|---|---|---|
| `WriteAheadLog` | what the redo log promises: the abstract specification | three ends of the log, the acknowledged lsn, the dirty pages, the checkpoint; `Append`, `WriteOut`, `Acknowledge`, `FlushPages`, `Checkpoint` |
| `LogSys` | the data of `log_sys` and of the log files, and every function that runs wholly under the mutex | operators with the names of the source: `log_init`, `log_group_init`, `log_calc_max_ages`, `log_group_calc_lsn_offset`, `log_group_set_fields`, `log_calc_where_lsn_is`, `log_write_low`, `log_close`, `log_group_write_buf`, `log_group_file_header_flush`, `log_sys_write_completion`, `log_write_buffer` (the writing part of `log_write_up_to`), `log_group_read_log_seg` |
| `LogWriter` | the threads | variables, `Init`, one action per critical section or unlocked access, `Next`, the specifications and the properties |
| `MCLogWriter` | — | the symmetry set and the view used by the configurations |
| `LogReserve` | the threads again, seen from the log mutex: `log_reserve_and_open`, `log_buffer_extend`, changed page tracking | the mutex as a variable, one action per stretch of code between two operations on it, `Spec`, `TrackedSpec`, `FairSpec`, the properties |
| `MCLogReserve` | — | the symmetry set |
| `LogCheckpoint` | checkpoints and margins: the threads in `log_check_margins`, `log_checkpoint` and `log_make_checkpoint_at`, the i/o handler, the page cleaner | the two checkpoint fields, the write in flight, the buffer pool as a set of lsns, one action per stretch of code between two operations on the mutex, `Spec`, the properties |
| `MCLogCheckpoint` | — | the symmetry set |
| `LogShutdown` | `logs_empty_and_mark_files_at_shutdown` beside the threads, the i/o handler and the page cleaner of `LogCheckpoint` | `srv_shutdown_state`, the place of the shutdown, the stamp of the data files; one action per stretch of code between two looks at the other threads, `ShutdownSpec`, `ShutdownFairSpec`, the properties |
| `MCLogShutdown` | — | the root module of the shutdown run |

`LogSys` also defines what the log *is*, told from the lsns at which record
groups ended (`LogBlockAt`, `HoldsLogTail`); the properties of both thread
modules compare the buffer and the files with it.

### WriteAheadLog and the refinement

`WriteAheadLog` has no buffer, no blocks, no files and no threads.  Its
state is the lsn up to which redo is appended (`log_end`), handed to the
operating system (`written_end`) and on stable storage (`durable_end`), the
highest lsn a caller was told is durable (`acked`), the lsns at which the
redo of the pages still to be written starts (`dirty`), and the lsn recovery
starts from (`checkpoint`).  Its five actions carry the rules of write-ahead
logging as guards: `Acknowledge` only up to `durable_end`, `FlushPages` only
pages whose redo is below the new `durable_end`, `Checkpoint` only forward,
to an lsn that is durable and not past any dirty page.

Both detailed modules instantiate it and check `WAL!Spec` as the property
`ImplementsWriteAheadLog`:

| abstract variable | in `LogWriter` | in `LogCheckpoint` |
|---|---|---|
| `log_end` | `log_sys.lsn` | `log_sys.lsn` |
| `written_end` | `log_sys.write_lsn` | `log_sys.write_lsn` |
| `durable_end` | `synced_lsn`, what `fil_flush` or an unbuffered write has put on disk | `log_sys.flushed_to_disk_lsn` (there `log_write_up_to` is one step) |
| `acked` | `acked`, set when a `log_write_up_to(lsn, true)` returns | 0 (no call is followed to its return) |
| `dirty` | `{}` | `dirty`, the flush list |
| `checkpoint` | 0 | the lsn of `RecoveryCheckpoint`, 0 if there is none |

The mapping of `LogWriter` does not use `flushed_to_disk_lsn`: that is the
variable the code tests before it returns, and the property says that the
test is right about the disk.  The mapping of `LogCheckpoint` takes the
checkpoint from the fields on disk and not from `last_checkpoint_lsn`, so a
step of the i/o handler that makes a field durable is a `Checkpoint` step,
and its guard is evaluated then, several steps after `log_checkpoint` read
the lsn.

### State

* `log_sys` — a record with the fields of `log_t` that the modelled code
  uses.  `buf` is the sequence of the buffer's blocks; the block at byte
  offset `o` is `buf[o / BLOCK + 1]`.
* A block is `[no, len, frg]`: header number, data length, first_rec_group.
  Payload bytes are not modelled; the lsn arithmetic, which counts headers and
  trailers, is.
* `files` — `hdr[k]` is the start lsn stamped in the header of file `k`,
  `blk` the sequence of all blocks of all files in the order of real offsets.
* `synced_lsn` — how far the log is on stable storage: moved by `fil_flush`
  and, for O_DSYNC and ALL_O_DIRECT, by the write itself (the comment at
  lines 1417–1419 says so).
* `pc`, `arg` — where each thread is and the parameters and locals of its
  call (`lsn`, `flush_to_disk`, `work_done`, `loop_count`, the length of the
  mini-transaction it is committing).
* `mtr_ends`, `acked` — history: the lsns where record groups ended, and the
  highest lsn for which a `log_write_up_to(lsn, true)` has returned.

### Actions and the code

| action | code |
|---|---|
| `MtrStart`, `ReserveNoSpace`, `MtrAppend` | `log_reserve_and_open` (space test, retry), then `log_write_low` and `log_close` in one critical section |
| `WriteUpToCall`, `LogBufferFlushToDisk`, `SyncInBackgroundCall/Covered/Write`, `LogFlushMargin` | the callers of `log_write_up_to` |
| `WriteUpToDirtyRead` | the head of the retry loop and the read of `write_lsn` without the mutex |
| `WriteUpToDone`, `WriteUpToMustWait`, `WriteUpToWrite` | the ways through the critical section of `log_write_up_to`; the fourth, the early return of lines 1325–1330, is the state predicate `NothingToWrite`, which `WriteOnlyFindsLog` shows is never met |
| `WriteUpToFilFlush` / `WriteUpToNoFlush`, `WriteUpToPublish`, `WriteUpToUnpend`, `WriteUpToSignal` | lines 1431–1447, one action per unlocked access |
| `EventWaitPass`, `EventWaitSleep`, `EventWaitWoken` | `os_event_wait(flush_event)` and what follows it |

A critical section of the mutex is one atomic action; the mutex is not a
variable of `LogWriter` because nothing it models blocks while holding it.
`WriteUpToWrite` is the whole of lines 1344–1429: begin of flush, padding,
`log_group_write_buf` with its header writes and its split at a file end,
`log_group_set_fields`, `log_sys_write_completion` with the compaction, and
the O_DSYNC/ALL_O_DIRECT assignment.

### LogReserve

`LogWriter` makes a critical section one step.  That cannot show a thread
that is in the wrong place without the mutex, or two loops that each wait for
the mutex the other takes, so `LogReserve` has the variable `mutex` and these
actions:

| action | code |
|---|---|
| `MtrStart` | the caller: a record longer than `buf_size / 2` (read without the mutex) makes it call `log_buffer_extend((len + 1) * 2)` first |
| `MutexEnter` | `log_mutex_enter()` at lines 194, 203, 235, 304, 325 and in the caller |
| `ExtendWaitOther`, `ExtendRecheck` | the first loop of `log_buffer_extend` (196–210) |
| `ExtendBegin`, `ExtendDrain`, `ExtendRealloc` | lines 212–224, the second loop (226–236), the reallocation (238–267, operator `log_buffer_moved`) |
| `FlushReadLsn`, `FlushWrite` | `log_buffer_flush_to_disk` and `log_buffer_sync_in_background(false)`: the lsn is read in one critical section, `log_write_up_to` runs in another |
| `ReserveExtending`, `ReserveNoSpace`, `ReserveTrackingWait` | the three retry branches of `log_reserve_and_open` |
| `MtrAppend` | the return at line 364, and the caller's `log_write_low`, `log_close`, `log_mutex_exit` |
| `TrackerAdvance` | the tracking thread reads more of the written log |

`log_write_up_to` is one step here (`WriteUpToAtOnce`): it returns at once if
the log is written (flushed) far enough, else it writes all of the buffer
with `log_write_buffer` of `LogSys`.  `LogWriter` checks the steps inside it.
The retry counter `count` is incremented inside `ut_ad()` only; the model is
the build without debug assertions, where it stays 0.  `tcount`, which is
compared with 50, is bounded by `TrackingRetries`.

`Spec` is the log code with tracking off.  `TrackedSpec` adds the tracking
branch and the tracking thread; it is used by the run that shows finding 2,
and, with fairness (`TrackedFairSpec`), by `reserve_live`.  Every behaviour
that takes the branch runs into finding 2: after line 361 the thread is at
`loop` without the mutex.  The model follows the code there.  A stretch of
code between two operations on the mutex is still one step, so what
`reserve_live` shows of the behaviours past the branch is about the control
flow of the retry loop and about the lsns, not about two threads inside the
buffer at once, which is the defect itself.

The tracking thread reads the log files from `tracked_lsn` on
(`log_group_read_log_seg` of `LogSys`).  Its own code is in another file;
`TrackerAdvance` lets it move `tracked_lsn` to any end of a record group in
the written log, or stand still.

### LogCheckpoint

State, beside `log_sys` and `files` of `LogSys`:

* `checkpoints` — what the two fields `LOG_CHECKPOINT_1` and
  `LOG_CHECKPOINT_2` hold: number, lsn, offset, and whether the field is on
  stable storage (`synced`).  A fresh field, and a field while a write to it
  is in flight, hold nothing valid: their checksums would not match.
* `checkpoint_io` — the write `fil_io` was given, until the i/o handler is
  through with it.
* `dirty` — the `oldest_modification` of each dirty page; `batch_running` —
  the page cleaner is in a flush list batch.
* `pc`, `arg` — where each thread is, with its parameters and locals
  (`new_oldest`, `do_checkpoint`, `sync`, `write_always`, `oldest_lsn`,
  `flush_lsn`).  `Kept` forgets the locals of calls that have returned.
* `promised_lsn` — history: the highest lsn a `log_checkpoint(sync = true)`
  that returned true promised a checkpoint for: its `oldest_lsn`, or
  `last_checkpoint_lsn` at the early return.

| action | code |
|---|---|
| `MtrStart`, `ReserveNoSpace`, `MtrAppend` | `log_free_check`, `log_reserve_and_open`, and the append that puts a page on the flush list |
| `LogFlushMargin`, `MarginQuiet`, `MarginDecide`, `MarginsRecheck` | the loop of `log_check_margins` (2206–2227) and the critical section of `log_checkpoint_margin` (2059–2097, operator `log_checkpoint_margin`) |
| `PreflushSync`, `PreflushBusy`, `PreflushBackoff` | `log_preflush_pool_modified_pages`: the thread flushes itself (`FlushesItself`, line 1554), fails because a batch is running (and `log_checkpoint_margin` raises the flag and starts again, 2107–2114), or waits for the page cleaner |
| `MakeCheckpointAt` | `log_make_checkpoint_at(LSN_MAX, write_always)` |
| `CheckpointNothingNew`, `CheckpointMark` | `log_checkpoint` 1940–1984: the first test, the read of `oldest_lsn`, `fil_names_clear` |
| `CheckpointFlushLog` | line 1986, without the mutex |
| `CheckpointAlreadyDone`, `CheckpointBusy`, `CheckpointWrite` | the three ways through lines 1988–2015, with `log_write_checkpoint_info` and `log_group_checkpoint` |
| `CheckpointWaited` | `rw_lock_s_lock` on the checkpoint lock (1884, 2004) |
| `IoWritten`, `IoComplete` | `log_io_complete`: the field is written and the file flushed; then `log_io_complete_checkpoint` and `log_complete_checkpoint` |
| `CleanerBegins`, `CleanerEnds` | the page cleaner: a batch writes the oldest dirty page, the log first |

A crash is not an action: `RecoveryCheckpoint` says in every state what a
crash in that state would leave, the valid field on stable storage with the
highest number among those `log_group_read_checkpoint_info` reads, and the
properties speak about it.  `CheckpointFindsLog` then reads the log as
recovery would, with `log_group_read_log_seg` of `LogSys`: a recursive
operator with one read for each pass of the loop of lines 2148–2197, cut at
the end of the file it starts in (`ReadLen`, lines 2156–2162), the next
pass finding its offset through `log_group_calc_lsn_offset` again.  Everything the actions
do between the write of a field and its completion is a state of its own, so
every crash point is covered.

What is abstracted: `log_write_up_to` is one step (`WriteUpToAtOnce`; the
flush method is fsync).  A page that leaves the flush list is on disk, so
the `fil_flush_file_spaces` of line 1936 has nothing left to do.
`fil_names_clear` appends a marker of `SIZE_OF_MLOG_CHECKPOINT` bytes and no
file names.  The s-lock of a waiter is taken and released in one step.
Tracking and archiving are off and the server is not in recovery.  In
`Spec` the server is not shutting down, and `log_checkpoint` always appends
its marker (`CheckpointMark`); `LogShutdown` uses the same step with the
test of lines 1974–1977 (`CheckpointMarkWhen`, `do_write`).

### LogShutdown

`LogShutdown` extends `LogCheckpoint`: the threads, the i/o handler and the
page cleaner take the steps of that module, and the shutdown thread is one
of `Threads`, which takes the steps of `log_make_checkpoint_at` like any
other once `ShutdownMakesCheckpoint` has made the call.  Its own state:

* `srv_shutdown_state` — `NONE`, `CLEANUP`, `FLUSH_PHASE`, `LAST_PHASE`;
  `srv_fast_shutdown` — chosen at the start, 2 is the very fast shutdown.
* `shutdown` — where the shutdown is in its function, and the local `lsn`
  it reads under the mutex at line 2444.
* `buf_page_cleaner_is_active` — the page cleaner has not exited.
* `flushed_lsn` — the stamp `fil_write_flushed_lsn` puts in the data files.

| action | code |
|---|---|
| `ShutdownBegins` | 2247–2252, `SRV_SHUTDOWN_CLEANUP` |
| `ShutdownFlushPhase` | the three waits of 2253–2340 as one guard (no thread is active), then `SRV_SHUTDOWN_FLUSH_PHASE` |
| `ShutdownCleanerGone` | the wait for the page cleaner, 2347–2356 |
| `ShutdownPendingIo`, `ShutdownNoPendingIo` | the look at pending checkpoint writes, log flushes and page i/o, 2358–2385 |
| `ShutdownFastFlush`, `ShutdownFastWokeUp`, `ShutdownFastSuspended`, `ShutdownFastLastPhase`, `ShutdownFastReturns`, `ShutdownFastAborts` | the very fast path, 2387–2434: `log_buffer_flush_to_disk`, the look at the threads, `LAST_PHASE`, and the `ut_a()` on the threads |
| `ShutdownMakesCheckpoint`, `ShutdownCheckpointMade` | `log_make_checkpoint_at(LSN_MAX, TRUE)` and the `is_last` test, 2436–2456 |
| `ShutdownWokeUp`, `ShutdownFlushesFiles` | the second look at the threads and `fil_flush_file_spaces`, 2458–2475 |
| `ShutdownNotFreed`, `ShutdownLastPhase` | `buf_all_freed()` and `LAST_PHASE`, 2477–2499 |
| `ShutdownReturns`, `ShutdownAborts` | the `ut_a()` checks, the stamp and the return, 2501–2533 |
| `ThreadCalls`, `ThreadRuns`, `IoHandlerRuns`, `CleanerRuns`, `CleanerExits` | the rest of the server |

A failed `ut_a()` ends the process: the state `aborted` stops every actor
(`Alive`).  A sleep followed by `goto loop` is a step back to `loop`; a
loop that only waits is a guard.

What is assumed, because the code is in other files: a thread of the server
is active exactly while it is inside the log code; threads may begin a
mini-transaction or a checkpoint until `srv_shutdown_state` is `LAST_PHASE`
(this is what the second looks at lines 2408 and 2463 are for); the page
cleaner flushes the whole pool and exits in `FLUSH_PHASE`; a page that left
the flush list is on disk, so `fil_flush_file_spaces(FIL_TYPE_TABLESPACE)`
changes nothing and `fil_flush_file_spaces(FIL_TYPE_LOG)` makes the
checkpoint fields durable.  The server is not read-only.

### Abstractions

* `"fsync"` stands for every flush method other than O_DSYNC and
  ALL_O_DIRECT: `log_write_up_to` treats them alike.
* The server is past recovery (`recv_no_ibuf_operations` false) and
  archiving is off.  In `LogWriter` changed-page tracking is off and no
  record is long enough to extend the buffer.
* `OldestModification`, the answer of the buffer pool in `log_close`, is an
  input: 0, the last checkpoint lsn or the current lsn.
* Callers from outside the file ask for the end of a recent record group
  (`CallLsns`), as a transaction commit or a page flush does; the callers in
  the file ask for the end of the log.  No request is for an lsn beyond the
  log: nothing in `log0log.cc` passes `LSN_MAX` to `log_write_up_to`.
* In `LogCheckpoint`, `LogReserve` and `LogShutdown` a call of
  `log_write_up_to` is one step (`WriteUpToAtOnce`, with fsync): its
  interleavings are the subject of `LogWriter`, and the properties of the
  other modules read its result only.  For the same reason
  `LogFlushMargin` of `LogCheckpoint` makes the test under the mutex (lines
  1511–1518) and the write (line 1521) in one step; of the flush methods
  `log_io_complete` switches on (lines 1026–1037) these modules have the
  fsync arm.
* In `LogCheckpoint` the page cleaner is active (`PreflushSync`,
  `PreflushBackoff`); `LogShutdown` gives `buf_page_cleaner_is_active` to the
  guard of line 1554 (`PreflushSyncWhen`, `PreflushBackoffWhen`).
* `fil_names_clear` makes room for the marker and appends it in one step; no
  tablespace has a name to log.  The fsync of the data files before a
  checkpoint (lines 1922–1938) is part of the page flush: a page that left
  the flush list is on disk.
* The debug counters are bounded: `loop_count` of `log_write_up_to` stops
  at `LoopCountCap`, and in a release build, which the tracking wait of
  `log_reserve_and_open` is modelled for, `count` stays 0.
* `os_event_wait` / `os_event_set`, `ut_calc_align*` and the block accessors
  are in files outside `src/`; they are modelled from their documented
  behaviour and marked `spec_modelled` in the map.
* In `LogWriter` and `LogReserve` no checkpoint is taken:
  `last_checkpoint_lsn` stays where `log_init` put it, so the log laps the ring over blocks a checkpoint would still need.
  `log_close` only prints a warning then, and so the model goes on as the
  code does; what the properties say about the files is limited to the lap
  still on disk (`OldestOnDisk`).  `LogCheckpoint` has the checkpoints and
  states the rule itself (`CheckpointFindsLog`).

## 3. Runs

Sizes are scaled down: a block has 10 bytes (1 header, 8 payload, 1
trailer), a write-ahead unit is 2 blocks, a file header region 1 block.

| run | configuration | what it checks | result |
|---|---|---|---|
| `writer_flush` | 2 threads, mtr of 12 bytes, buffer of 6 blocks, 2 files of 3 data blocks, fsync, O_DSYNC or ALL_O_DIRECT, lsn up to 70 | `TypeOK`, `DurabilityOrder`, `SingleFlusher`, `BufferHasRoom`, `RetryLoopIsShort`, `WriteOnlyFindsLog`, `ImplementsWriteAheadLog` | holds, 106,649 states |
| `writer_direct_regress` | the same with ALL_O_DIRECT only | `FlushedCoversAcked` | **violated** (finding 1) |
| `writer_data` | 1 thread, mtr of 4 or 12 bytes, buffer of 10 blocks, 3 files of 1 data block, block numbers wrap at 4, lsn up to 80 | `BufferHoldsLogTail`, `DiskHoldsLog`, `FileHeadersNameFirstBlock`, `OffsetsAgree` | holds, 286,125 states |
| `writer_live` | 2 threads, fsync or O_DSYNC, lsn up to 55, `FlusherFairSpec` | `FlushedCoversAcked`, `SleeperIsWoken` | holds, 51,741 states |
| `writer_returns` | the same with `FairSpec` | `WriteUpToReturns` | holds, 51,741 states |
| `reserve_extend` | 3 threads, records of 12, 42 or 52 bytes, buffer of 4 pages of 2 blocks, lsn up to 200 | `TypeOK`, `MutexOwned`, `ExtenderIsAlone`, `BufferHoldsLogTail` | holds, 38,915 states |
| `reserve_live` | 2 threads, records of 12 or 42 bytes, 2 files of 5 data blocks, tracking on, 3 rounds of the tracking wait, lsn up to 150, `TrackedFairSpec` | `TrackerFindsLog`, `MtrCommits` | holds, 13,771 states |
| `reserve_tracking` | 2 threads, tracking on, `TrackedSpec` | `MutexOwned` | **violated** (finding 2) |
| `reserve_shrink` | 2 threads, records of 42 or 72 bytes | `BufferOnlyGrows` | **violated** (finding 3) |
| `checkpoint_safe` | 2 threads, records and markers of 4 bytes, buffer of 3 blocks, 3 files of 2 data blocks, `LOG_CHECKPOINT_FREE` 26, both preflush modes, `write_always` false, lsn up to 66 | `TypeOK`, `CheckpointCoversPool`, `CheckpointFindsLog`, `PromisedCheckpointIsOnDisk`, `CheckpointAgeBounded`, `CheckpointAdvances`, `ImplementsWriteAheadLog` | holds, 833,895 states |
| `checkpoint_regress` | the same with `write_always` true or false, lsn up to 50 | `PromisedCheckpointIsOnDisk` | **violated** (finding 4) |
| `shutdown_clean` | the shutdown thread and 1 other thread, records of 8 bytes, markers of 1 byte, buffer of 4 blocks, 3 files of 2 data blocks, `LOG_CHECKPOINT_FREE` 19, `srv_fast_shutdown` 1 or 2, `flush_log_at_trx_commit` 2, lsn up to 64, at most 2 checkpoints before the last calls, `ShutdownFairSpec` | `ShutdownTypeOK`, `ShutdownIsClean`, `ShutdownEnds`, `CallsReturn` | holds, 78,366 states |

The properties:

* **DurabilityOrder** — `flushed_to_disk_lsn <= synced_lsn <= write_lsn <= lsn`:
  nothing is reported flushed that is not on stable storage.
* **SingleFlusher** — at most one thread is past the write of a flush
  request; `n_pending_flushes` and `flush_event` say exactly where it is.
  This is what `ut_a(n_pending_flushes == 1)` reads without the mutex.
* **FlushedCoversAcked** — once `log_write_up_to(lsn, true)` has returned,
  `flushed_to_disk_lsn` stays at or above what it promised (with fsync and
  O_DSYNC; finding 1 is the third method).
* **ImplementsWriteAheadLog** (in `LogWriter`) — every step is a step of
  `WriteAheadLog` under the mapping above, or changes none of its
  variables.  The step that can fail is the return of a
  `log_write_up_to(lsn, true)`: it must be an `Acknowledge`, whose guard is
  that the log is on stable storage up to the promised lsn, whichever
  thread flushed it and by whichever of the three methods.  The returns
  that did not flush themselves are the ones at stake: through the limit
  test (line 1287) on a `flushed_to_disk_lsn` that another thread stored
  without the mutex, and through `work_done` after the wait.
* **BufferHasRoom** — after every append the padding of a write still fits
  in the buffer.  So the cap of `pad_size` at line 1387 never takes effect in
  the configurations checked.
* **RetryLoopIsShort** — a request goes round the retry loop of
  `log_write_up_to` at most twice.
* **WriteOnlyFindsLog** — a write-only request that holds the mutex short
  of its lsn finds unwritten bytes in the buffer: the early return of lines
  1325–1330 is not taken by any request for log that exists, whatever the
  other threads wrote between its read of `write_lsn` at line 1275 and the
  mutex.  It rests on `log_sys_write_completion` storing `write_lsn` in the
  step that sets `buf_next_to_write` to `buf_free`; only a request for an
  lsn beyond the end of the log, which no caller in this file makes, would
  take that return.
* **BufferHoldsLogTail** — the bytes between `write_lsn` and `lsn` are those
  between `buf_next_to_write` and `buf_free`, and every live block of the
  buffer has the number, length and first_rec_group the history of appends
  gives it.
* **DiskHoldsLog** — every block of the lap on disk is where the ring of
  data blocks puts it, with the content of the log at its lsn.
* **FileHeadersNameFirstBlock** — the header of a file carries the lsn of
  the block at its start.
* **OffsetsAgree** — `log_group_calc_lsn_offset` (also for an lsn behind the
  group's pair) and `log_calc_where_lsn_is` both give the ring position.
* **SleeperIsWoken** — a thread asleep in `os_event_wait(flush_event)` is
  woken.
* **WriteUpToReturns** — every call of `log_write_up_to` returns when the
  threads inside the log code keep running.  A flush request that met a
  flush which did not cover it starts over (line 1321) and can find the next
  flusher at work; in the run this happens (a thread is woken with
  `work_done` false and goes through a second round), and the request still
  comes to a flush that covers it.  `SleeperIsWoken` is the part of it that
  needs less fairness.
* **MutexOwned** — a thread at the label `loop` of `log_reserve_and_open`, or
  inside the loops of `log_buffer_extend`, owns the log mutex
  (`ut_ad(log_mutex_own())`, line 291).
* **ExtenderIsAlone** — `is_extending` is set exactly while one thread is
  between lines 224 and 265; two threads never reallocate against each other
  and the flag is never left set.
* **BufferHoldsLogTail** (in `LogReserve`) — the same statement as above,
  now over the reallocation, which carries over one block and rebases the
  cursors while other threads have appended and written in between.
* **MtrCommits** — a mini-transaction that asks for room gets it and appends,
  also when the tracking thread stands still: the wait of lines 350–361
  ends by its count of rounds.
* **TrackerFindsLog** — while tracking is on, what `log_group_read_log_seg`
  reads from the block of `tracked_lsn` to the end of the written log is the
  log, block for block: nothing the tracking thread has yet to read was
  overwritten by log that came round the ring.  Appends pass the retry
  limit however far the tracking thread is behind; `log_close` has to stop
  the tracking (lines 481–496) before a write laps it.
* **BufferOnlyGrows** — no step makes the buffer smaller.
* **CheckpointCoversPool** — the checkpoint a crash would leave is not ahead
  of the flushed log and not ahead of any dirty page: recovery from it
  finds the redo of every page that is not on disk.  `log_checkpoint` uses
  an lsn it read before it gave up the mutex.
* **CheckpointFindsLog** — what `log_group_read_log_seg` reads from the
  block of that checkpoint, found through the offset the checkpoint
  records, to the end of the written log, is the log, block for block: the
  ring has not been overwritten past the checkpoint, the recorded offset is
  right also when the checkpoint lsn is behind the group's (lsn, offset)
  pair, and the reads are cut at the file ends where the writes were (a
  reader that does not cut them reads a file header as log, and the
  property fails after 1,351 states).
* **PromisedCheckpointIsOnDisk** — after `log_checkpoint(sync = true)` has
  returned true for `oldest_lsn`, every later crash leaves a checkpoint at or
  after it (P6 of the description).  The early return of lines 1953–1960
  promises the last checkpoint, `last_checkpoint_lsn`.  The run has
  `flush_log_at_trx_commit` 1; with 2 the flush of line 1035 is left out and
  the property does not hold (see section 4, seen while modelling).
* **CheckpointAgeBounded** — `lsn - last_checkpoint_lsn` stays below
  `log_group_capacity`: the error of line 500 is never printed.
* **CheckpointAdvances** — no step moves `last_checkpoint_lsn` back, and a
  step that moves it takes the next checkpoint number: the second look of
  `log_checkpoint` at line 1990 keeps a thread from writing what it read
  before another thread's checkpoint.
* **ImplementsWriteAheadLog** (in `LogCheckpoint`) — every step is a step
  of `WriteAheadLog` under the mapping above.  The steps that can fail are
  the one of the page cleaner, which must be a `FlushPages` (the redo of a
  page is flushed before the page leaves the flush list), and the one that
  puts a checkpoint field on stable storage, which must be a `Checkpoint`:
  forward, not past the flushed log, not past any page that is dirty *at
  that moment*.  It says of the checkpoint on disk, in one statement, what
  `CheckpointCoversPool` says of states and `CheckpointAdvances` of
  `last_checkpoint_lsn`.
* **ShutdownIsClean** — a shutdown that returns and was not a very fast one
  has stamped the data files with the lsn at which the log ends; the
  checkpoint a restart reads is at that lsn and on stable storage, the log
  is flushed to its end, no page is dirty, no thread is at work and no
  checkpoint write is pending.  A very fast shutdown leaves no stamp.  The
  function takes its looks one after the other while threads may wake up;
  what it saw at line 2444 must still be so at line 2520.
* **ShutdownEnds** — if the other threads come to rest, the shutdown
  returns or aborts on a `ut_a()`.  The `goto loop` of line 2455 is taken
  while the checkpoint is not at the end of the log, and `log_checkpoint`
  would move the end with its own marker at every round but for the test of
  lines 1974–1977.
* **CallsReturn** — if the other threads come to rest, every thread that is
  inside `log_check_margins`, `log_checkpoint_margin` or
  `log_make_checkpoint_at` leaves it (or the server has aborted).  The loops
  begin again after a preflush that found a batch running, after a
  checkpoint that was waited for, while `check_flush_or_checkpoint` is set
  and until `log_checkpoint` succeeds.  In the run a thread takes each
  branch of `log_checkpoint_margin`; on the asynchronous one (line 2086) it
  finds a checkpoint write pending and returns without waiting, or writes
  the checkpoint and leaves it to the i/o handler, also while the shutdown
  is under way.

### Bounds

* `MaxLsn` stops new mini-transactions (`MtrStart`); a reserved append always
  completes.  In `writer_flush` three to four appends happen, which fills the
  buffer past `max_buf_free` (10) and to the point where the space test fails
  (`ReserveNoSpace`), makes the buffer compact, and carries the log over the
  end of the first file.  In `writer_data` the log goes twice round the ring,
  every write of more than one block is split at a file end, the block
  numbers wrap, and mini-transactions of 4 and 12 bytes end inside a block,
  span two blocks and leave blocks in which no record group starts.
* `writer_live` and `writer_returns` leave room for two mini-transactions of
  12 bytes, the least with which a flush begins before the log that another
  request asks for is appended, so that the request waits for it in vain and
  goes round the retry loop.
* `LoopCountCap` (3) is where the debug counter `loop_count` stops counting.
* `BlockNoModulus` is 2^31 in the file format.
* `writer_flush` and `reserve_extend` use the symmetry of the threads; the
  runs with temporal properties under fairness do not.
* In the `reserve_*` runs the margins are 5 and 10 bytes, so that
  `max_buf_free / 2` is more than a block: a write can leave the buffer
  uncompacted with its tail in the second block, and the reallocation then
  has a block to move and cursors to rebase.  Records of 42 bytes and more
  are longer than half of the initial buffer; with 42 and 52 the buffer is
  extended twice.  In `reserve_extend` up to three threads are inside
  `log_buffer_extend` at once (one extending, two waiting).
* `reserve_live` has 2 files of 50 bytes of log: the capacity is 100,
  `log_group_capacity` 90 and `max_checkpoint_age` 78.  The tenth that
  `log_calc_max_ages` keeps back is then a block, as it is (and far more)
  in a server, and covers the block `tracked_lsn` lies in; in the ring of
  60 bytes of the other `reserve_*` runs it is 6 bytes, and that the
  property holds there too is owed to the lsns at which these records end.
  A record of 42 bytes may need 67 bytes (`len_upper_limit`), so the
  tracking wait begins with the second record; with `TrackingRetries` 3 a
  thread waits twice and then appends.  With `MaxLsn` 150 the log runs 90
  bytes ahead of a tracking thread that stands still, `log_close` stops the
  tracking, and the writes go on round the ring into the blocks it had not
  read; with `MaxLsn` 140 they do not get that far.
* The `reserve_*` runs switch the deadlock check off: when no
  mini-transaction may start any more (`MaxLsn`) and all have committed, all
  threads are idle and the model stops, as an idle server does.  A state in
  which threads wait for each other is excluded by `MtrCommits`.

* `checkpoint_safe`: `log_calc_max_ages` gives, for 3 files of 20 bytes of
  log and a reserve of 26, a capacity of 60, `log_group_capacity` 54,
  `max_modified_age_async` 23, `max_modified_age_sync` 25 and
  `max_checkpoint_age_async` = `max_checkpoint_age` = 26.  With `MaxLsn` 66
  the log grows by 46 to 60 bytes: the limits are passed, both kinds of
  preflush happen, a thread finds a checkpoint write pending and waits, five
  and more checkpoints are made so that both fields are rewritten, the
  buffer fills (`ReserveNoSpace`), and the writes go once round the ring
  and into the blocks the first checkpoints named.  Two threads are enough
  for each race the properties are about (one thread between two steps, the
  other acting in between); the i/o handler and the page cleaner are actors
  beside them.
* What the run does not reach: the asynchronous checkpoint of
  `log_checkpoint_margin` (lines 2086–2090).  The window between
  `max_checkpoint_age_async` and `max_checkpoint_age` is a 32nd of the
  margin, which is empty below a margin of 32, and all ages are even with
  records of 4 bytes.  `shutdown_clean` has a margin of 32 and takes the
  branch; with the sizes of `checkpoint_safe` such an instance is not
  finished within minutes.
* `CheckpointAgeBounded` and `CheckpointFindsLog` are statements about
  sizes as much as about the protocol.  The code has no hard bound on the
  age: a thread that passed `log_free_check` appends its record whatever
  has happened since, and every call of `log_checkpoint` appends a marker
  before it knows whether it will write.  The reserve `LOG_CHECKPOINT_FREE`
  has to cover that (the code allows four pages per thread), and in the
  model the records and markers are large against it.  With the same
  records, TLC finds the age at the capacity in rings of 4 and 5 blocks and
  with a reserve of 17 in the ring of 6 blocks, each time by markers of
  calls that found a write pending; with the reserve of 26 both properties
  hold.
* The `checkpoint_*` runs switch the deadlock check off for the same reason
  as the `reserve_*` runs: at `MaxLsn` all threads come to rest.
* `shutdown_clean`: a liveness check costs about 2 ms per state here, so
  the instance is far smaller than that of `checkpoint_safe`.  For 3 files
  of 20 bytes of log and a reserve of 19, `log_calc_max_ages` gives
  `max_modified_age_sync` 30, `max_checkpoint_age_async` 31 and
  `max_checkpoint_age` 32: the smallest margin at which the window of the
  asynchronous checkpoint is not empty.  One thread beside the shutdown
  appends records of 8 bytes, each of which fills a block, up to lsn 64,
  and the markers of 1 byte shift the ages, so that a thread comes to
  `log_checkpoint_margin` at an age of exactly 32 and takes the
  asynchronous branch, at other ages the synchronous one; it is inside
  `log_checkpoint_margin` with a preflush and a checkpoint to make when the
  shutdown begins, finds the page cleaner's batch running (`PreflushBusy`)
  and starts again.  With `MaxLsn` below 64 the asynchronous branch is not
  reached.  The buffer has 4 blocks: with 3, a record of 8 bytes whose
  `len_upper_limit` is 25 finds no room behind a block that markers have
  filled to its sixth byte, whatever is written out, and
  `log_reserve_and_open` goes round for ever; a server's buffer is
  megabytes against a margin of kilobytes.  Threads
  begin calls in every shutdown state before `LAST_PHASE`; every step of
  the shutdown is taken, both aborts included.  One other thread is enough:
  what the shutdown races is one thread waking between two of its looks.
* `MaxCheckpointNo` (2) bounds the calls the other threads may begin: none
  once that many checkpoints were made.  Without it a thread may call
  `log_make_checkpoint_at` during every round of the shutdown, each round
  writes a checkpoint (`write_always`), and the checkpoint number grows
  without end.  The shutdown's own checkpoints are not bounded.
* The marker of `shutdown_clean` has 1 byte, and `LogShutdown` assumes
  `SIZE_OF_MLOG_CHECKPOINT <= max_checkpoint_age / 16` (see "Seen while
  modelling").
* `shutdown_clean` has only the preflush a thread does itself
  (`sync_preflush`), and `write_always` of the other thread is false.
* `shutdown_clean` switches the deadlock check off: after the shutdown has
  returned or aborted nothing runs.

### The view

`writer_flush` and `writer_data` identify states that differ
only in what can no longer be read (`LiveState` in `MCLogWriter`): buffer
blocks outside the live area, which `log_write_low` initialises and
`log_write_up_to` zeroes before use; blocks of the files outside the lap the
properties speak of (no action reads the files); record group ends that lie
before that lap and are too old to be asked for.  The view keeps everything
an action or a property reads, so the reduced graph has the same behaviours
for them.

### Fairness

* `FlusherFairSpec`: weak fairness of the steps of a flusher after it has
  released the mutex.  The flusher holds no lock there and waits for nothing
  but `fil_flush`, which returns.  Nothing is assumed about any other thread.
  `SleeperIsWoken` needs no more than this.
* `FairSpec`: weak fairness of every step of a thread that is inside the log
  code.  A critical section of the log mutex is one step, so the mutex is
  free whenever a thread asks for it; which of the threads that ask gets it
  is not constrained, as with the operating system's mutex.  A sleeper has
  no step until it is woken, and nothing makes an idle thread call again.
  `WriteUpToReturns` is checked under it.
* `TrackedFairSpec` of `LogReserve`: weak fairness of every step of a thread
  inside the log code, the round of the tracking wait among them, and strong
  fairness of the steps that take the mutex.  Nothing is assumed of the
  tracking thread: `MtrCommits` holds when it never moves.  Weak
  fairness is not enough: an appender that retries while `is_extending` is
  set takes and releases the mutex for ever, and the extender would never be
  owed it.  The code justifies the stronger assumption by what the retrying
  threads do between two rounds: they sleep for 100 ms (line 300) or write
  the log (line 319), and the mutex is free all that time.
* `ShutdownFairSpec`: weak fairness, for each thread, of the steps it takes
  inside a call (`ThreadRuns`), of the i/o handler, of the end of a batch
  of the page cleaner and of its exit, and of the shutdown.  A thread inside
  the log code is running or waits for something these actors provide; a
  critical section is one step, so no fairness of the mutex is needed.  No
  fairness is assumed of `ThreadCalls` and of the begin of a batch: no
  thread has to begin anything.  The two liveness properties have the
  premise `ThreadsComeToRest` (from some time on no thread begins a call),
  because the loop of the shutdown is written to begin again as long as
  threads wake up: without the premise a thread that calls for a checkpoint
  in every round keeps the shutdown going for ever, and rightly so.

## 4. Findings

1. **`flushed_to_disk_lsn` goes backwards with ALL_O_DIRECT**
   (`log0log.cc:1441` against `:1420`).  Thread A begins a flush and notes
   `current_flush_lsn = 21`.  Thread B appends, and a write-only
   `log_write_up_to` by B sets `flushed_to_disk_lsn = write_lsn = 35` (line
   1420; the files are unbuffered).  B's `log_buffer_flush_to_disk` returns
   at once through the limit test.  A, without the mutex, now stores
   `flushed_to_disk_lsn = current_flush_lsn = 21`.  The log is on disk
   (`ImplementsWriteAheadLog` holds with this method too, its stable end
   being `synced_lsn`); the reported lsn is wrong until the next flush.
   With O_DSYNC the store is skipped (`do_flush` is false), which is why
   `writer_flush` holds.
2. **The tracking branch of `log_reserve_and_open` returns to `loop` without
   the mutex** (`log0log.cc:361`).  The branches at lines 294–305 and
   314–326 end in `log_mutex_enter(); goto loop;`.  The branch at lines
   350–362 ends in `log_mutex_exit(); os_thread_sleep(10000); goto loop;`.
   The thread is then at `loop` without the mutex; if the margin has cleared
   it returns to a caller that appends and releases a mutex it does not hold.
   It takes changed page tracking to be on and the tracking thread to be more
   than `max_checkpoint_age` behind.
3. **`log_buffer_extend` can make the buffer smaller** (`log0log.cc:251`).
   The size is set from the argument alone.  The test "already extended
   enough by the others" (line 205) is made only by a thread that found
   `is_extending` set.  Two mini-transactions with records of 42 and 72 bytes
   both see a buffer of 4 pages; the second extends it to 8 pages and
   finishes; the first then gets the mutex, finds `is_extending` clear and
   reallocates to 5 pages.  The space test for the record of 72 bytes then
   fails in every round, and the thread writes and retries for ever (checked
   with `MtrCommits` in the configuration of `reserve_shrink`).

4. **With `write_always` a checkpoint can go back behind one already
   reported** (`log0log.cc:1990`).  Two threads are in
   `log_make_checkpoint_at(LSN_MAX, ·)`, B with `write_always` true.  B
   reads `oldest_lsn = 21` under the mutex and appends its marker.  A reads
   `oldest_lsn = 25`, appends its marker, flushes the log, writes
   checkpoint 0 at lsn 25, waits for it and returns true.  B flushes and is
   back under the mutex; the test "another thread has checkpointed
   meanwhile" is skipped because `write_always` is set, and B writes
   checkpoint 1 at lsn 21 into the other field.  Recovery takes the higher
   number and starts at 21; `last_checkpoint_lsn` steps back from 25 to 21.
   The description has the test without the `write_always` condition and
   promises P6.  The redo from 21 is still in the files at that point, so
   recovery repeats work and loses none; what is lost is the promise and the
   accuracy of the checkpoint age the margins work with.  With
   `write_always` false the property holds (`checkpoint_safe`), and
   `CheckpointAdvances` with it.  The caller with `write_always` true is
   the shutdown (line 2438), whose checkpoint can so go behind that of a
   thread that woke up; the `is_last` test then fails and the shutdown
   begins again, which is why `ShutdownIsClean` holds all the same.

Seen while modelling, and not the subject of a run:

* `log_io_complete` leaves the flush of the checkpoint field out when
  `thd_flush_log_at_trx_commit(NULL)` is 2 (line 1035).  The field then
  reaches the disk with the next flush of the log files, and until then a
  checkpoint that `log_checkpoint(sync = true)` reported is not the one a
  crash of the machine leaves.  `PromisedCheckpointIsOnDisk` is checked with
  the value 1; its defect variant `CheckpointIsFlushed_never` is this case.
* A very fast shutdown can return with log in the buffer that is not on
  disk.  `log_buffer_flush_to_disk` runs at line 2405; a thread that wakes
  up after it and has finished its mini-transaction before the look at
  line 2408, or between that look and the `ut_a()` of line 2431, is not
  seen.  A very fast shutdown is followed by crash recovery, which is told
  nothing of that log; `ShutdownIsClean` therefore promises nothing about
  the log after a very fast shutdown.
* `log_checkpoint_margin` can go round for ever when markers are large
  against the margin.  With the checkpoint age above `max_checkpoint_age`
  and the age of the oldest page at or below `max_modified_age_sync`, it
  calls `log_checkpoint` and starts again (line 2122); `log_checkpoint`
  appends its marker, finds that the checkpoint lsn would not move, and
  returns true; the marker has raised the age again.  It takes a marker
  longer than the distance between the two limits, a 16th of the margin:
  impossible at the sizes of a server (a marker has 9 bytes, the margin
  megabytes), and the reason why `LogShutdown` assumes a short marker.
* A thread that is inside the back-off loop of
  `log_preflush_pool_modified_pages` (lines 1578–1591) when the page cleaner
  exits waits for a batch that never comes: `buf_page_cleaner_is_active` is
  looked at once, at line 1554, before the loop.  Whether a thread can be
  there then depends on code outside this file; the model decides the arm
  when the wait ends, and `shutdown_clean` has the mode off.
* The description lists `lsn - last_checkpoint_lsn <= max_checkpoint_age` as
  an invariant.  The code bounds the age only by what threads append after
  the limit is passed; `CheckpointAgeBounded` states the bound the code
  keeps, the group capacity.

## 5. Not modelled, and the plan

Done of the plan: `LogReserve`; `LogCheckpoint` with safety (`checkpoint_safe`)
and, in the small instance of the shutdown, liveness (`CallsReturn`), the
asynchronous checkpoint included; the retry limit of the tracking wait
(`MtrCommits`, `TrackerFindsLog`); the
abstract write-ahead log and the two refinements; `LogShutdown`; the
recovery-side readers as operators.

Open:

1. The tracking wait of `log_check_margins` (line 2215), which has no limit
   on its rounds: whether it ends depends on the tracking thread
   (`log0online.cc`) and on the background write of the log, neither of
   which is in this file.  `LogCheckpoint` has `log_check_margins` with
   tracking off.
2. `CheckpointAgeBounded` and `CheckpointFindsLog` over the asynchronous
   checkpoint of `log_checkpoint_margin`: `shutdown_clean` takes the branch
   and checks that the calls return and the shutdown is clean, but its log
   does not go round the ring; `checkpoint_safe` goes round the ring with a
   margin too small for the branch.
3. The composition of `LogWriter` with `LogCheckpoint`: the unlocked tail
   of `log_write_up_to` running beside `log_checkpoint`, which reads
   `flushed_to_disk_lsn` through `log_write_up_to(flush_lsn, true)`.  Both
   are checked against `WriteAheadLog` separately; together the state space
   is the product of the two largest runs.
4. The back-off preflush during shutdown, with the page cleaner's protocol
   (`buf_flush_request_force`, `buf_flush_wait_flushed`) modelled from
   `buf0flu.cc`, which is not in this repository.

Not modelled, and why:

* More than one log group: the code keeps a list, the server creates one.
* `log_append_on_checkpoint` and the group info array of the checkpoint
  block (`log_checkpoint_set_nth_group_info`): the first hands records to
  `fil_names_clear`, whose code is in another file and for which the
  constant `SIZE_OF_MLOG_CHECKPOINT` stands; the second is written for the
  archive and read by nothing in this file.
* The checksums of blocks and of the checkpoint block
  (`log_block_store_checksum`): the validity of a field stands for them.
* Log archiving (`UNIV_LOG_ARCHIVE`) and `log_reset_first_header_and_checkpoint`
  (`UNIV_HOTBACKUP`): not compiled into the server.
* `log_shutdown`, `log_group_close`, `log_group_close_all`, `log_mem_free`:
  they free memory after the shutdown has returned, when nothing runs
  beside them.
* `log_print`, `log_refresh_stats`, `log_peek_lsn`, the monitor counters:
  reporting that changes nothing the log code reads.
* `src/unnamed/part_000`: a test script of another subsystem.
