----------------------------- MODULE LogShutdown -----------------------------
(***************************************************************************)
(* logs_empty_and_mark_files_at_shutdown: the thread that shuts the server *)
(* down waits until the server is quiet, makes a checkpoint at the end of  *)
(* the log and stamps the data files with its lsn, or, in a very fast      *)
(* shutdown, only flushes the log.                                         *)
(*                                                                         *)
(* The steps of the other threads, of the i/o handler and of the page      *)
(* cleaner are those of module LogCheckpoint; the checkpoint the shutdown  *)
(* makes is made by the same steps, taken by ShutdownThread.  A step of    *)
(* the shutdown is a stretch of code between two looks at what other       *)
(* threads change.  The loops that sleep and look again are guards.        *)
(*                                                                         *)
(* What is not in log0log.cc is assumed.  The monitor threads, the         *)
(* transactions and the master, purge and worker threads are one set of    *)
(* threads, active while they are inside the log code; they may begin work *)
(* until srv_shutdown_state is SRV_SHUTDOWN_LAST_PHASE, which is what the  *)
(* code prepares for when it looks again for threads that woke up.  The    *)
(* page cleaner flushes the pool and exits in SRV_SHUTDOWN_FLUSH_PHASE.    *)
(* The server is not read-only; tracking and archiving are off.            *)
(***************************************************************************)
EXTENDS LogCheckpoint

CONSTANTS
    ShutdownThread,    \* the thread that runs the shutdown
    FastShutdown,      \* the values srv_fast_shutdown takes
    MaxCheckpointNo    \* bound: no call is begun from this checkpoint number on

ASSUME /\ ShutdownThread \in Threads
       /\ FastShutdown \subseteq {0, 1, 2} /\ FastShutdown # {}
       /\ MaxCheckpointNo \in Nat
       \* The marker is shorter than the distance between the age at which
       \* log_checkpoint_margin flushes pages and the age at which it makes
       \* a checkpoint, as it is at the sizes of a server.
       /\ SIZE_OF_MLOG_CHECKPOINT <= log_calc_max_ages.max_checkpoint_age \div 16

VARIABLES
    srv_shutdown_state,          \* "NONE", "CLEANUP", "FLUSH_PHASE", "LAST_PHASE"
    srv_fast_shutdown,           \* 2: very fast, the pool is not flushed
    shutdown,                    \* where the shutdown is, and its local lsn
    buf_page_cleaner_is_active,  \* the page cleaner has not exited
    flushed_lsn                  \* the lsn stamp in the data files, 0: none

shutdown_vars == <<srv_shutdown_state, srv_fast_shutdown, shutdown,
                   buf_page_cleaner_is_active, flushed_lsn>>

all_vars == <<vars, shutdown_vars>>

ShutdownPcValues ==
    {"running", "loop", "flush_phase", "pending", "quiet", "fast_check",
     "fast_last_phase", "fast_close", "checkpoint", "woke_up", "all_freed",
     "last_phase", "done", "aborted"}

OtherThreads == Threads \ {ShutdownThread}

ShutdownInit ==
    /\ Init
    /\ srv_shutdown_state = "NONE"
    /\ srv_fast_shutdown \in FastShutdown
    /\ shutdown = [pc |-> "running", lsn |-> 0]
    /\ buf_page_cleaner_is_active = TRUE
    /\ flushed_lsn = 0

\* The shutdown goes on to the place `to'.
Goes(to) == shutdown' = [shutdown EXCEPT !.pc = to]

-----------------------------------------------------------------------------
(* The server around the shutdown *)

\* ut_a() has not failed: a failed assertion ends the process.
Alive == shutdown.pc # "aborted"

\* srv_any_background_threads_are_active(), trx_sys_any_active_transactions()
\* and srv_get_active_thread_type(): some other thread is at work.
AnyThreadActive == \E t \in OtherThreads : pc[t] # "idle"

\* buf_all_freed(): no page is dirty and none is being written.
buf_all_freed == dirty = {} /\ ~batch_running

\* A thread begins a mini-transaction or a checkpoint.
ThreadCalls(t) ==
    /\ Alive
    /\ srv_shutdown_state # "LAST_PHASE"
    /\ log_sys.next_checkpoint_no < MaxCheckpointNo
    /\ \/ \E len \in MtrLens : MtrStart(t, len)
       \/ \E write_always \in WriteAlways : MakeCheckpointAt(t, write_always)
    /\ UNCHANGED shutdown_vars

\* A thread, the shutdown thread inside log_make_checkpoint_at among them,
\* takes a step of LogCheckpoint.  log_checkpoint leaves the marker out as
\* srv_shutdown_state tells it, and the preflush is the thread's own once the
\* page cleaner has exited.
ThreadRuns(t) ==
    /\ Alive
    /\ \/ ReserveNoSpace(t)
       \/ MtrAppend(t)
       \/ LogFlushMargin(t)
       \/ MarginQuiet(t)
       \/ MarginDecide(t)
       \/ MarginsRecheck(t)
       \/ PreflushSyncWhen(t, buf_page_cleaner_is_active)
       \/ PreflushBusy(t)
       \/ PreflushBackoffWhen(t, buf_page_cleaner_is_active)
       \/ CheckpointNothingNew(t)
       \/ CheckpointMarkWhen(t, srv_shutdown_state # "NONE")
       \/ CheckpointFlushLog(t)
       \/ CheckpointAlreadyDone(t)
       \/ CheckpointBusy(t)
       \/ CheckpointWrite(t)
       \/ CheckpointWaited(t)
    /\ UNCHANGED shutdown_vars

\* The i/o handler completes the write of a checkpoint field.
IoHandlerRuns ==
    /\ Alive
    /\ IoWritten \/ IoComplete
    /\ UNCHANGED shutdown_vars

\* The page cleaner runs a batch while it is active.
CleanerRuns ==
    /\ Alive
    /\ buf_page_cleaner_is_active
    /\ CleanerBegins \/ CleanerEnds
    /\ UNCHANGED shutdown_vars

\* In SRV_SHUTDOWN_FLUSH_PHASE the page cleaner writes every dirty page and
\* exits.
CleanerExits ==
    /\ Alive
    /\ srv_shutdown_state = "FLUSH_PHASE"
    /\ buf_page_cleaner_is_active
    /\ ~batch_running
    /\ PagesFlushed(dirty)
    /\ buf_page_cleaner_is_active' = FALSE
    /\ UNCHANGED <<checkpoint_io, batch_running, pc, arg, mtr_ends,
                   promised_lsn, srv_shutdown_state, srv_fast_shutdown,
                   shutdown, flushed_lsn>>

-----------------------------------------------------------------------------
(* logs_empty_and_mark_files_at_shutdown *)

\* Lines 2247-2252.
ShutdownBegins ==
    /\ shutdown.pc = "running"
    /\ srv_shutdown_state' = "CLEANUP"
    /\ Goes("loop")
    /\ UNCHANGED <<vars, srv_fast_shutdown, buf_page_cleaner_is_active,
                   flushed_lsn>>

\* Lines 2253-2346: the shutdown sleeps and looks again until no monitor
\* thread, no transaction and no master, purge or worker thread is active.
ShutdownFlushPhase ==
    /\ shutdown.pc = "loop"
    /\ ~AnyThreadActive
    /\ srv_shutdown_state' = "FLUSH_PHASE"
    /\ Goes("flush_phase")
    /\ UNCHANGED <<vars, srv_fast_shutdown, buf_page_cleaner_is_active,
                   flushed_lsn>>

\* Lines 2347-2356: it waits for the page cleaner to exit.
ShutdownCleanerGone ==
    /\ shutdown.pc = "flush_phase"
    /\ ~buf_page_cleaner_is_active
    /\ Goes("pending")
    /\ UNCHANGED <<vars, srv_shutdown_state, srv_fast_shutdown,
                   buf_page_cleaner_is_active, flushed_lsn>>

\* Defect variant of PendingIo: the test is the wrong way round for the
\* checkpoint writes.
PendingIo_no_write ==
    \/ log_sys.n_pending_checkpoint_writes = 0
    \/ log_sys.n_pending_flushes # 0
    \/ batch_running

\* Lines 2358-2361 and 2374: a checkpoint write, a log flush or page i/o is
\* pending.
PendingIo ==
    \/ log_sys.n_pending_checkpoint_writes # 0
    \/ log_sys.n_pending_flushes # 0
    \/ batch_running

\* Lines 2363-2385: the shutdown begins again while i/o is pending.
ShutdownPendingIo ==
    /\ shutdown.pc = "pending"
    /\ PendingIo
    /\ Goes("loop")
    /\ UNCHANGED <<vars, srv_shutdown_state, srv_fast_shutdown,
                   buf_page_cleaner_is_active, flushed_lsn>>

ShutdownNoPendingIo ==
    /\ shutdown.pc = "pending"
    /\ ~PendingIo
    /\ Goes("quiet")
    /\ UNCHANGED <<vars, srv_shutdown_state, srv_fast_shutdown,
                   buf_page_cleaner_is_active, flushed_lsn>>

\* Lines 2387-2405, a very fast shutdown: log_buffer_flush_to_disk() writes
\* and flushes the log to its end.
ShutdownFastFlush ==
    /\ shutdown.pc = "quiet"
    /\ srv_fast_shutdown = 2
    /\ LogWrittenUpTo(log_sys, files, log_sys.lsn, TRUE)
    /\ Goes("fast_check")
    /\ UNCHANGED <<checkpoint_io, dirty, batch_running, pc, arg, mtr_ends,
                   promised_lsn, srv_shutdown_state, srv_fast_shutdown,
                   buf_page_cleaner_is_active, flushed_lsn>>

\* Lines 2407-2415: a thread woke up, the shutdown begins again.
ShutdownFastWokeUp ==
    /\ shutdown.pc = "fast_check"
    /\ AnyThreadActive
    /\ Goes("loop")
    /\ UNCHANGED <<vars, srv_shutdown_state, srv_fast_shutdown,
                   buf_page_cleaner_is_active, flushed_lsn>>

\* Lines 2408-2416: none did.
ShutdownFastSuspended ==
    /\ shutdown.pc = "fast_check"
    /\ ~AnyThreadActive
    /\ Goes("fast_last_phase")
    /\ UNCHANGED <<vars, srv_shutdown_state, srv_fast_shutdown,
                   buf_page_cleaner_is_active, flushed_lsn>>

\* Lines 2418-2425.
ShutdownFastLastPhase ==
    /\ shutdown.pc = "fast_last_phase"
    /\ srv_shutdown_state' = "LAST_PHASE"
    /\ Goes("fast_close")
    /\ UNCHANGED <<vars, srv_fast_shutdown, buf_page_cleaner_is_active,
                   flushed_lsn>>

\* Lines 2427-2433: the files are closed and the shutdown returns, without
\* a stamp in the data files, when the threads are found suspended again.
ShutdownFastReturns ==
    /\ shutdown.pc = "fast_close"
    /\ ~AnyThreadActive
    /\ Goes("done")
    /\ UNCHANGED <<vars, srv_shutdown_state, srv_fast_shutdown,
                   buf_page_cleaner_is_active, flushed_lsn>>

\* Lines 2429-2431: a thread is active, ut_a() fails and the server aborts.
ShutdownFastAborts ==
    /\ shutdown.pc = "fast_close"
    /\ AnyThreadActive
    /\ Goes("aborted")
    /\ UNCHANGED <<vars, srv_shutdown_state, srv_fast_shutdown,
                   buf_page_cleaner_is_active, flushed_lsn>>

\* Lines 2436-2438: log_make_checkpoint_at(LSN_MAX, TRUE).
ShutdownMakesCheckpoint ==
    /\ shutdown.pc = "quiet"
    /\ srv_fast_shutdown # 2
    /\ log_make_checkpoint_at(ShutdownThread, TRUE)
    /\ Goes("checkpoint")
    /\ UNCHANGED <<log_sys, files, checkpoints, checkpoint_io, dirty,
                   batch_running, mtr_ends, promised_lsn, srv_shutdown_state,
                   srv_fast_shutdown, buf_page_cleaner_is_active, flushed_lsn>>

\* Defect variant of is_last: the checkpoint is not compared with the end of
\* the log.
is_last_unchecked(l) == TRUE

\* Lines 2445-2449: the last checkpoint is at the end of the log.
is_last(l) == l.lsn = l.last_checkpoint_lsn

\* Lines 2440-2456: the checkpoint is made.  Under the mutex the shutdown
\* reads the lsn; it begins again unless the checkpoint is the last.
ShutdownCheckpointMade ==
    /\ shutdown.pc = "checkpoint"
    /\ pc[ShutdownThread] = "idle"
    /\ shutdown' = [pc  |-> IF is_last(log_sys) THEN "woke_up" ELSE "loop",
                    lsn |-> log_sys.lsn]
    /\ UNCHANGED <<vars, srv_shutdown_state, srv_fast_shutdown,
                   buf_page_cleaner_is_active, flushed_lsn>>

\* Lines 2458-2470: a thread woke up, the shutdown begins again.
ShutdownWokeUp ==
    /\ shutdown.pc = "woke_up"
    /\ AnyThreadActive
    /\ Goes("loop")
    /\ UNCHANGED <<vars, srv_shutdown_state, srv_fast_shutdown,
                   buf_page_cleaner_is_active, flushed_lsn>>

\* fil_flush_file_spaces(FIL_TYPE_LOG): what was written to the log files,
\* the checkpoint fields with it, is on stable storage.
fil_flush_file_spaces(c) == fil_flush(c)

\* Lines 2463 and 2472-2475: none did; the data files and the log files are
\* flushed.
ShutdownFlushesFiles ==
    /\ shutdown.pc = "woke_up"
    /\ ~AnyThreadActive
    /\ checkpoints' = fil_flush_file_spaces(checkpoints)
    /\ Goes("all_freed")
    /\ UNCHANGED <<log_sys, files, checkpoint_io, dirty, batch_running, pc,
                   arg, mtr_ends, promised_lsn, srv_shutdown_state,
                   srv_fast_shutdown, buf_page_cleaner_is_active, flushed_lsn>>

\* Lines 2477-2491: a page is dirty, the shutdown begins again.
ShutdownNotFreed ==
    /\ shutdown.pc = "all_freed"
    /\ ~buf_all_freed
    /\ Goes("loop")
    /\ UNCHANGED <<vars, srv_shutdown_state, srv_fast_shutdown,
                   buf_page_cleaner_is_active, flushed_lsn>>

\* Lines 2482 and 2493-2499: none is.
ShutdownLastPhase ==
    /\ shutdown.pc = "all_freed"
    /\ buf_all_freed
    /\ srv_shutdown_state' = "LAST_PHASE"
    /\ Goes("last_phase")
    /\ UNCHANGED <<vars, srv_fast_shutdown, buf_page_cleaner_is_active,
                   flushed_lsn>>

\* Lines 2501-2508 and 2525-2532: the checks that the server really is
\* quiet, each a ut_a().
ServerIsQuiet(lsn) ==
    /\ ~AnyThreadActive
    /\ buf_all_freed
    /\ lsn = log_sys.lsn

\* Lines 2501-2533: the server is quiet; fil_write_flushed_lsn(lsn) stamps
\* the data files, the files are closed and the shutdown returns.
ShutdownReturns ==
    /\ shutdown.pc = "last_phase"
    /\ ServerIsQuiet(shutdown.lsn)
    /\ flushed_lsn' = shutdown.lsn
    /\ Goes("done")
    /\ UNCHANGED <<vars, srv_shutdown_state, srv_fast_shutdown,
                   buf_page_cleaner_is_active>>

\* Lines 2503, 2506 and 2508: a ut_a() fails and the server aborts.
ShutdownAborts ==
    /\ shutdown.pc = "last_phase"
    /\ ~ServerIsQuiet(shutdown.lsn)
    /\ Goes("aborted")
    /\ UNCHANGED <<vars, srv_shutdown_state, srv_fast_shutdown,
                   buf_page_cleaner_is_active, flushed_lsn>>

ShutdownStep ==
    \/ ShutdownBegins
    \/ ShutdownFlushPhase
    \/ ShutdownCleanerGone
    \/ ShutdownPendingIo
    \/ ShutdownNoPendingIo
    \/ ShutdownFastFlush
    \/ ShutdownFastWokeUp
    \/ ShutdownFastSuspended
    \/ ShutdownFastLastPhase
    \/ ShutdownFastReturns
    \/ ShutdownFastAborts
    \/ ShutdownMakesCheckpoint
    \/ ShutdownCheckpointMade
    \/ ShutdownWokeUp
    \/ ShutdownFlushesFiles
    \/ ShutdownNotFreed
    \/ ShutdownLastPhase
    \/ ShutdownReturns
    \/ ShutdownAborts

ShutdownNext ==
    \/ \E t \in OtherThreads : ThreadCalls(t)
    \/ \E t \in Threads : ThreadRuns(t)
    \/ IoHandlerRuns
    \/ CleanerRuns
    \/ CleanerExits
    \/ ShutdownStep

ShutdownSpec == ShutdownInit /\ [][ShutdownNext]_all_vars

\* Every thread that is inside a call goes on, the i/o handler completes
\* what it was given, the page cleaner ends its batch and exits, and the
\* shutdown thread runs.  No thread is bound to begin a call.
ShutdownFairSpec ==
    /\ ShutdownSpec
    /\ \A t \in Threads : WF_all_vars(ThreadRuns(t))
    /\ WF_all_vars(IoHandlerRuns)
    /\ WF_all_vars(Alive /\ CleanerEnds /\ UNCHANGED shutdown_vars)
    /\ WF_all_vars(CleanerExits)
    /\ WF_all_vars(ShutdownStep)

-----------------------------------------------------------------------------
(* Properties *)

ShutdownTypeOK ==
    /\ TypeOK
    /\ srv_shutdown_state \in {"NONE", "CLEANUP", "FLUSH_PHASE", "LAST_PHASE"}
    /\ srv_fast_shutdown \in FastShutdown
    /\ shutdown \in [pc : ShutdownPcValues, lsn : 0 .. LsnBound]
    /\ buf_page_cleaner_is_active \in BOOLEAN
    /\ flushed_lsn \in 0 .. LsnBound

\* A shutdown that returns leaves nothing for recovery to do, unless it was
\* a very fast one: the data files are stamped with the lsn at which the log
\* ends, the checkpoint a restart reads is at that lsn and on stable
\* storage, the log is flushed to its end, no page is dirty, no thread is at
\* work and no checkpoint write is pending.  A very fast shutdown leaves the
\* data files without a stamp.  It is about the looks that
\* logs_empty_and_mark_files_at_shutdown takes at the threads, the pending
\* i/o, the last checkpoint and the pool, one after the other while threads
\* may wake up, and the ut_a() checks after them.
ShutdownIsClean ==
    shutdown.pc = "done" =>
        IF srv_fast_shutdown = 2
        THEN flushed_lsn = 0
        ELSE /\ flushed_lsn = log_sys.lsn
             /\ log_sys.last_checkpoint_lsn = log_sys.lsn
             /\ log_sys.flushed_to_disk_lsn = log_sys.lsn
             /\ RecoveryCheckpoint # {}
             /\ \A c \in RecoveryCheckpoint : c.lsn = log_sys.lsn
             /\ dirty = {}
             /\ ~AnyThreadActive
             /\ checkpoint_io = NoIo

\* The other threads come to rest: from some time on none begins a call.
ThreadsComeToRest ==
    <>[][\A t \in OtherThreads : ~ThreadCalls(t)]_all_vars

\* When the other threads come to rest, the shutdown ends: it returns or a
\* ut_a() aborts the server.  It is about the goto loop of
\* logs_empty_and_mark_files_at_shutdown, taken while the checkpoint is not
\* at the end of the log, and about log_checkpoint, which must not move the
\* end of the log with a marker of its own once the pool is clean.
ShutdownEnds ==
    ThreadsComeToRest => <>(shutdown.pc \in {"done", "aborted"})

\* When the other threads come to rest, a thread that is inside a call
\* leaves it.  It is about the loops of log_checkpoint_margin,
\* log_check_margins and log_make_checkpoint_at, which begin again after a
\* preflush that failed, after a checkpoint they waited for, while
\* check_flush_or_checkpoint is set and until log_checkpoint succeeds, and
\* about the asynchronous checkpoint (line 2086), which clears the flag
\* before a marker of its own raises it again.
CallsReturn ==
    ThreadsComeToRest =>
        \A t \in Threads :
            (pc[t] \notin {"idle", "reserve"}) ~>
                (pc[t] \in {"idle", "reserve"} \/ ~Alive)

=============================================================================
