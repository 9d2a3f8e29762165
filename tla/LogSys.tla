------------------------------- MODULE LogSys -------------------------------
(***************************************************************************)
(* The redo log system of log0log.cc as data and pure operators.           *)
(*                                                                         *)
(* log_sys is a record with the fields of log_t that the modelled code     *)
(* reads or writes; the log buffer is the sequence of its blocks, each the *)
(* header fields of a block; the log files of the (single) log group are   *)
(* a record of the file headers and of the sequence of all blocks in the   *)
(* order of their real offsets.  Every function of log0log.cc that runs    *)
(* entirely under the log mutex is an operator from the state before the   *)
(* call to the state after it, with the name it has in the source.  The    *)
(* modules that model the threads sequence these operators into actions.   *)
(*                                                                         *)
(* Payload bytes are not modelled: a block is its header number, its data  *)
(* length and its first_rec_group offset.  The flush bit, the checkpoint   *)
(* number stamped in a block and the trailer checksum are left out.        *)
(***************************************************************************)
EXTENDS Integers, Sequences, FiniteSetsExt

CONSTANTS
    OS_FILE_LOG_BLOCK_SIZE,    \* bytes in a log block (512 in the source)
    LOG_BLOCK_HDR_SIZE,        \* bytes of block header (12)
    LOG_BLOCK_TRL_SIZE,        \* bytes of block trailer (4)
    LOG_START_LSN,             \* first lsn, a multiple of the block size
    LOG_FILE_HDR_SIZE,         \* bytes of header region in each log file
    LOG_BUF_WRITE_MARGIN,      \* free space wanted before an append
    LOG_BUF_FLUSH_MARGIN,      \* free space wanted after an append
    LOG_BUFFER_SIZE,           \* initial size of the log buffer in bytes
    LOG_CHECKPOINT_FREE,       \* the reserve "free" of log_calc_max_ages
    FileSize,                  \* group->file_size, header region included
    NFiles,                    \* group->n_files
    WriteAheadSize,            \* srv_log_write_ahead_size
    BlockNoModulus             \* block numbers wrap at this (2^31 in the format)

BLOCK == OS_FILE_LOG_BLOCK_SIZE
HDR   == LOG_BLOCK_HDR_SIZE
TRL   == LOG_BLOCK_TRL_SIZE

ASSUME /\ BLOCK \in Nat /\ HDR \in Nat \ {0} /\ TRL \in Nat \ {0}
       \* log_reserve_and_open allows 5/4 of the payload for headers and trailers
       /\ 4 * (HDR + TRL) <= BLOCK - HDR - TRL
       /\ LOG_START_LSN \in Nat \ {0} /\ LOG_START_LSN % BLOCK = 0
       /\ LOG_FILE_HDR_SIZE % BLOCK = 0 /\ LOG_FILE_HDR_SIZE > 0
       /\ FileSize % BLOCK = 0 /\ FileSize > LOG_FILE_HDR_SIZE
       /\ NFiles \in Nat \ {0}
       /\ LOG_BUFFER_SIZE % BLOCK = 0
       /\ WriteAheadSize % BLOCK = 0 /\ WriteAheadSize > 0
       /\ LOG_BUF_FLUSH_MARGIN > LOG_BUF_WRITE_MARGIN
       /\ BlockNoModulus \in Nat \ {0}

-----------------------------------------------------------------------------
(* Alignment and blocks *)

ut_calc_align_down(n, a) == n - (n % a)
ut_calc_align(n, a)      == ut_calc_align_down(n + a - 1, a)

\* The header number of the block that holds lsn.
log_block_convert_lsn_to_no(lsn) == 1 + ((lsn \div BLOCK) % BlockNoModulus)

\* Memory from ut_zalloc_nokey, and the padding log_write_up_to memsets.
ZeroBlock == [no |-> 0, len |-> 0, frg |-> 0]

\* n blocks of zeroes.
ZeroBlocks(n) == [i \in 1 .. n |-> ZeroBlock]

log_block_init(lsn) ==
    [no |-> log_block_convert_lsn_to_no(lsn), len |-> HDR, frg |-> 0]

-----------------------------------------------------------------------------
(* The log group: lsn <-> offset in the ring of files *)

log_group_get_capacity == (FileSize - LOG_FILE_HDR_SIZE) * NFiles

log_group_calc_size_offset(offset) ==
    offset - LOG_FILE_HDR_SIZE * (1 + offset \div FileSize)

log_group_calc_real_offset(offset) ==
    offset + LOG_FILE_HDR_SIZE * (1 + offset \div (FileSize - LOG_FILE_HDR_SIZE))

\* The real offset of lsn, from the (lsn, lsn_offset) pair the group keeps.
log_group_calc_lsn_offset(lsn, l) ==
    LET gr_lsn_size_offset == log_group_calc_size_offset(l.group_lsn_offset)
        group_size         == log_group_get_capacity
        difference         ==
            IF lsn >= l.group_lsn
            THEN lsn - l.group_lsn
            ELSE group_size - ((l.group_lsn - lsn) % group_size)
    IN  log_group_calc_real_offset((gr_lsn_size_offset + difference) % group_size)

\* Defect variant of log_group_set_fields: the lsn is stored before the
\* offset is computed from it, so the offset stays where it was.
log_group_set_fields_lsn_first(l, lsn) ==
    [l EXCEPT !.group_lsn = lsn]

log_group_set_fields(l, lsn) ==
    [l EXCEPT !.group_lsn_offset = log_group_calc_lsn_offset(lsn, l),
              !.group_lsn        = lsn]

\* Defect variant of log_calc_where_lsn_is: the file number does not wrap.
log_calc_where_lsn_is_no_wrap(first_header_lsn, lsn) ==
    LET capacity == FileSize - LOG_FILE_HDR_SIZE
    IN  [file_no |-> (lsn - first_header_lsn) \div capacity,
         log_file_offset |-> ((lsn - first_header_lsn) % capacity)
                             + LOG_FILE_HDR_SIZE]

\* The file and the offset in it of lsn, for a group whose first file starts
\* at first_header_lsn.
log_calc_where_lsn_is(first_header_lsn, lsn) ==
    LET capacity == FileSize - LOG_FILE_HDR_SIZE
        whole    == capacity * NFiles
        lsn2     == IF lsn < first_header_lsn
                    THEN lsn + (1 + (first_header_lsn - lsn) \div whole) * whole
                    ELSE lsn
    IN  [file_no |-> ((lsn2 - first_header_lsn) \div capacity) % NFiles,
         log_file_offset |-> ((lsn2 - first_header_lsn) % capacity)
                             + LOG_FILE_HDR_SIZE]

-----------------------------------------------------------------------------
(* Initialisation *)

MaxBufFree(buf_size) == buf_size \div 2 - LOG_BUF_FLUSH_MARGIN

\* The age limits of log_calc_max_ages; ok is its return value.
log_calc_max_ages ==
    LET smallest_capacity == log_group_get_capacity - log_group_get_capacity \div 10
        free              == LOG_CHECKPOINT_FREE
        margin0           == smallest_capacity - free
        margin            == margin0 - margin0 \div 10
    IN  [ok                       |-> free < smallest_capacity \div 2,
         log_group_capacity       |-> smallest_capacity,
         max_modified_age_async   |-> margin - margin \div 8,
         max_modified_age_sync    |-> margin - margin \div 16,
         max_checkpoint_age_async |-> margin - margin \div 32,
         max_checkpoint_age       |-> margin]

\* log_group_init asserts that the log files are large enough.
ASSUME log_calc_max_ages.ok

\* log_sys after log_init(): zero-filled memory, the first block of the
\* buffer initialised, the flush event set.
log_init ==
    LET first == [log_block_init(LOG_START_LSN) EXCEPT !.frg = HDR]
    IN  [lsn                       |-> LOG_START_LSN + HDR,
         buf_size                  |-> LOG_BUFFER_SIZE,
         max_buf_free              |-> MaxBufFree(LOG_BUFFER_SIZE),
         buf                       |->
             <<first>> \o ZeroBlocks(LOG_BUFFER_SIZE \div BLOCK - 1),
         buf_free                  |-> HDR,
         buf_next_to_write         |-> 0,
         write_lsn                 |-> LOG_START_LSN,
         flushed_to_disk_lsn       |-> 0,
         current_flush_lsn         |-> 0,
         n_pending_flushes         |-> 0,
         flush_event               |-> TRUE,
         is_extending              |-> FALSE,
         check_flush_or_checkpoint |-> TRUE,
         last_checkpoint_lsn       |-> LOG_START_LSN,
         next_checkpoint_lsn       |-> 0,
         next_checkpoint_no        |-> 0,
         n_pending_checkpoint_writes |-> 0,
         checkpoint_lock           |-> FALSE,    \* TRUE: locked exclusively
         group_lsn                 |-> 0,
         group_lsn_offset          |-> 0,
         log_group_capacity        |-> 0,
         max_modified_age_sync     |-> 0,
         max_checkpoint_age_async  |-> 0,
         max_checkpoint_age        |-> 0]

\* log_group_init() of the one log group, which ends in log_calc_max_ages().
log_group_init(l) ==
    [l EXCEPT !.group_lsn                = LOG_START_LSN,
              !.group_lsn_offset         = LOG_FILE_HDR_SIZE,
              !.log_group_capacity       = log_calc_max_ages.log_group_capacity,
              !.max_modified_age_sync    = log_calc_max_ages.max_modified_age_sync,
              !.max_checkpoint_age_async =
                  log_calc_max_ages.max_checkpoint_age_async,
              !.max_checkpoint_age       = log_calc_max_ages.max_checkpoint_age]

\* The log files as fil_io sees them: per file the start lsn stamped in its
\* header (0: never written), and all blocks, the block at real offset o
\* being blk[o / BLOCK + 1].
NDiskBlocks == (NFiles * FileSize) \div BLOCK

files_init ==
    [hdr |-> [k \in 0 .. NFiles - 1 |-> 0],
     blk |-> <<>> \o ZeroBlocks(NDiskBlocks)]

-----------------------------------------------------------------------------
(* Appending to the log buffer *)

\* Defect variant of len_upper_limit: the write-ahead unit is forgotten.
len_upper_limit_no_write_ahead(len) ==
    LOG_BUF_WRITE_MARGIN + (5 * len) \div 4

\* The space log_reserve_and_open wants free in the buffer for len bytes.
len_upper_limit(len) == LOG_BUF_WRITE_MARGIN + WriteAheadSize + (5 * len) \div 4

\* The space test of log_reserve_and_open: TRUE when the buffer must be
\* written out before len bytes can be appended.
BufferTooFull(l, len) == l.buf_free + len_upper_limit(len) > l.buf_size

\* log_write_low(str, str_len): the part loop, one block per round.  A block
\* that becomes full gets data_len = block size and the next block of the
\* buffer is initialised for the lsn that follows it.
\* (A round works on its log_sys as a bound value: an operator argument is
\* evaluated again at each use when TLC evaluates ENABLED.)
RECURSIVE log_write_low(_, _)
log_write_low(log, str_len) ==
    LET part_loop(l) ==
          LET in_block  == l.buf_free % BLOCK
              log_block == l.buf_free \div BLOCK + 1
              fits      == in_block + str_len <= BLOCK - TRL
              part      == IF fits THEN str_len ELSE BLOCK - in_block - TRL
              data_len  == IF fits THEN in_block + str_len ELSE BLOCK - TRL
              full      == data_len = BLOCK - TRL
              len       == IF full THEN part + HDR + TRL ELSE part
              filled    == [l.buf EXCEPT ![log_block].len =
                                            IF full THEN BLOCK ELSE data_len]
              after     == [l EXCEPT
                              !.lsn = @ + len,
                              !.buf_free = @ + len,
                              !.buf = IF full
                                      THEN [filled EXCEPT ![log_block + 1] =
                                              log_block_init(l.lsn + len)]
                                      ELSE filled]
          IN  IF str_len > part THEN log_write_low(after, str_len - part)
                                ELSE after
    IN  CHOOSE after \in {part_loop(l) : l \in {log}} : TRUE

\* log_close(): the block the next record group starts in learns where it
\* starts, and the margin flag is raised when the buffer or the checkpoint
\* age calls for it.  oldest_lsn is buf_pool_get_oldest_modification().
\* Changed page tracking is off (srv_track_changed_pages = FALSE).
log_close(l, oldest_lsn) ==
    LET log_block      == l.buf_free \div BLOCK + 1
        checkpoint_age == l.lsn - l.last_checkpoint_lsn
        buffer_high    == l.buf_free > l.max_buf_free
        age_high       ==
            /\ checkpoint_age > l.max_modified_age_sync
            /\ \/ oldest_lsn = 0
               \/ l.lsn - oldest_lsn > l.max_modified_age_sync
               \/ checkpoint_age > l.max_checkpoint_age_async
    IN  [l EXCEPT
           !.buf[log_block].frg = IF @ = 0 THEN l.buf[log_block].len ELSE @,
           !.check_flush_or_checkpoint = @ \/ buffer_high \/ age_high]

-----------------------------------------------------------------------------
(* Writing the log buffer to the log files *)

log_group_file_header_flush(f, nth_file, start_lsn) ==
    [f EXCEPT !.hdr[nth_file] = start_lsn]

\* Defect variant of HeaderOnContinuation: write_header is left as it was
\* for the first part of the write.
NoHeaderOnContinuation == FALSE

\* Line 1233: a write that continues in the next file writes that file's
\* header first.
HeaderOnContinuation == TRUE

\* log_group_write_buf(group, buf, len, start_lsn, new_data_offset): blocks
\* is the buffer area, written file by file; a file's header is written when
\* the write starts a file and either begins with new data or continues from
\* the file before.
RECURSIVE log_group_write_loop(_, _, _, _, _)
log_group_write_loop(f, l, blocks, start_lsn, write_header) ==
    LET len         == Len(blocks) * BLOCK
        next_offset == log_group_calc_lsn_offset(start_lsn, l)
        in_file     == next_offset % FileSize
        write_len   == IF in_file + len > FileSize THEN FileSize - in_file
                                                   ELSE len
        first       == next_offset \div BLOCK
        n           == write_len \div BLOCK
        headed      == IF write_header /\ in_file = LOG_FILE_HDR_SIZE
                       THEN log_group_file_header_flush(
                                f, next_offset \div FileSize, start_lsn)
                       ELSE f
        written     == [headed EXCEPT !.blk =
                           SubSeq(@, 1, first) \o SubSeq(blocks, 1, n)
                             \o SubSeq(@, first + n + 1, Len(@))]
    IN  IF len = 0 THEN f
        ELSE IF write_len < len
        THEN log_group_write_loop(written, l, SubSeq(blocks, n + 1, Len(blocks)),
                                  start_lsn + write_len, HeaderOnContinuation)
        ELSE written

log_group_write_buf(f, l, blocks, start_lsn, new_data_offset) ==
    log_group_write_loop(f, l, blocks, start_lsn, new_data_offset = 0)

\* The padding log_write_up_to adds so that the write ends on a boundary of
\* the write-ahead unit (lines 1368-1393), in bytes.
PadSize(l, area_start, area_end) ==
    LET end_offset         == log_group_calc_lsn_offset(
                                  ut_calc_align(l.lsn, BLOCK), l)
        end_offset_in_unit == end_offset % WriteAheadSize
        pad_size           == WriteAheadSize - end_offset_in_unit
    IN  IF /\ WriteAheadSize > BLOCK
           /\ end_offset_in_unit > 0
           /\ area_end - area_start > end_offset_in_unit
        THEN IF area_end + pad_size > l.buf_size THEN l.buf_size - area_end
                                                 ELSE pad_size
        ELSE 0

\* Defect variant of log_sys_write_completion: the tail is moved and
\* buf_free follows it, but buf_next_to_write is not rebased.
log_sys_write_completion_no_rebase(l) ==
    LET move_start == ut_calc_align_down(l.buf_free, BLOCK)
        move_end   == ut_calc_align(l.buf_free, BLOCK)
        shift      == move_start \div BLOCK
        nmoved     == (move_end - move_start) \div BLOCK
        done       == [l EXCEPT !.write_lsn = l.lsn,
                                !.buf_next_to_write = l.buf_free]
    IN  IF l.buf_free > l.max_buf_free \div 2
        THEN [done EXCEPT
                !.buf = SubSeq(@, shift + 1, shift + nmoved)
                          \o SubSeq(@, nmoved + 1, Len(@)),
                !.buf_free = @ - move_start]
        ELSE done

\* Defect variant of log_sys_write_completion: write_lsn is not advanced to
\* the lsn that was written.
log_sys_write_completion_lsn_stays(l) ==
    LET write_end_offset == l.buf_free
        move_start == ut_calc_align_down(write_end_offset, BLOCK)
        move_end   == ut_calc_align(l.buf_free, BLOCK)
        shift      == move_start \div BLOCK
        nmoved     == (move_end - move_start) \div BLOCK
        done       == [l EXCEPT !.buf_next_to_write = write_end_offset]
    IN  IF write_end_offset > l.max_buf_free \div 2
        THEN [done EXCEPT
                !.buf = SubSeq(@, shift + 1, shift + nmoved)
                          \o SubSeq(@, nmoved + 1, Len(@)),
                !.buf_free = @ - move_start,
                !.buf_next_to_write = @ - move_start]
        ELSE done

\* log_sys_write_completion(), with write_end_offset = buf_free as line 1408
\* has just set it: everything appended is written, and the unwritten tail
\* moves to the start of the buffer when the written part is long enough.
log_sys_write_completion(l) ==
    LET write_end_offset == l.buf_free
        move_start == ut_calc_align_down(write_end_offset, BLOCK)
        move_end   == ut_calc_align(l.buf_free, BLOCK)
        shift      == move_start \div BLOCK
        nmoved     == (move_end - move_start) \div BLOCK
        done       == [l EXCEPT !.write_lsn = l.lsn,
                                !.buf_next_to_write = write_end_offset]
    IN  IF write_end_offset > l.max_buf_free \div 2
        THEN [done EXCEPT
                !.buf = SubSeq(@, shift + 1, shift + nmoved)
                          \o SubSeq(@, nmoved + 1, Len(@)),
                !.buf_free = @ - move_start,
                !.buf_next_to_write = @ - move_start]
        ELSE done

\* Lines 1351-1421 of log_write_up_to, the part under the log mutex that
\* writes: the area of whole blocks from buf_next_to_write to buf_free, and
\* the padding, go to the files at the offset of the block of write_lsn; the
\* group's (lsn, offset) pair moves to the old write_lsn; the cursors move.
\* The result is the pair of log_sys and the files after the write.
\* (The padded buffer is a bound value, as the log_sys of log_write_low.)
log_write_buffer(l, f) ==
    LET start_offset == l.buf_next_to_write
        area_start   == ut_calc_align_down(start_offset, BLOCK)
        area_end     == ut_calc_align(l.buf_free, BLOCK)
        pad_size     == PadSize(l, area_start, area_end)
        write_end    == (area_end + pad_size) \div BLOCK
        padded       == [l EXCEPT !.buf =
                           SubSeq(@, 1, area_end \div BLOCK)
                             \o ZeroBlocks(pad_size \div BLOCK)
                             \o SubSeq(@, write_end + 1, Len(@))]
        write(p)     ==
            [files |-> log_group_write_buf(
                           f, l, SubSeq(p.buf, area_start \div BLOCK + 1, write_end),
                           ut_calc_align_down(l.write_lsn, BLOCK),
                           start_offset - area_start),
             log   |-> log_sys_write_completion(
                           log_group_set_fields(p, l.write_lsn))]
    IN  CHOOSE done \in {write(p) : p \in {padded}} : TRUE

\* log_write_up_to(lsn, flush) as one step, the log files being flushed
\* with fsync: nothing when the log is written (flushed) up to lsn or the
\* buffer holds nothing to write, else all of the buffer is written.
WriteUpToAtOnce(l, f, lsn, flush) ==
    LET limit_lsn == IF flush THEN l.flushed_to_disk_lsn ELSE l.write_lsn
        nothing   == [log |-> l, files |-> f]
        written   == IF l.buf_free = l.buf_next_to_write
                     THEN nothing ELSE log_write_buffer(l, f)
    IN  IF limit_lsn >= lsn \/ (~flush /\ written = nothing)
        THEN nothing
        ELSE IF flush
             THEN [written EXCEPT !.log.current_flush_lsn = l.lsn,
                                  !.log.flushed_to_disk_lsn = l.lsn]
             ELSE written

-----------------------------------------------------------------------------
(* What the log is, told from the lsns at which record groups ended *)

\* The start lsns of the log blocks from lo up to, not including, hi.
BlockLsns(lo, hi) == {S \in lo .. hi - 1 : S % BLOCK = 0}

\* The block that starts at lsn S when the log ends at lsn end and its
\* record groups ended at the lsns in ends.  Its first_rec_group is the
\* offset of the first record group that starts in it, 0 if none does.
LogBlockAt(ends, S, end) ==
    LET starts == {e \in ends : S <= e /\ e < S + BLOCK}
    IN  [no  |-> log_block_convert_lsn_to_no(S),
         len |-> IF S + BLOCK <= end THEN BLOCK ELSE end - S,
         frg |-> IF starts = {} THEN 0 ELSE Min(starts) - S]

\* The bytes log_group_read_log_seg asks of fil_io in one pass of its loop:
\* all that is wanted, or what is left of the file the offset lies in.
ReadLen(source_offset, len) ==
    IF (source_offset % FileSize) + len > FileSize
    THEN FileSize - (source_offset % FileSize)
    ELSE len

\* The blocks that log_group_read_log_seg puts in the buffer of its caller
\* for the lsns start_lsn to end_lsn, both on a block boundary, from the
\* files f of the group whose (lsn, offset) pair is in group: one read for
\* each file the segment lies in.
RECURSIVE log_group_read_log_seg(_, _, _, _)
log_group_read_log_seg(f, group, start_lsn, end_lsn) ==
    LET source_offset == log_group_calc_lsn_offset(start_lsn, group)
        len           == ReadLen(source_offset, end_lsn - start_lsn)
        read          == SubSeq(f.blk, source_offset \div BLOCK + 1,
                                       (source_offset + len) \div BLOCK)
    IN  IF start_lsn + len # end_lsn
        THEN read \o log_group_read_log_seg(f, group, start_lsn + len, end_lsn)
        ELSE read

\* The blocks of the buffer of l that hold log not yet written, or the
\* block being filled.
LiveBlocksOf(l) ==
    l.buf_next_to_write \div BLOCK + 1 .. l.buf_free \div BLOCK + 1

\* The lsn at which block i of the buffer of l starts.
BlockLsnOf(l, i) ==
    ut_calc_align_down(l.lsn, BLOCK) - (l.buf_free \div BLOCK + 1 - i) * BLOCK

\* The buffer of l holds the tail of the log: the bytes between write_lsn
\* and lsn lie between buf_next_to_write and buf_free, and every live block
\* is the log block at its lsn.
HoldsLogTail(l, ends) ==
    /\ l.lsn - l.write_lsn = l.buf_free - l.buf_next_to_write
    /\ l.buf_free % BLOCK = l.lsn % BLOCK
    /\ \A i \in LiveBlocksOf(l) : l.buf[i] = LogBlockAt(ends, BlockLsnOf(l, i), l.lsn)

=============================================================================
