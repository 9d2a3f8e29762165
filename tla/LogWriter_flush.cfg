\* Two threads append, write and flush concurrently, with the log files
\* opened buffered (fsync) or with O_DSYNC.  A buffer of 6 blocks is too full
\* for a third mini-transaction of 12 bytes; max_buf_free is 10.
SPECIFICATION Spec
CONSTANTS
    OS_FILE_LOG_BLOCK_SIZE = 10
    LOG_BLOCK_HDR_SIZE = 1
    LOG_BLOCK_TRL_SIZE = 1
    LOG_START_LSN = 20
    LOG_FILE_HDR_SIZE = 10
    LOG_CHECKPOINT_FREE = 4
    WriteAheadSize = 20
    LOG_BUFFER_SIZE = 60
    LOG_BUF_WRITE_MARGIN = 10
    LOG_BUF_FLUSH_MARGIN = 20
    FileSize = 40
    NFiles = 2
    BlockNoModulus = 8
    Threads = {t1, t2}
    MtrLens = {12}
    MaxLsn = 70
    FlushMethods = {"fsync", "O_DSYNC", "ALL_O_DIRECT"}
SYMMETRY ThreadSymmetry
VIEW LiveState
INVARIANT TypeOK
INVARIANT DurabilityOrder
INVARIANT SingleFlusher

INVARIANT BufferHasRoom
INVARIANT RetryLoopIsShort
INVARIANT WriteOnlyFindsLog
PROPERTY ImplementsWriteAheadLog
