\* The flush event: two threads append, write and flush, and a flusher that
\* has released the mutex runs on.  No symmetry and no view: the property is
\* temporal.
SPECIFICATION FlusherFairSpec
CONSTANTS
    OS_FILE_LOG_BLOCK_SIZE = 10
    LOG_BLOCK_HDR_SIZE = 1
    LOG_BLOCK_TRL_SIZE = 1
    LOG_START_LSN = 20
    LOG_FILE_HDR_SIZE = 10
    LOG_BUF_WRITE_MARGIN = 10
    LOG_BUF_FLUSH_MARGIN = 20
    LOG_BUFFER_SIZE = 60
    LOG_CHECKPOINT_FREE = 4
    FileSize = 40
    NFiles = 2
    WriteAheadSize = 20
    BlockNoModulus = 8
    Threads = {t1, t2}
    MtrLens = {12}
    FlushMethods = {"fsync", "O_DSYNC"}
    MaxLsn = 55
PROPERTY SleeperIsWoken
INVARIANT FlushedCoversAcked
