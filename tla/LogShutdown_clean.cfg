SPECIFICATION ShutdownFairSpec
CONSTANTS
    OS_FILE_LOG_BLOCK_SIZE = 10
    LOG_BLOCK_HDR_SIZE = 1
    LOG_BLOCK_TRL_SIZE = 1
    LOG_START_LSN = 20
    LOG_FILE_HDR_SIZE = 10
    LOG_BUF_WRITE_MARGIN = 5
    LOG_BUF_FLUSH_MARGIN = 10
    LOG_BUFFER_SIZE = 40
    LOG_CHECKPOINT_FREE = 19
    FileSize = 30
    NFiles = 3
    WriteAheadSize = 10
    BlockNoModulus = 8
    Threads = {t1, sd}
    ShutdownThread = sd
    FastShutdown = {1, 2}
    MaxCheckpointNo = 2
    MtrLens = {8}
    MaxLsn = 64
    LSN_MAX = 1000
    SIZE_OF_MLOG_CHECKPOINT = 1
    WriteAlways = {FALSE}
    ForegroundPreflush = {"sync_preflush"}
    flush_log_at_trx_commit = 2
INVARIANT ShutdownTypeOK
INVARIANT ShutdownIsClean
PROPERTY ShutdownEnds
PROPERTY CallsReturn
CHECK_DEADLOCK FALSE
