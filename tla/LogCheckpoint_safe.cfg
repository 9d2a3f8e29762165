SPECIFICATION Spec
CONSTANTS
    OS_FILE_LOG_BLOCK_SIZE = 10
    LOG_BLOCK_HDR_SIZE = 1
    LOG_BLOCK_TRL_SIZE = 1
    LOG_START_LSN = 20
    LOG_FILE_HDR_SIZE = 10
    LOG_BUF_WRITE_MARGIN = 5
    LOG_BUF_FLUSH_MARGIN = 10
    LOG_BUFFER_SIZE = 30
    LOG_CHECKPOINT_FREE = 26
    FileSize = 30
    NFiles = 3
    WriteAheadSize = 10
    BlockNoModulus = 8
    Threads = {t1, t2}
    MtrLens = {4}
    MaxLsn = 66
    LSN_MAX = 1000
    SIZE_OF_MLOG_CHECKPOINT = 4
    WriteAlways = {FALSE}
    ForegroundPreflush = {"sync_preflush", "exp_backoff"}
    flush_log_at_trx_commit = 1
SYMMETRY ThreadSymmetry
INVARIANT TypeOK
INVARIANT CheckpointCoversPool
INVARIANT CheckpointFindsLog
INVARIANT PromisedCheckpointIsOnDisk
INVARIANT CheckpointAgeBounded
PROPERTY CheckpointAdvances
PROPERTY ImplementsWriteAheadLog
CHECK_DEADLOCK FALSE
