SPECIFICATION Spec
CONSTANTS
    OS_FILE_LOG_BLOCK_SIZE = 10
    LOG_BLOCK_HDR_SIZE = 1
    LOG_BLOCK_TRL_SIZE = 1
    LOG_START_LSN = 20
    LOG_FILE_HDR_SIZE = 10
    LOG_BUF_WRITE_MARGIN = 5
    LOG_BUF_FLUSH_MARGIN = 10
    LOG_BUFFER_SIZE = 80
    LOG_CHECKPOINT_FREE = 4
    FileSize = 40
    NFiles = 2
    WriteAheadSize = 10
    BlockNoModulus = 8
    UNIV_PAGE_SIZE = 20
    Threads = {t1, t2, t3}
    NoOwner = NoOwner
    MtrLens = {12, 42, 52}
    MaxLsn = 200
    TrackChangedPages = FALSE
    TrackingRetries = 2
SYMMETRY ThreadSymmetry
INVARIANT TypeOK
INVARIANT MutexOwned
INVARIANT ExtenderIsAlone
INVARIANT BufferHoldsLogTail
CHECK_DEADLOCK FALSE
