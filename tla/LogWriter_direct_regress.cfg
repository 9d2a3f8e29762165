\* As LogWriter_direct.cfg: does flushed_to_disk_lsn keep what it reported?
SPECIFICATION Spec
CONSTANTS
    OS_FILE_LOG_BLOCK_SIZE = 10
    LOG_BLOCK_HDR_SIZE = 1
    LOG_BLOCK_TRL_SIZE = 1
    LOG_START_LSN = 20
    LOG_FILE_HDR_SIZE = 10
    LOG_CHECKPOINT_FREE = 4
    WriteAheadSize = 20
    LOG_BUFFER_SIZE = 60
    LOG_BUF_WRITE_MARGIN = 10
    LOG_BUF_FLUSH_MARGIN = 20
    FileSize = 40
    NFiles = 2
    BlockNoModulus = 8
    Threads = {t1, t2}
    MtrLens = {12}
    MaxLsn = 70
    FlushMethods = {"ALL_O_DIRECT"}
SYMMETRY ThreadSymmetry
VIEW LiveState
INVARIANT FlushedCoversAcked
