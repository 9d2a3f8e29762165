\* One thread appends mini-transactions of 4 and of 12 bytes and writes the
\* buffer at any point, twice around a ring of three files of one data block
\* each.  The buffer has 10 blocks and is compacted when a write ends above
\* byte 10; block numbers wrap at 4.
SPECIFICATION Spec
CONSTANTS
    OS_FILE_LOG_BLOCK_SIZE = 10
    LOG_BLOCK_HDR_SIZE = 1
    LOG_BLOCK_TRL_SIZE = 1
    LOG_START_LSN = 20
    LOG_FILE_HDR_SIZE = 10
    LOG_CHECKPOINT_FREE = 4
    WriteAheadSize = 20
    LOG_BUFFER_SIZE = 100
    LOG_BUF_WRITE_MARGIN = 20
    LOG_BUF_FLUSH_MARGIN = 30
    FileSize = 20
    NFiles = 3
    BlockNoModulus = 4
    Threads = {t1}
    MtrLens = {4, 12}
    MaxLsn = 80
    FlushMethods = {"fsync"}
VIEW LiveState
INVARIANT BufferHoldsLogTail
INVARIANT DiskHoldsLog
INVARIANT FileHeadersNameFirstBlock
INVARIANT OffsetsAgree
