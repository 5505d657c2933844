\* Output beyond queue and kernel buffer, input that blocks, programs that read.
CONSTANTS
    MaxQueue = 2
    KernelRoom = 2
    MaxOutput = 5
    MaxInput = 1
    MessageSize = 3
SPECIFICATION ReadingSpec
CHECK_DEADLOCK FALSE
INVARIANTS
    ReaderIsAccounted
    NothingLost
PROPERTIES
    StreamSpec
    SessionsEnd
