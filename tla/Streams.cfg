SPECIFICATION StreamSpec
CONSTANTS
    Byte = {1, 2}
    kCheapPrepend = 1
    kInitialSize = 2
    ExtraBuf = 2
    Blocks <- MCBlocks
    Lengths = {1, 3}
    MaxContent = 3
    Inputs <- MCInputs
    Segments <- MCSegments
    MaxHeaderSize = 170
    ULLONG_MAX = 65535
    ReaderInputs <- MCReaderInputs
    ReaderSegments = {1, 2, 5, 17}
    ULLONG = 255
    INT_MAX = 100
    ReaderKeep = 12
    Limit <- MCLimit
    SDS_MAX_PREALLOC = 3
    Texts <- MCTexts
    Csets <- MCCsets
    Offsets <- MCOffsets
    Numbers <- MCNumbers
    MaxLen = 4
    DictKeys <- MCDictKeys
    DictVals = {1, 2}
    DICT_HT_INITIAL_SIZE = 4
    Alphabet = {"a", "=", " ", ".", "&", "#", ","}
    MaxText = 4
    Bytes = {0, 32, 37, 43, 65, 122, 255}
    ConfigKeys <- MCConfigKeys
    ConfigValues <- MCConfigValues
    LineBuffer = 9
    PairBuffer = 8
    kLargeBuffer = 3
    LineLengths = {1}
    MaxBuffers = 2
    rollSize = 2
    checkEveryN = 2
    kRollPerSeconds = 2
    flushInterval = 1
    MaxLines = 6
    MaxSeconds = 2
INVARIANTS
    SpaceMade
    HttpExact
    ReaderExact
    ContainersExact
    HelpersExact
    LogKept
PROPERTIES
    ImplementsQueue
    LogWritten
CHECK_DEADLOCK FALSE
