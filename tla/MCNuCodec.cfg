SPECIFICATION Spec
CONSTANTS
    Jobs <- MCJobs
    CharBits = 3
    MaxBits = 5
    StopCode = 29
    BlockSize = 32
    Escape = 1
    MinRun = 3
    FieldSize = 1
    LzcMaxCode = 30
    Delim = 4
    MaxCount = 63
    MaxCodeLen = 4
    CR = 2
    LF = 3
    Binary = {5}
    FunnelBufSize = 40
    MinConv = 10
    MaxBinary = 1
    GenBufSize = 50
    Threshold = 8
INVARIANTS CodecTypeOK RoundTrip HeaderTrue CodesFit BufferHoldsChunk LineEnds
PROPERTIES JobsEnd
