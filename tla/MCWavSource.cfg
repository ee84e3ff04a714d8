SPECIFICATION Spec
CONSTANTS
    A = A
    B = B
    NoCodec = NoCodec
    Codec <- MCCodec
    buffer_size <- MCBufferSize
    payload_type <- MCPayloadType
    samplerate = 8000
    USEC = 1000000
    CodecLists <- MCCodecLists
    Files <- MCFiles
    FrameCounts = {1, 2, 3}
    StartTimes <- MCStartTimes
INVARIANTS
    TypeOK
    EverySampleOncePerCodec
    PacketsAreFilled
    StaleTypeOnlyAtSwitch
    IteratorReleased
PROPERTIES
    ImplementsRtpStream
    Terminates
CHECK_DEADLOCK FALSE
