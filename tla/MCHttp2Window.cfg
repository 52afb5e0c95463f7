SPECIFICATION Spec
CONSTANTS
    MaxStreams = 1
    InitialWindow = 4
    ConnWindow = 6
    MaxWindow = 8
    MaxData = 2
    PeerConcurrent = 2
    ResetBurst = 0
    NoAutoWindowUpdate = FALSE
    BodyLen <- Upload
    FirstSettings <- NoSettings
    Changes <- ServerShrinks
    Resetters = {}
    Quitters = {}
    Terminators = {}
    MaxCalls = 1
    SockBuf = 2
INVARIANTS NoFlowControlReset
CHECK_DEADLOCK FALSE
