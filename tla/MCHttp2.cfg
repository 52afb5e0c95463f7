SPECIFICATION FairSpec
CONSTANTS
    MaxStreams = 2
    InitialWindow = 2
    ConnWindow = 3
    MaxWindow = 6
    MaxData = 2
    PeerConcurrent = 2
    ResetBurst = 0
    NoAutoWindowUpdate = TRUE
    BodyLen <- Download
    FirstSettings <- OneStream
    Changes <- ClientShrinks
    Resetters = {"c", "s"}
    Quitters = {"c", "s"}
    Terminators = {"c", "s"}
    MaxCalls = 1
    SockBuf = 1
INVARIANTS TypeOK NoConnectionError WindowsConserved StreamsCounted
    RefusedNotAnswered CleanEndIsComplete StreamsAgree
PROPERTIES RequestsEnd
CHECK_DEADLOCK FALSE
