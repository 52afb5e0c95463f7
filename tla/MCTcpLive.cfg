SPECIFICATION FairSpec
CONSTANTS
    SeqSpace = 32
    WndSpace = 8
    TCP_MSS = 1
    TCP_WND = 2
    TCP_SND_BUF = 2
    TCP_SYNMAXRTX = 1
    TCP_MAXRTX = 1
    TCP_WND_UPDATE_THRESHOLD = 1
    Iss <- MCIss
    IssStep = 8
    ToWrite <- Three
    WriteLens = {1}
    ReadLens = {1}
    Deadlines = {"timer"}
    MaxTimeouts = Unlimited
    Unlimited = Unlimited
    Refusals = {{}}
    Calls = {}
    NetCap = 1
    MaxLoss = 1
    MaxDup = 1
    MaxNoMem = 0
INVARIANTS PersistInFlight
PROPERTIES SequenceForward DeliveredOrTold
CHECK_DEADLOCK FALSE
