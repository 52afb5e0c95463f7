SPECIFICATION Spec
CONSTANTS
    SeqSpace = 64
    WndSpace = 16
    TCP_MSS = 2
    TCP_WND = 4
    TCP_SND_BUF = 4
    TCP_SYNMAXRTX = 1
    TCP_MAXRTX = 1
    TCP_WND_UPDATE_THRESHOLD = 1
    Iss <- MCIss
    IssStep = 16
    ToWrite <- Three
    WriteLens = {3}
    ReadLens = {3}
    Deadlines = {"timer", "ooseq"}
    MaxTimeouts = 0
    Unlimited = Unlimited
    Refusals = {{}, {"new"}, {"old"}}
    Calls = {"shutdown"}
    NetCap = 2
    MaxLoss = 0
    MaxDup = 0
    MaxNoMem = 1
INVARIANTS AckedArrived SendBufferExact
PROPERTIES StreamSpec
CHECK_DEADLOCK FALSE
