SPECIFICATION Spec
CONSTANTS
    SeqSpace = 64
    WndSpace = 16
    TCP_MSS = 2
    TCP_WND = 4
    TCP_SND_BUF = 4
    TCP_SYNMAXRTX = 1
    TCP_MAXRTX = 1
    TCP_WND_UPDATE_THRESHOLD = 1
    Iss <- MCIss
    IssStep = 16
    ToWrite <- Four
    WriteLens = {4}
    ReadLens = {4}
    Deadlines = {"timer", "idle"}
    MaxTimeouts = 1
    Unlimited = Unlimited
    Refusals = {{}}
    Calls = {"close", "abort", "listen_close"}
    NetCap = 2
    MaxLoss = 0
    MaxDup = 0
    MaxNoMem = 0
INVARIANTS TypeOK NothingForgotten QueuesSorted InStep InOrderFits
PROPERTIES StreamSpec
CHECK_DEADLOCK FALSE
