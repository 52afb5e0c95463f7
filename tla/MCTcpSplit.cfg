SPECIFICATION Spec
CONSTANTS
    SeqSpace = 64
    WndSpace = 16
    TCP_MSS = 2
    TCP_WND = 4
    TCP_SND_BUF = 4
    TCP_SYNMAXRTX = 1
    TCP_MAXRTX = 1
    TCP_WND_UPDATE_THRESHOLD = 1
    Iss <- MCIss
    IssStep = 16
    ToWrite <- Five
    WriteLens = {2, 3}
    ReadLens = {3}
    Deadlines = {"timer"}
    MaxTimeouts = 1
    Unlimited = Unlimited
    Refusals = {{}}
    Calls = {"close"}
    NetCap = 1
    MaxLoss = 0
    MaxDup = 0
    MaxNoMem = 0
INVARIANTS EofComplete
CHECK_DEADLOCK FALSE
