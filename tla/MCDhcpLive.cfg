SPECIFICATION FairSpec
CONSTANTS
    Netifs = {n1}
    Ips = {a}
    IP4_ADDR_ANY = any
    Xids = {x1, x2, x3}
    NoXid = x0
    DHCP_DOES_ARP_CHECK = TRUE
    TRIES_MAX = 6
    Absent = absent
    MaxLeaked = 0
    U32 = 256
    U16MAX = 1
    DHCP_COARSE_TIMER_SECS = 4
    LeaseTimes = {4}
    RenewTimes = {absent}
    RebindTimes = {absent}
PROPERTY PhasesEnd
