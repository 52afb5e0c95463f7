SPECIFICATION Spec
CONSTANTS
    Netifs = {n1}
    Ips = {a}
    IP4_ADDR_ANY = any
    Xids = {x1, x2, x3}
    NoXid = x0
    DHCP_DOES_ARP_CHECK = FALSE
    TRIES_MAX = 6
    Absent = absent
    MaxLeaked = 0
    U32 = 1024
    U16MAX = 6
    DHCP_COARSE_TIMER_SECS = 4
    LeaseTimes = {20, 150}
    RenewTimes = {absent}
    RebindTimes = {absent}
SYMMETRY MCSymmetry
INVARIANT LeaseMonotone
