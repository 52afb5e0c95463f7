SPECIFICATION Spec
CONSTANTS
  ARP_TABLE_SIZE = 2
  ARP_MAXAGE = 4
  ARP_MAXPENDING = 2
  UnicastLead = 2
  BroadcastLead = 1
  ARP_QUEUEING = FALSE
  ARP_QUEUE_LEN = 1
  MEMP_NUM_ARP_QUEUE = 2
  ETHARP_TABLE_MATCH_NETIF = TRUE
  LWIP_DEBUG = TRUE
  h1 = h1
  Netifs = {n1, n2}
  Hosts = {h1, h2}
  Macs = {m1}
  Pbufs = {p1, p2}
  Gateway <- MCGateway
  IPADDR_ANY = any
  OffLink = offlink
  Broadcast = bcast
  NULL = null
VIEW MCView
SYMMETRY MCSymmetry
INVARIANTS
  UniqueKey
  QueuedForEntry
  SentToMapping
PROPERTIES
  RecycledLast
  StaticPersists
