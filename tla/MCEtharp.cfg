SPECIFICATION Spec
CONSTANTS
  ARP_TABLE_SIZE = 2
  ARP_MAXAGE = 5
  ARP_MAXPENDING = 2
  UnicastLead = 3
  BroadcastLead = 1
  ARP_QUEUEING = TRUE
  ARP_QUEUE_LEN = 2
  MEMP_NUM_ARP_QUEUE = 3
  ETHARP_TABLE_MATCH_NETIF = TRUE
  LWIP_DEBUG = TRUE
  h1 = h1
  Netifs = {n1}
  Hosts = {h1, h2}
  Macs = {m1, m2}
  Pbufs = {p1, p2, p3, p4}
  Gateway <- MCGateway
  IPADDR_ANY = any
  OffLink = offlink
  Broadcast = bcast
  NULL = null
SYMMETRY MCSymmetry
INVARIANTS
  TypeOK
  HeldInOneQueue
  QueueBounded
PROPERTIES
  FlushExactlyOnce
  ReRequestSpacing
