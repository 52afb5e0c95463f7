SPECIFICATION FairSpec
CONSTANTS
  ARP_TABLE_SIZE = 2
  ARP_MAXAGE = 4
  ARP_MAXPENDING = 2
  UnicastLead = 2
  BroadcastLead = 1
  ARP_QUEUEING = FALSE
  ARP_QUEUE_LEN = 2
  MEMP_NUM_ARP_QUEUE = 3
  ETHARP_TABLE_MATCH_NETIF = FALSE
  LWIP_DEBUG = FALSE
  h1 = h1
  Netifs = {n1}
  Hosts = {h1, h2}
  Macs = {m1}
  Pbufs = {p1, p2}
  Gateway <- MCGateway
  IPADDR_ANY = any
  OffLink = offlink
  Broadcast = bcast
  NULL = null
PROPERTIES
  HeldReleased
