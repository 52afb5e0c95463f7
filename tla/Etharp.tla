------------------------------- MODULE Etharp -------------------------------
(***************************************************************************)
(* The IPv4 address resolution cache of lwIP (etharp.c): a fixed table of  *)
(* entries that resolves next-hop addresses, queues packets while an       *)
(* address is unresolved and ages entries with a one-second timer, plus    *)
(* the interface events of netif.c that clean it or report an address.     *)
(* lwIP runs all of it in one thread (LWIP_ASSERT_CORE_LOCKED), so every   *)
(* entry point is one action; what interleaves are the timer, received ARP *)
(* messages, packets to send and interface events.                         *)
(***************************************************************************)
EXTENDS Integers, Sequences, FiniteSets

CONSTANTS
    ARP_TABLE_SIZE,     \* number of entries
    ARP_MAXAGE,         \* ticks after which a resolved entry expires
    ARP_MAXPENDING,     \* ticks after which an unresolved entry expires
    UnicastLead,        \* ARP_MAXAGE - ARP_AGE_REREQUEST_USED_UNICAST
    BroadcastLead,      \* ARP_MAXAGE - ARP_AGE_REREQUEST_USED_BROADCAST
    ARP_QUEUEING,       \* build option: queue several packets per entry
    ARP_QUEUE_LEN,      \* length of that queue
    MEMP_NUM_ARP_QUEUE, \* size of the pool the queue elements come from
    ETHARP_TABLE_MATCH_NETIF, \* build option: the key is <<netif, ipaddr>>
    LWIP_DEBUG,         \* build option: a freed entry is wiped
    Netifs, Hosts, Macs, Pbufs,
    Gateway,            \* default gateway of each interface, or IPADDR_ANY
    IPADDR_ANY,         \* stands for every address that is not unicast
    OffLink,            \* stands for every destination behind the gateway
    Broadcast,          \* ethbroadcast
    NULL                \* no interface, no hardware address, no packet

ASSUME EtharpAssumption ==
    /\ ARP_TABLE_SIZE \in Nat \ {0}
    /\ ARP_MAXAGE \in Nat /\ ARP_MAXPENDING \in Nat
    /\ UnicastLead \in Nat /\ BroadcastLead \in Nat
    /\ 0 < ARP_MAXPENDING /\ ARP_MAXPENDING <= ARP_MAXAGE
    /\ 0 < BroadcastLead /\ BroadcastLead < UnicastLead
    /\ UnicastLead + 2 <= ARP_MAXAGE
    /\ ARP_QUEUEING \in BOOLEAN /\ ETHARP_TABLE_MATCH_NETIF \in BOOLEAN
    /\ LWIP_DEBUG \in BOOLEAN
    /\ ARP_QUEUE_LEN \in Nat \ {0} /\ MEMP_NUM_ARP_QUEUE \in Nat
    /\ IPADDR_ANY \notin Hosts /\ OffLink \notin Hosts /\ OffLink # IPADDR_ANY
    /\ NULL \notin Netifs \cup Macs \cup Pbufs /\ Broadcast \notin Macs
    /\ Gateway \in [Netifs -> Hosts \cup {IPADDR_ANY}]

VARIABLES
    arp_table,           \* the entries
    etharp_cached_entry, \* index that resolved the last packet
    held,                \* packets etharp holds a reference to
    up,                  \* NETIF_FLAG_UP of each interface
    configured,          \* whether the interface has an IPv4 address
    out,                 \* IP frames given to ethernet_output by the last step
    arp,                 \* ARP frames given to ethernet_output by the last step
    quiet                \* history: ticks since entry i was last re-requested,
                         \* counted up to 2

vars == <<arp_table, etharp_cached_entry, held, up, configured, out, arp, quiet>>

-----------------------------------------------------------------------------
(* Types                                                                   *)

Idx == 0 .. (ARP_TABLE_SIZE - 1)

ERR_MEM == -1

Resolved == {"STABLE", "STABLE_REREQUESTING_1", "STABLE_REREQUESTING_2", "STATIC"}

etharp_state == {"EMPTY", "PENDING"} \cup Resolved

\* A packet on its way to the next hop hop through interface netif.
Packet == [id : Pbufs, netif : Netifs, hop : Hosts]

etharp_entry ==
    [state : etharp_state, ipaddr : Hosts \cup {IPADDR_ANY},
     netif : Netifs \cup {NULL}, ethaddr : Macs \cup {NULL},
     ctime : 0 .. ARP_MAXAGE, q : Seq(Packet)]

ARP_AGE_REREQUEST_USED_UNICAST == ARP_MAXAGE - UnicastLead

ARP_AGE_REREQUEST_USED_BROADCAST == ARP_MAXAGE - BroadcastLead

Zeroed == [state |-> "EMPTY", ipaddr |-> IPADDR_ANY, netif |-> NULL,
           ethaddr |-> NULL, ctime |-> 0, q |-> << >>]

Ids(q) == {q[k].id : k \in DOMAIN q}

IpFrame(n, mac, pkt) == [netif |-> n, dst |-> mac, pkt |-> pkt]

Init ==
    /\ arp_table = [i \in Idx |-> Zeroed]
    /\ etharp_cached_entry = 0
    /\ held = {}
    /\ up = [n \in Netifs |-> FALSE]
    /\ configured = [n \in Netifs |-> FALSE]
    /\ out = << >>
    /\ arp = {}
    /\ quiet = [i \in Idx |-> 2]

-----------------------------------------------------------------------------
(* The table: search, recycling and release                                *)

\* Mutation: the queue of a freed entry stays behind.
FreeKeepsQueue(e) == [e EXCEPT !.state = "EMPTY"]

etharp_free_entry(e) ==
    IF LWIP_DEBUG THEN Zeroed ELSE [e EXCEPT !.state = "EMPTY", !.q = << >>]

\* Mutation: only resolved entries are found.
MatchResolvedOnly(ip, n) ==
    {i \in Idx : /\ arp_table[i].state \in Resolved
                 /\ arp_table[i].ipaddr = ip
                 /\ ETHARP_TABLE_MATCH_NETIF => n = NULL \/ arp_table[i].netif = n}

\* Entries the sweep of etharp_find_entry accepts as a match.
Match(ip, n) ==
    {i \in Idx : /\ arp_table[i].state # "EMPTY"
                 /\ arp_table[i].ipaddr = ip
                 /\ ETHARP_TABLE_MATCH_NETIF => n = NULL \/ arp_table[i].netif = n}

First(S) == CHOOSE i \in S : \A j \in S : i <= j

\* The sweep keeps the last of the entries with the greatest ctime.
Oldest(S) ==
    CHOOSE i \in S : \A j \in S :
        \/ arp_table[j].ctime < arp_table[i].ctime
        \/ arp_table[j].ctime = arp_table[i].ctime /\ j <= i

EmptyEntries == {i \in Idx : arp_table[i].state = "EMPTY"}

\* Mutation: static entries may be recycled.
StableOrStatic == {i \in Idx : arp_table[i].state \in Resolved}

StableEntries == {i \in Idx : arp_table[i].state \in Resolved \ {"STATIC"}}

PendingEntries(queued) ==
    {i \in Idx : arp_table[i].state = "PENDING" /\ (arp_table[i].q # << >>) = queued}

\* Mutation: pending entries are recycled by age alone.
VictimByAge ==
    LET Pending == PendingEntries(FALSE) \cup PendingEntries(TRUE)
    IN  CASE EmptyEntries # {} -> First(EmptyEntries)
          [] EmptyEntries = {} /\ StableEntries # {} -> Oldest(StableEntries)
          [] EmptyEntries \cup StableEntries = {} /\ Pending # {} -> Oldest(Pending)
          [] OTHER -> ERR_MEM

\* The least destructive entry to recycle.
Victim ==
    CASE EmptyEntries # {} -> First(EmptyEntries)
      [] EmptyEntries = {} /\ StableEntries # {} -> Oldest(StableEntries)
      [] EmptyEntries \cup StableEntries = {} /\ PendingEntries(FALSE) # {} ->
           Oldest(PendingEntries(FALSE))
      [] EmptyEntries \cup StableEntries \cup PendingEntries(FALSE) = {}
         /\ PendingEntries(TRUE) # {} -> Oldest(PendingEntries(TRUE))
      [] OTHER -> ERR_MEM

\* The index of the match, else of the entry to claim, else ERR_MEM.
etharp_find_entry(ip, flag, n) ==
    IF Match(ip, n) # {} THEN First(Match(ip, n))
    ELSE IF flag = "FIND_ONLY" THEN ERR_MEM
    ELSE Victim

\* Entry i as etharp_find_entry leaves it when it claims it for ip.
Claimed(i, ip, n) ==
    [etharp_free_entry(arp_table[i]) EXCEPT
        !.ipaddr = ip, !.ctime = 0,
        !.netif = IF ETHARP_TABLE_MATCH_NETIF THEN n ELSE @]

-----------------------------------------------------------------------------
(* Requests: etharp_raw allocates the frame, and sends nothing if it fails *)

etharp_request_dst(n, ip, mac) == [op |-> "REQUEST", netif |-> n, ip |-> ip, dst |-> mac]

etharp_request(n, ip) == etharp_request_dst(n, ip, Broadcast)

-----------------------------------------------------------------------------
(* Learning a mapping                                                      *)

\* Mutation: the flush loop is an if.
FlushFirst(n, mac, q) == IF q = << >> THEN << >> ELSE <<IpFrame(n, mac, Head(q))>>

Flush(n, mac, q) == [k \in 1 .. Len(q) |-> IpFrame(n, mac, q[k])]

NonUnicast(ip) == ip = IPADDR_ANY

etharp_update_arp_entry(n, ip, mac, flag, static) ==
    LET i == etharp_find_entry(ip, flag, n)
        found == Match(ip, n) # {}
        state == IF static THEN "STATIC" ELSE "STABLE"
    IN  IF \/ NonUnicast(ip)
           \/ i = ERR_MEM
           \/ ~static /\ found /\ arp_table[i].state = "STATIC"
        THEN /\ out' = << >>
             /\ UNCHANGED <<arp_table, held>>
        ELSE /\ arp_table' = [arp_table EXCEPT ![i] =
                    [state |-> state, ipaddr |-> ip, netif |-> n,
                     ethaddr |-> mac, ctime |-> 0, q |-> << >>]]
             /\ held' = held \ Ids(arp_table[i].q)
             /\ out' = IF found THEN Flush(n, mac, arp_table[i].q) ELSE << >>

\* An ARP message from <<sip, smac>>; toUs: its target is our address.
etharp_input(n, sip, smac, op, toUs) ==
    LET for_us == toUs /\ configured[n]
        reply  == [op |-> "REPLY", netif |-> n, ip |-> sip, dst |-> smac]
    IN  /\ etharp_update_arp_entry(n, sip, smac,
               IF for_us THEN "TRY_HARD" ELSE "FIND_ONLY", FALSE)
        /\ arp' \in IF op = "REQUEST" /\ for_us THEN {{}, {reply}} ELSE {{}}
        /\ UNCHANGED <<etharp_cached_entry, up, configured, quiet>>

\* n is the interface ip4_route finds; without one the call fails.
etharp_add_static_entry(n, ip, mac) ==
    /\ up[n] /\ configured[n]
    /\ etharp_update_arp_entry(n, ip, mac, "TRY_HARD", TRUE)
    /\ arp' = {}
    /\ UNCHANGED <<etharp_cached_entry, up, configured, quiet>>

etharp_remove_static_entry(ip) ==
    LET i == etharp_find_entry(ip, "FIND_ONLY", NULL)
    IN  /\ i # ERR_MEM
        /\ arp_table[i].state = "STATIC"
        /\ arp_table' = [arp_table EXCEPT ![i] = etharp_free_entry(@)]
        /\ held' = held \ Ids(arp_table[i].q)
        /\ out' = << >> /\ arp' = {}
        /\ UNCHANGED <<etharp_cached_entry, up, configured, quiet>>

-----------------------------------------------------------------------------
(* Sending                                                                 *)

\* Mutation: the queue grows one element past its length.
EnqueuedTooLong(e, pkt) ==
    IF ~ARP_QUEUEING THEN <<pkt>>
    ELSE IF Len(e.q) > ARP_QUEUE_LEN THEN Append(Tail(e.q), pkt)
    ELSE Append(e.q, pkt)

\* The queue of entry e once pkt is on it, and what that pushes out of it.
Enqueued(e, pkt) ==
    IF ~ARP_QUEUEING THEN <<pkt>>
    ELSE IF Len(e.q) >= ARP_QUEUE_LEN THEN Append(Tail(e.q), pkt)
    ELSE Append(e.q, pkt)

PushedOut(e) ==
    IF ~ARP_QUEUEING THEN Ids(e.q)
    ELSE IF Len(e.q) >= ARP_QUEUE_LEN THEN {Head(e.q).id}
    ELSE {}

\* memp_malloc of a queue element fails: the pool is shared by all entries.
PoolEmpty(inUse) == ARP_QUEUEING /\ Cardinality(inUse) >= MEMP_NUM_ARP_QUEUE

\* Resolve ip and send or queue packet p, or only ask if p is NULL. sent: the
\* request frame could be allocated; taken: the packet could be referenced.
etharp_query(n, ip, p, sent, taken) ==
    LET i     == etharp_find_entry(ip, "TRY_HARD", n)
        isnew == Match(ip, n) = {}
        e     == IF isnew
                 THEN [Claimed(i, ip, n) EXCEPT !.state = "PENDING", !.netif = n]
                 ELSE IF p = NULL /\ sent /\ arp_table[i].state = "PENDING"
                 THEN [arp_table[i] EXCEPT !.ctime = 0]
                 ELSE arp_table[i]
        kept  == IF isnew THEN held \ Ids(arp_table[i].q) ELSE held
        pkt   == [id |-> p, netif |-> n, hop |-> ip]
    IN  IF NonUnicast(ip) \/ i = ERR_MEM
        THEN /\ out' = << >> /\ arp' = {}
             /\ UNCHANGED <<arp_table, held, etharp_cached_entry>>
        ELSE /\ arp' = IF sent /\ (isnew \/ p = NULL) THEN {etharp_request(n, ip)} ELSE {}
             /\ IF p # NULL /\ e.state \in Resolved
                THEN /\ etharp_cached_entry' = i
                     /\ out' = <<IpFrame(n, e.ethaddr, pkt)>>
                     /\ UNCHANGED <<arp_table, held>>
                ELSE /\ UNCHANGED etharp_cached_entry
                     /\ out' = << >>
                     /\ IF p # NULL /\ taken /\ ~PoolEmpty(kept)
                        THEN /\ arp_table' = [arp_table EXCEPT ![i] =
                                    [e EXCEPT !.q = Enqueued(e, pkt)]]
                             /\ held' = (kept \cup {p}) \ PushedOut(e)
                        ELSE /\ arp_table' = [arp_table EXCEPT ![i] = e]
                             /\ held' = kept

\* Send through resolved entry i, asking again if it is about to expire.
etharp_output_to_arp_index(n, pkt, i, sent) ==
    LET e   == arp_table[i]
        ask == e.state = "STABLE" /\ e.ctime >= ARP_AGE_REREQUEST_USED_UNICAST /\ sent
        dst == IF e.ctime >= ARP_AGE_REREQUEST_USED_BROADCAST THEN Broadcast ELSE e.ethaddr
    IN  /\ arp_table' = IF ask THEN [arp_table EXCEPT ![i].state = "STABLE_REREQUESTING_1"]
                        ELSE arp_table
        /\ quiet' = IF ask THEN [quiet EXCEPT ![i] = 0] ELSE quiet
        /\ arp' = IF ask THEN {etharp_request_dst(n, e.ipaddr, dst)} ELSE {}
        /\ out' = <<IpFrame(n, e.ethaddr, pkt)>>
        /\ UNCHANGED held

\* Mutation: the cached entry is trusted to be for the same host.
ResolvesAnyHost(i, n, hop) ==
    /\ arp_table[i].state \in Resolved
    /\ ETHARP_TABLE_MATCH_NETIF => arp_table[i].netif = n

\* Whether entry i resolves hop for a packet sent through n.
Resolves(i, n, hop) ==
    /\ arp_table[i].state \in Resolved
    /\ ETHARP_TABLE_MATCH_NETIF => arp_table[i].netif = n
    /\ arp_table[i].ipaddr = hop

NextHop(n, dst) == IF dst = OffLink THEN Gateway[n] ELSE dst

\* Packet p to dst; IPADDR_ANY is a broadcast or multicast destination.
etharp_output(n, p, dst, sent, taken) ==
    LET hop    == NextHop(n, dst)
        pkt    == [id |-> p, netif |-> n, hop |-> hop]
        stable == {i \in Idx : Resolves(i, n, hop)}
    IN  /\ up[n] /\ (dst # IPADDR_ANY => configured[n])
        /\ p \in Pbufs \ held
        /\ \/ /\ dst = IPADDR_ANY
              /\ out' = <<IpFrame(n, Broadcast, pkt)>> /\ arp' = {}
              /\ UNCHANGED <<arp_table, held, etharp_cached_entry, quiet>>
           \/ /\ dst # IPADDR_ANY /\ hop # IPADDR_ANY
              /\ Resolves(etharp_cached_entry, n, hop)
              /\ etharp_output_to_arp_index(n, pkt, etharp_cached_entry, sent)
              /\ UNCHANGED etharp_cached_entry
           \/ /\ dst # IPADDR_ANY /\ hop # IPADDR_ANY
              /\ ~Resolves(etharp_cached_entry, n, hop)
              /\ stable # {}
              /\ etharp_cached_entry' = First(stable)
              /\ etharp_output_to_arp_index(n, pkt, First(stable), sent)
           \/ /\ dst # IPADDR_ANY /\ hop # IPADDR_ANY
              /\ stable = {}
              /\ etharp_query(n, hop, p, sent, taken)
              /\ UNCHANGED quiet
        /\ UNCHANGED <<up, configured>>

\* etharp_query called without a packet, as dhcp_check does.
etharp_probe(n, ip, sent) ==
    /\ etharp_query(n, ip, NULL, sent, FALSE)
    /\ UNCHANGED <<up, configured, quiet>>

-----------------------------------------------------------------------------
(* Time and interface events                                               *)

\* Mutation: an entry expires one tick late.
ExpiresLate(e) ==
    /\ e.state \notin {"EMPTY", "STATIC"}
    /\ \/ e.ctime + 1 > ARP_MAXAGE
       \/ e.state = "PENDING" /\ e.ctime + 1 > ARP_MAXPENDING

Expires(e) ==
    /\ e.state \notin {"EMPTY", "STATIC"}
    /\ \/ e.ctime + 1 >= ARP_MAXAGE
       \/ e.state = "PENDING" /\ e.ctime + 1 >= ARP_MAXPENDING

\* Mutation: only resolved entries age.
AgedIfResolved(e) ==
    IF e.state \in {"EMPTY", "STATIC", "PENDING"} THEN e
    ELSE IF Expires(e) THEN etharp_free_entry(e)
    ELSE [e EXCEPT !.ctime = @ + 1]

\* Mutation: the second re-request state is skipped.
AgedOneTick(e) ==
    IF e.state \in {"EMPTY", "STATIC"} THEN e
    ELSE IF Expires(e) THEN etharp_free_entry(e)
    ELSE [e EXCEPT !.ctime = @ + 1,
                   !.state = IF @ = "STABLE_REREQUESTING_1" THEN "STABLE" ELSE @]

Aged(e) ==
    IF e.state \in {"EMPTY", "STATIC"} THEN e
    ELSE IF Expires(e) THEN etharp_free_entry(e)
    ELSE [e EXCEPT !.ctime = @ + 1,
                   !.state = CASE @ = "STABLE_REREQUESTING_1" -> "STABLE_REREQUESTING_2"
                               [] @ = "STABLE_REREQUESTING_2" -> "STABLE"
                               [] OTHER -> @]

\* The requests of the tick: one per entry still pending, each may fail.
Retries ==
    {etharp_request(arp_table[i].netif, arp_table[i].ipaddr) :
        i \in {j \in Idx : arp_table[j].state = "PENDING" /\ ~Expires(arp_table[j])}}

etharp_tmr ==
    /\ arp_table' = [i \in Idx |-> Aged(arp_table[i])]
    /\ held' = held \ UNION {Ids(arp_table[i].q) : i \in {j \in Idx : Expires(arp_table[j])}}
    /\ quiet' = [i \in Idx |-> IF quiet[i] < 2 THEN quiet[i] + 1 ELSE 2]
    /\ arp' \in SUBSET Retries
    /\ out' = << >>
    /\ UNCHANGED <<etharp_cached_entry, up, configured>>

\* netif_issue_reports: a gratuitous request once the interface is usable.
Gratuitous(n) == {{}, {etharp_request(n, NULL)}}

etharp_cleanup_netif(n) ==
    LET gone == {i \in Idx : arp_table[i].state # "EMPTY" /\ arp_table[i].netif = n}
    IN  /\ arp_table' = [i \in Idx |-> IF i \in gone THEN etharp_free_entry(arp_table[i])
                                       ELSE arp_table[i]]
        /\ held' = held \ UNION {Ids(arp_table[i].q) : i \in gone}

netif_set_down(n) ==
    /\ up[n]
    /\ up' = [up EXCEPT ![n] = FALSE]
    /\ etharp_cleanup_netif(n)
    /\ out' = << >> /\ arp' = {}
    /\ UNCHANGED <<etharp_cached_entry, configured, quiet>>

netif_set_up(n) ==
    /\ ~up[n]
    /\ up' = [up EXCEPT ![n] = TRUE]
    /\ arp' \in IF configured[n] THEN Gratuitous(n) ELSE {{}}
    /\ out' = << >>
    /\ UNCHANGED <<arp_table, etharp_cached_entry, held, configured, quiet>>

\* The interface gains or loses its address; the ARP table is left alone.
netif_set_ipaddr(n) ==
    /\ configured' = [configured EXCEPT ![n] = ~@]
    /\ arp' \in IF up[n] /\ ~configured[n] THEN Gratuitous(n) ELSE {{}}
    /\ out' = << >>
    /\ UNCHANGED <<arp_table, etharp_cached_entry, held, up, quiet>>

-----------------------------------------------------------------------------

Next ==
    \/ etharp_tmr
    \/ \E n \in Netifs : netif_set_down(n) \/ netif_set_up(n) \/ netif_set_ipaddr(n)
    \/ \E n \in Netifs, sip \in Hosts \cup {IPADDR_ANY}, smac \in Macs,
          op \in {"REQUEST", "REPLY"}, toUs \in BOOLEAN :
            etharp_input(n, sip, smac, op, toUs)
    \/ \E n \in Netifs, ip \in Hosts, mac \in Macs : etharp_add_static_entry(n, ip, mac)
    \/ \E ip \in Hosts : etharp_remove_static_entry(ip)
    \/ \E n \in Netifs, p \in Pbufs, dst \in Hosts \cup {IPADDR_ANY, OffLink},
          sent, taken \in BOOLEAN : etharp_output(n, p, dst, sent, taken)
    \/ \E n \in Netifs, ip \in Hosts, sent \in BOOLEAN : etharp_probe(n, ip, sent)

Spec == Init /\ [][Next]_vars

\* The timer is cyclic (lwip_cyclic_timers), so its ticks never stop.
FairSpec == Spec /\ WF_vars(etharp_tmr)

-----------------------------------------------------------------------------
(* Properties                                                              *)

\* Every variable stays within its type, a resolved entry of the table
\* (etharp.c:118-124) has an interface and a hardware address, and no entry
\* outlives its age limit: the timer frees an unresolved entry after
\* ARP_MAXPENDING ticks and a dynamic one after ARP_MAXAGE.
TypeOK ==
    /\ arp_table \in [Idx -> etharp_entry]
    /\ \A i \in Idx : /\ arp_table[i].state # "EMPTY" =>
                            arp_table[i].netif # NULL /\ arp_table[i].ipaddr # IPADDR_ANY
                      /\ arp_table[i].state \in Resolved => arp_table[i].ethaddr # NULL
                      /\ arp_table[i].state \notin {"EMPTY", "STATIC"} =>
                            arp_table[i].ctime < ARP_MAXAGE
                      /\ arp_table[i].state = "PENDING" => arp_table[i].ctime < ARP_MAXPENDING
    /\ etharp_cached_entry \in Idx
    /\ held \subseteq Pbufs
    /\ up \in [Netifs -> BOOLEAN] /\ configured \in [Netifs -> BOOLEAN]
    /\ out \in Seq([netif : Netifs, dst : Macs \cup {Broadcast},
                   pkt : [id : Pbufs, netif : Netifs, hop : Hosts \cup {IPADDR_ANY}]])
    /\ arp \subseteq [op : {"REQUEST", "REPLY"}, netif : Netifs,
                      ip : Hosts \cup {NULL, IPADDR_ANY}, dst : Macs \cup {Broadcast}]
    /\ quiet \in [Idx -> 0 .. 2]

SameKey(d, e) ==
    d.ipaddr = e.ipaddr /\ (ETHARP_TABLE_MATCH_NETIF => d.netif = e.netif)

\* At most one entry that is in use has a given key: every path that creates
\* one searches the whole table first (etharp_find_entry), so replies, static
\* entries and queries for one address never end up in two entries.
UniqueKey ==
    \A i, j \in Idx :
        /\ arp_table[i].state # "EMPTY" /\ arp_table[j].state # "EMPTY"
        /\ SameKey(arp_table[i], arp_table[j])
        => i = j

\* The reference taken on a queued packet is released exactly once: a packet
\* is held if and only if it is in one place of one queue. A packet that is
\* held and in no queue is leaked, one in a queue and not held is freed twice.
HeldInOneQueue ==
    /\ held = UNION {Ids(arp_table[i].q) : i \in Idx}
    /\ \A i, j \in Idx : \A k \in DOMAIN arp_table[i].q, l \in DOMAIN arp_table[j].q :
           arp_table[i].q[k].id = arp_table[j].q[l].id => i = j /\ k = l

\* Neither a queue nor the shared pool of queue elements is overrun, whatever
\* the order in which packets for several hosts arrive, expire and are sent.
QueueBounded ==
    /\ \A i \in Idx : Len(arp_table[i].q) <= IF ARP_QUEUEING THEN ARP_QUEUE_LEN ELSE 1
    /\ ARP_QUEUEING => Cardinality(held) <= MEMP_NUM_ARP_QUEUE

\* What is queued on an entry is meant for the entry's host, and for its
\* interface when that is part of the key, and the entry is unresolved:
\* recycling an entry for another host never hands the packets of the first
\* one over, and etharp_find_entry finds no packet on a stable entry it
\* recycles, as it asserts.
QueuedForEntry ==
    \A i \in Idx : \A k \in DOMAIN arp_table[i].q :
        /\ arp_table[i].state = "PENDING"
        /\ arp_table[i].q[k].hop = arp_table[i].ipaddr
        /\ ETHARP_TABLE_MATCH_NETIF => arp_table[i].q[k].netif = arp_table[i].netif

\* Every unicast frame goes to the hardware address the table holds for its
\* next hop, on its own interface when the key has one. The index cached by
\* the previous packet may point to an entry recycled since; it is never
\* used for another host.
SentToMapping ==
    \A k \in DOMAIN out :
        \/ out[k].dst = Broadcast /\ out[k].pkt.hop = IPADDR_ANY
        \/ \E i \in Idx :
              /\ arp_table[i].state \in Resolved
              /\ arp_table[i].ipaddr = out[k].pkt.hop
              /\ arp_table[i].ethaddr = out[k].dst
              /\ ETHARP_TABLE_MATCH_NETIF =>
                    out[k].netif = out[k].pkt.netif /\ out[k].netif = arp_table[i].netif

\* What a step that resolves an entry, or sends, does with the queues.
FlushStep ==
    /\ \A i \in Idx :
         /\ arp_table[i].state = "PENDING" /\ arp_table'[i].state \in Resolved
         /\ SameKey(arp_table[i], arp_table'[i])
         => /\ Len(out') = Len(arp_table[i].q)
            /\ \A k \in DOMAIN arp_table[i].q :
                   out'[k].pkt = arp_table[i].q[k] /\ out'[k].dst = arp_table'[i].ethaddr
    /\ \A k \in DOMAIN out' : out'[k].pkt.id \notin held'
    /\ \A k, l \in DOMAIN out' : out'[k].pkt.id = out'[l].pkt.id => k = l

\* When an unresolved entry becomes resolved, exactly its queue is sent, in
\* order and to the address just learnt; at any other time a packet leaves
\* the queues only because it is dropped, never by being sent as well.
FlushExactlyOnce == [][FlushStep]_vars

\* Which entry with packets a step may give to another address.
RecycleStep ==
    \A i \in Idx :
      arp_table[i].q # << >> /\ arp_table'[i].state # "EMPTY"
      /\ ~SameKey(arp_table[i], arp_table'[i])
      => \A j \in Idx \ {i} :
            \/ arp_table[j].state = "STATIC"
            \/ /\ arp_table[j].state = "PENDING" /\ arp_table[j].q # << >>
               /\ arp_table[j].ctime <= arp_table[i].ctime

\* An entry that holds packets is recycled for another address only as the
\* last resort: every other entry is static, or holds packets and is no older.
\* (A reply that is not for us, the timer and interface events recycle nothing.)
RecycledLast == [][RecycleStep]_vars

\* Which steps may change a static entry.
StaticStep ==
    \A i \in Idx :
      arp_table[i].state = "STATIC" /\ arp_table'[i] # arp_table[i]
      => \/ up[arp_table[i].netif] /\ ~up'[arp_table[i].netif]
         \/ etharp_remove_static_entry(arp_table[i].ipaddr)
         \/ /\ arp_table'[i].state = "STATIC"
            /\ SameKey(arp_table[i], arp_table'[i])

\* Neither time nor traffic touches a static entry: only the interface going
\* down, its removal, or another static entry for the same key does.
StaticPersists == [][StaticStep]_vars

\* When a step may ask about an entry in use again.
SpacingStep ==
    \A i \in Idx :
      arp_table'[i].state = "STABLE_REREQUESTING_1"
      /\ arp_table[i].state # "STABLE_REREQUESTING_1" => quiet[i] = 2

\* "Don't send more than one request every 2 seconds" (etharp.c:220): an entry
\* in use is asked about again only after two ticks, whatever replies,
\* expiries and recyclings happen to it in between.
ReRequestSpacing == [][SpacingStep]_vars

\* The callers that query without a packet stop doing so (dhcp_check gives up
\* on an address after a bounded number of tries).
ProbesStop ==
    <>[][\A n \in Netifs, ip \in Hosts, sent \in BOOLEAN : ~etharp_probe(n, ip, sent)]_vars

\* No packet is queued for ever: it is sent or dropped. Each query without a
\* packet restarts the clock of a pending entry (etharp.c:993), so this needs
\* those queries to stop.
HeldReleased ==
    ProbesStop => \A p \in Pbufs : p \in held ~> p \notin held
=============================================================================
