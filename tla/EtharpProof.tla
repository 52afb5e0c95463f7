---------------------------- MODULE EtharpProof ----------------------------
(***************************************************************************)
(* Proofs about the ARP cache, for every table size, age limit, queue      *)
(* length and build option that EtharpAssumption allows.                   *)
(***************************************************************************)
EXTENDS Etharp, WellFoundedInduction, FiniteSetTheorems, TLAPS

-----------------------------------------------------------------------------
(* The search of the table                                                 *)

\* A set of natural numbers that is not empty has a least element.
LEMMA LeastNat ==
    ASSUME NEW S, S \subseteq Nat, S # {}
    PROVE  \E m \in S : \A k \in S : m <= k
<1>1. \E R : IsWellFoundedOn(R, Nat) /\ \A k, m \in Nat : k < m => <<k, m>> \in R
  <2>1. IsWellFoundedOn(OpToRel(<, Nat), Nat)  BY NatLessThanWellFounded, Zenon
  <2>2. \A k, m \in Nat : k < m => <<k, m>> \in OpToRel(<, Nat)  BY Zenon DEF OpToRel
  <2> QED  BY <2>1, <2>2, Zenon
<1>2. PICK R : IsWellFoundedOn(R, Nat) /\ \A k, m \in Nat : k < m => <<k, m>> \in R
  BY <1>1, Zenon
<1>3. \E m \in S : \A k \in S : ~(<<k, m>> \in R)
  <2>1. IsWellFoundedOn(R, Nat)  BY <1>2, Zenon
  <2> QED  BY <2>1, WFMin, Zenon
<1> PICK m \in S : \A k \in S : ~(<<k, m>> \in R)  BY <1>3, Zenon
<1>4. \A k \in S : ~(k < m)  BY <1>2
<1>5. \A k \in S : m <= k  BY <1>4
<1> QED  BY <1>5

\* The first entry of a set of entries is one of them.
LEMMA FirstIn ==
    ASSUME NEW S \in SUBSET Idx, S # {}
    PROVE  First(S) \in S /\ \A j \in S : First(S) <= j
<1>1. S \subseteq Nat  BY EtharpAssumption DEF Idx
<1>2. \E m \in S : \A k \in S : m <= k  BY <1>1, LeastNat
<1> QED  BY <1>2 DEF First

\* The oldest entry of a set of entries is one of them, and none is older.
LEMMA OldestIn ==
    ASSUME arp_table \in [Idx -> etharp_entry], NEW S \in SUBSET Idx, S # {}
    PROVE  /\ Oldest(S) \in S
           /\ \A j \in S : arp_table[j].ctime <= arp_table[Oldest(S)].ctime
<1> DEFINE Age(i) == ARP_MAXAGE - arp_table[i].ctime
           Ages == {Age(i) : i \in S}
<1>0. \A i \in S : Age(i) \in Nat /\ i \in Nat /\ i < ARP_TABLE_SIZE /\ arp_table[i].ctime \in Nat
  BY EtharpAssumption DEF Idx, etharp_entry
<1>1. PICK a \in Ages : \A b \in Ages : a <= b
  <2> Ages \subseteq Nat /\ Ages # {}  BY <1>0
  <2> HIDE DEF Ages
  <2> QED  BY LeastNat
<1> DEFINE Late == {i \in S : Age(i) = a}
           Gaps == {ARP_TABLE_SIZE - i : i \in Late}
<1>2. PICK g \in Gaps : \A b \in Gaps : g <= b
  <2> Gaps \subseteq Nat  BY <1>0, EtharpAssumption
  <2> Gaps # {}  BY <1>1
  <2> HIDE DEF Gaps
  <2> QED  BY LeastNat
<1>3. PICK i \in Late : g = ARP_TABLE_SIZE - i  BY <1>2
<1>4. \A j \in S : \/ arp_table[j].ctime < arp_table[i].ctime
                   \/ arp_table[j].ctime = arp_table[i].ctime /\ j <= i
  <2> TAKE j \in S
  <2>1. Age(i) <= Age(j)  BY <1>1, <1>3
  <2>2. Age(i) = Age(j) => g <= ARP_TABLE_SIZE - j  BY <1>2, <1>3
  <2> QED  BY <2>1, <2>2, <1>0, <1>3, EtharpAssumption
<1> DEFINE Older(o) == \A j \in S : \/ arp_table[j].ctime < arp_table[o].ctime
                                    \/ arp_table[j].ctime = arp_table[o].ctime /\ j <= o
<1>5. Oldest(S) = CHOOSE o \in S : Older(o)  BY DEF Oldest
<1>6. Oldest(S) \in S /\ Older(Oldest(S))
  <2>1. \E o \in S : Older(o)  BY <1>3, <1>4
  <2> HIDE DEF Older
  <2> QED  BY <1>5, <2>1
<1> QED  BY <1>0, <1>6

\* What is recycled is an entry of the table that is not static.
LEMMA VictimProperty ==
    ASSUME arp_table \in [Idx -> etharp_entry], Victim # ERR_MEM
    PROVE  Victim \in Idx /\ arp_table[Victim].state # "STATIC"
<1>1. CASE EmptyEntries # {}
  <2> Victim = First(EmptyEntries)  BY <1>1 DEF Victim
  <2> QED  BY <1>1, FirstIn DEF EmptyEntries
<1>2. CASE EmptyEntries = {} /\ StableEntries # {}
  <2> Victim = Oldest(StableEntries)  BY <1>2 DEF Victim
  <2> QED  BY <1>2, OldestIn DEF StableEntries
<1>3. CASE EmptyEntries \cup StableEntries = {} /\ PendingEntries(FALSE) # {}
  <2> Victim = Oldest(PendingEntries(FALSE))  BY <1>3 DEF Victim
  <2> QED  BY <1>3, OldestIn DEF PendingEntries
<1>4. CASE EmptyEntries \cup StableEntries \cup PendingEntries(FALSE) = {}
           /\ PendingEntries(TRUE) # {}
  <2> Victim = Oldest(PendingEntries(TRUE))  BY <1>4 DEF Victim
  <2> QED  BY <1>4, OldestIn DEF PendingEntries
<1>5. CASE EmptyEntries \cup StableEntries \cup PendingEntries(FALSE)
           \cup PendingEntries(TRUE) = {}
  BY <1>5 DEF Victim
<1> QED  BY <1>1, <1>2, <1>3, <1>4, <1>5

\* The result of the search: the one match, or an entry that may be recycled.
LEMMA FindEntry ==
    ASSUME arp_table \in [Idx -> etharp_entry], NEW ip, NEW flag, NEW n,
           etharp_find_entry(ip, flag, n) # ERR_MEM
    PROVE  LET i == etharp_find_entry(ip, flag, n)
           IN  /\ i \in Idx
               /\ Match(ip, n) # {} => i \in Match(ip, n)
               /\ Match(ip, n) = {} => arp_table[i].state # "STATIC"
<1>1. CASE Match(ip, n) # {}
  <2> etharp_find_entry(ip, flag, n) = First(Match(ip, n))  BY <1>1 DEF etharp_find_entry
  <2> QED  BY <1>1, FirstIn DEF Match
<1>2. CASE Match(ip, n) = {}
  <2> etharp_find_entry(ip, flag, n) = Victim  BY <1>2 DEF etharp_find_entry
  <2> QED  BY <1>2, VictimProperty
<1> QED  BY <1>1, <1>2

-----------------------------------------------------------------------------
(* The inductive invariant, in parts that a step changes one entry at a    *)
(* time: each entry by itself, the keys, and the queues.                   *)

EntryOK(e) ==
    /\ e \in etharp_entry
    /\ e.state # "EMPTY" => e.netif # NULL /\ e.ipaddr # IPADDR_ANY
    /\ e.state \in Resolved => e.ethaddr # NULL
    /\ e.q # << >> => e.state = "PENDING"
    /\ \A k \in DOMAIN e.q : /\ e.q[k].hop = e.ipaddr
                             /\ ETHARP_TABLE_MATCH_NETIF => e.q[k].netif = e.netif
    /\ e.state \notin {"EMPTY", "STATIC"} => e.ctime < ARP_MAXAGE
    /\ e.state = "PENDING" => e.ctime < ARP_MAXPENDING

KeysOK(T) ==
    \A i, j \in Idx :
        T[i].state # "EMPTY" /\ T[j].state # "EMPTY" /\ SameKey(T[i], T[j]) => i = j

QueuesOK(T, H) ==
    /\ \A p : p \in H <=> \E i \in Idx : \E k \in DOMAIN T[i].q : p = T[i].q[k].id
    /\ \A i, j \in Idx : \A k \in DOMAIN T[i].q, l \in DOMAIN T[j].q :
           T[i].q[k].id = T[j].q[l].id => i = j /\ k = l

TableOK(T, H) ==
    /\ T \in [Idx -> etharp_entry]
    /\ \A i \in Idx : EntryOK(T[i])
    /\ KeysOK(T)
    /\ QueuesOK(T, H)

RestOK ==
    /\ etharp_cached_entry \in Idx
    /\ up \in [Netifs -> BOOLEAN] /\ configured \in [Netifs -> BOOLEAN]
    /\ out \in Seq([netif : Netifs, dst : Macs \cup {Broadcast},
                   pkt : [id : Pbufs, netif : Netifs, hop : Hosts \cup {IPADDR_ANY}]])
    /\ arp \subseteq [op : {"REQUEST", "REPLY"}, netif : Netifs,
                      ip : Hosts \cup {NULL, IPADDR_ANY}, dst : Macs \cup {Broadcast}]
    /\ quiet \in [Idx -> 0 .. 2]

IInv == TableOK(arp_table, held) /\ RestOK

\* The inductive invariant implies what TLC checks of the table.
LEMMA IInvImplies ==
    IInv => TypeOK /\ UniqueKey /\ HeldInOneQueue /\ QueuedForEntry
<1> SUFFICES ASSUME IInv
             PROVE  TypeOK /\ UniqueKey /\ HeldInOneQueue /\ QueuedForEntry
  OBVIOUS
<1> USE DEF IInv, TableOK
<1>1. UniqueKey  BY DEF KeysOK, UniqueKey
<1>2. QueuedForEntry  BY DEF EntryOK, QueuedForEntry
<1>3. HeldInOneQueue
  <2>1. \A p : p \in held <=> \E i \in Idx : p \in Ids(arp_table[i].q)
    BY DEF QueuesOK, Ids
  <2>2. held = UNION {Ids(arp_table[i].q) : i \in Idx}  BY <2>1
  <2> QED  BY <2>2 DEF QueuesOK, HeldInOneQueue
<1>4. held \subseteq Pbufs
  <2> SUFFICES ASSUME NEW p \in held PROVE p \in Pbufs  OBVIOUS
  <2>1. PICK i \in Idx : \E k \in DOMAIN arp_table[i].q : p = arp_table[i].q[k].id
    BY DEF QueuesOK
  <2>2. arp_table[i].q \in Seq(Packet)  BY DEF etharp_entry
  <2>3. \A k \in DOMAIN arp_table[i].q : arp_table[i].q[k] \in Packet  BY <2>2
  <2> QED  BY <2>1, <2>3 DEF Packet
<1>5. TypeOK  BY <1>4 DEF RestOK, EntryOK, TypeOK
<1> QED  BY <1>1, <1>2, <1>3, <1>5

\* Keys stay unique when every entry in use keeps its key, except one that
\* takes a key no entry has.
LEMMA KeysStep ==
    ASSUME KeysOK(arp_table), NEW T, NEW i \in Idx,
           \A j \in Idx \ {i} : \/ T[j].state = "EMPTY"
                                \/ arp_table[j].state # "EMPTY" /\ SameKey(arp_table[j], T[j]),
           \/ T[i].state = "EMPTY"
           \/ arp_table[i].state # "EMPTY" /\ SameKey(arp_table[i], T[i])
           \/ \A j \in Idx : arp_table[j].state = "EMPTY" \/ ~SameKey(arp_table[j], T[i])
    PROVE  KeysOK(T)
BY DEF KeysOK, SameKey

\* The queues stay in order when each is kept or emptied and exactly the
\* packets of the emptied ones are released.
LEMMA QueuesKept ==
    ASSUME QueuesOK(arp_table, held), NEW T, NEW H,
           \A j \in Idx : T[j].q = arp_table[j].q \/ T[j].q = << >>,
           \A p : p \in H <=> /\ p \in held
                              /\ \A j \in Idx : T[j].q = << >> => p \notin Ids(arp_table[j].q)
    PROVE  QueuesOK(T, H)
<1>1. \A j \in Idx : \A k \in DOMAIN T[j].q :
         T[j].q = arp_table[j].q /\ k \in DOMAIN arp_table[j].q
  OBVIOUS
<1>2. \A i, j \in Idx : \A k \in DOMAIN T[i].q, l \in DOMAIN T[j].q :
         T[i].q[k].id = T[j].q[l].id => i = j /\ k = l
  BY <1>1 DEF QueuesOK
<1>3. ASSUME NEW p \in H
      PROVE  \E i \in Idx : \E k \in DOMAIN T[i].q : p = T[i].q[k].id
  <2>0. PICK i \in Idx : \E k \in DOMAIN arp_table[i].q : p = arp_table[i].q[k].id
    BY <1>3 DEF QueuesOK
  <2>1. PICK k \in DOMAIN arp_table[i].q : p = arp_table[i].q[k].id  BY <2>0
  <2>2. p \in Ids(arp_table[i].q)  BY <2>1 DEF Ids
  <2>3. T[i].q = arp_table[i].q  BY <2>2
  <2> QED  BY <2>1, <2>3
<1>4. ASSUME NEW i \in Idx, NEW k \in DOMAIN T[i].q
      PROVE  T[i].q[k].id \in H
  <2>1. T[i].q = arp_table[i].q /\ k \in DOMAIN arp_table[i].q  BY <1>1
  <2>2. T[i].q[k].id \in held  BY <2>1 DEF QueuesOK
  <2>3. \A j \in Idx : T[j].q = << >> => T[i].q[k].id \notin Ids(arp_table[j].q)
    <3> SUFFICES ASSUME NEW j \in Idx, T[j].q = << >>, T[i].q[k].id \in Ids(arp_table[j].q)
                 PROVE FALSE
      OBVIOUS
    <3>1. PICK l \in DOMAIN arp_table[j].q : arp_table[j].q[l].id = T[i].q[k].id  BY DEF Ids
    <3>2. i = j  BY <2>1, <3>1 DEF QueuesOK
    <3> QED  BY <3>2
  <2> QED  BY <2>2, <2>3
<1> QED  BY <1>2, <1>3, <1>4 DEF QueuesOK

\* Queueing a packet drops the first d packets, moves the others up and puts
\* the new one last, whichever way the queue is built.
EnqueuedBy(q, r, pkt, d) ==
    /\ r \in Seq(Packet) /\ Len(r) = Len(q) - d + 1
    /\ r[Len(r)] = pkt
    /\ \A k \in 1 .. Len(q) - d : r[k] = q[k + d]

LEMMA EnqueuedShape ==
    ASSUME NEW e \in etharp_entry, NEW pkt \in Packet
    PROVE  \E d \in 0 .. Len(e.q) :
              /\ EnqueuedBy(e.q, Enqueued(e, pkt), pkt, d)
              /\ PushedOut(e) = {e.q[k].id : k \in 1 .. d}
<1> DEFINE q == e.q
<1>0. q \in Seq(Packet)  BY DEF etharp_entry
<1>1. CASE ~ARP_QUEUEING
  <2>1. Enqueued(e, pkt) = <<pkt>>  BY <1>1 DEF Enqueued
  <2>2. PushedOut(e) = {q[k].id : k \in 1 .. Len(q)}  BY <1>0, <1>1 DEF PushedOut, Ids
  <2>3. EnqueuedBy(q, <<pkt>>, pkt, Len(q))  BY <1>0 DEF EnqueuedBy
  <2> QED  BY <1>0, <2>1, <2>2, <2>3
<1>2. CASE ARP_QUEUEING /\ Len(q) >= ARP_QUEUE_LEN
  <2>1. Enqueued(e, pkt) = Append(Tail(q), pkt)  BY <1>2 DEF Enqueued
  <2>2. Len(q) >= 1 /\ q # << >>  BY <1>0, <1>2, EtharpAssumption
  <2>3. PushedOut(e) = {q[k].id : k \in 1 .. 1}  BY <1>0, <1>2, <2>2 DEF PushedOut
  <2>4. EnqueuedBy(q, Append(Tail(q), pkt), pkt, 1)
    <3>1. Tail(q) \in Seq(Packet) /\ Len(Tail(q)) = Len(q) - 1  BY <1>0, <2>2
    <3>2. \A k \in 1 .. Len(q) - 1 : Tail(q)[k] = q[k + 1]  BY <1>0, <2>2
    <3>3. Len(Append(Tail(q), pkt)) = Len(q)  BY <1>0, <3>1
    <3>4. \A k \in 1 .. Len(q) - 1 : Append(Tail(q), pkt)[k] = Tail(q)[k]  BY <1>0, <3>1
    <3> QED  BY <1>0, <3>1, <3>2, <3>3, <3>4 DEF EnqueuedBy
  <2>5. 1 \in 0 .. Len(q)  BY <1>0, <2>2
  <2> QED  BY <2>1, <2>3, <2>4, <2>5
<1>3. CASE ARP_QUEUEING /\ ~(Len(q) >= ARP_QUEUE_LEN)
  <2>1. Enqueued(e, pkt) = Append(q, pkt)  BY <1>3 DEF Enqueued
  <2>2. PushedOut(e) = {q[k].id : k \in 1 .. 0}  BY <1>0, <1>3 DEF PushedOut
  <2>3. EnqueuedBy(q, Append(q, pkt), pkt, 0)  BY <1>0 DEF EnqueuedBy
  <2>4. 0 \in 0 .. Len(q)  BY <1>0
  <2> QED  BY <2>1, <2>2, <2>3, <2>4
<1> QED  BY <1>1, <1>2, <1>3

\* The queues stay in order when a packet that is not held is queued.
LEMMA QueuesEnqueue ==
    ASSUME NEW T \in [Idx -> etharp_entry], NEW H, QueuesOK(T, H), NEW i \in Idx,
           NEW pkt \in Packet, pkt.id \notin H, NEW U \in [Idx -> etharp_entry],
           \A j \in Idx \ {i} : U[j] = T[j],
           U[i].q = Enqueued(T[i], pkt)
    PROVE  QueuesOK(U, (H \cup {pkt.id}) \ PushedOut(T[i]))
<1> DEFINE q == T[i].q
           r == U[i].q
<1>0. T[i] \in etharp_entry /\ q \in Seq(Packet) /\ r \in Seq(Packet)  BY DEF etharp_entry
<1>1. PICK d \in 0 .. Len(q) :
         EnqueuedBy(q, r, pkt, d) /\ PushedOut(T[i]) = {q[k].id : k \in 1 .. d}
  BY <1>0, EnqueuedShape
<1>2. Len(q) \in Nat /\ d \in Nat /\ d <= Len(q) /\ Len(r) = Len(q) - d + 1
      /\ DOMAIN q = 1 .. Len(q) /\ DOMAIN r = 1 .. Len(r)
  BY <1>0, <1>1 DEF EnqueuedBy
<1>3. r[Len(r)] = pkt /\ \A k \in 1 .. Len(q) - d : r[k] = q[k + d]
  BY <1>1 DEF EnqueuedBy
<1>4. \A k \in DOMAIN q : q[k].id \in H /\ q[k].id # pkt.id  BY DEF QueuesOK
<1>5. \A j \in Idx : \A k \in DOMAIN T[j].q : T[j].q[k].id \in H  BY DEF QueuesOK
<1>6. \A k \in DOMAIN r : k # Len(r) => k + d \in DOMAIN q /\ r[k] = q[k + d]
  <2> HIDE DEF q, r
  <2> TAKE k \in DOMAIN r
  <2>1. k \in 1 .. (Len(q) - d + 1)  BY <1>2
  <2>2. k = Len(r) \/ k \in 1 .. (Len(q) - d)  BY <2>1, <1>2
  <2>3. k \in 1 .. (Len(q) - d) => k + d \in 1 .. Len(q)  BY <1>2
  <2>4. k \in 1 .. (Len(q) - d) => r[k] = q[k + d]  BY <1>3
  <2>5. DOMAIN q = 1 .. Len(q)  BY <1>2
  <2> QED  BY <2>2, <2>3, <2>4, <2>5
<1>7. \A k, l \in DOMAIN r : r[k].id = r[l].id => k = l
  <2> TAKE k, l \in DOMAIN r
  <2> HAVE r[k].id = r[l].id
  <2>1. CASE k = Len(r) \/ l = Len(r)  BY <2>1, <1>2, <1>3, <1>4, <1>6
  <2>2. CASE k # Len(r) /\ l # Len(r)
    <3>1. q[k + d].id = q[l + d].id /\ k + d \in DOMAIN q /\ l + d \in DOMAIN q
      BY <2>2, <1>6
    <3>2. k + d = l + d  BY <3>1 DEF QueuesOK
    <3> QED  BY <3>2, <1>2
  <2> QED  BY <2>1, <2>2
<1>8. \A j \in Idx \ {i} : \A k \in DOMAIN r, l \in DOMAIN T[j].q : r[k].id # T[j].q[l].id
  <2> TAKE j \in Idx \ {i}
  <2> TAKE k \in DOMAIN r, l \in DOMAIN T[j].q
  <2>1. CASE k = Len(r)  BY <2>1, <1>3, <1>5
  <2>2. CASE k # Len(r)
    <3>1. r[k] = q[k + d] /\ k + d \in DOMAIN q  BY <2>2, <1>6
    <3> QED  BY <3>1 DEF QueuesOK
  <2> QED  BY <2>1, <2>2
<1>9. \A a, b \in Idx : \A k \in DOMAIN U[a].q, l \in DOMAIN U[b].q :
         U[a].q[k].id = U[b].q[l].id => a = b /\ k = l
  <2> TAKE a, b \in Idx
  <2> TAKE k \in DOMAIN U[a].q, l \in DOMAIN U[b].q
  <2> HAVE U[a].q[k].id = U[b].q[l].id
  <2>1. CASE a = i /\ b = i  BY <2>1, <1>7
  <2>2. CASE a = i /\ b # i  BY <2>2, <1>8
  <2>3. CASE a # i /\ b = i  BY <2>3, <1>8
  <2>4. CASE a # i /\ b # i  BY <2>4 DEF QueuesOK
  <2> QED  BY <2>1, <2>2, <2>3, <2>4
<1>10. ASSUME NEW p, p \in (H \cup {pkt.id}) \ PushedOut(T[i])
       PROVE  \E a \in Idx : \E k \in DOMAIN U[a].q : p = U[a].q[k].id
  <2>1. CASE p = pkt.id
    <3> Len(r) \in DOMAIN r  BY <1>2
    <3> QED  BY <2>1, <1>3
  <2>2. CASE p \in H
    <3>1. PICK a \in Idx : \E k \in DOMAIN T[a].q : p = T[a].q[k].id  BY <2>2 DEF QueuesOK
    <3>2. PICK k \in DOMAIN T[a].q : p = T[a].q[k].id  BY <3>1
    <3>3. CASE a # i  BY <3>2, <3>3
    <3>4. CASE a = i
      <4>1. k \notin 1 .. d  BY <1>1, <1>10, <3>2, <3>4
      <4>2. k - d \in 1 .. Len(q) - d /\ k \in Nat  BY <4>1, <1>2, <3>4
      <4>3. r[k - d] = q[k] /\ k - d \in DOMAIN r  BY <4>2, <1>2, <1>3
      <4> QED  BY <4>3, <3>2, <3>4
    <3> QED  BY <3>3, <3>4
  <2> QED  BY <2>1, <2>2, <1>10
<1>11. ASSUME NEW a \in Idx, NEW k \in DOMAIN U[a].q
       PROVE  U[a].q[k].id \in (H \cup {pkt.id}) \ PushedOut(T[i])
  <2>1. \A m \in 1 .. d : m \in DOMAIN q  BY <1>2
  <2>2. CASE a # i
    <3>1. U[a].q[k].id \in H /\ k \in DOMAIN T[a].q /\ U[a].q = T[a].q  BY <2>2, <1>5
    <3>2. \A m \in 1 .. d : q[m].id # U[a].q[k].id  BY <2>1, <2>2, <3>1 DEF QueuesOK
    <3> QED  BY <3>1, <3>2, <1>1
  <2>3. CASE a = i /\ k = Len(r)  BY <2>1, <2>3, <1>1, <1>3, <1>4
  <2>4. CASE a = i /\ k # Len(r)
    <3>0. k \in DOMAIN r  BY <2>4
    <3>1. r[k] = q[k + d] /\ k + d \in DOMAIN q /\ k \in Nat \ {0}
      <4> HIDE DEF q, r
      <4> QED  BY <3>0, <2>4, <1>2, <1>6
    <3>2. \A m \in 1 .. d : q[m].id # q[k + d].id
      <4> TAKE m \in 1 .. d
      <4>1. m # k + d  BY <3>1, <1>2
      <4> QED  BY <4>1, <2>1, <3>1 DEF QueuesOK
    <3> QED  BY <2>4, <3>1, <3>2, <1>1, <1>4
  <2> QED  BY <2>2, <2>3, <2>4
<1> QED  BY <1>9, <1>10, <1>11 DEF QueuesOK

-----------------------------------------------------------------------------
(* Each operation keeps the table, and sends only to what it maps          *)

Frames == Seq([netif : Netifs, dst : Macs \cup {Broadcast},
               pkt : [id : Pbufs, netif : Netifs, hop : Hosts \cup {IPADDR_ANY}]])

LEMMA InitIInv == Init => IInv /\ SentToMapping
<1> SUFFICES ASSUME Init PROVE IInv /\ SentToMapping  OBVIOUS
<1>1. Zeroed \in etharp_entry /\ EntryOK(Zeroed)
  BY EtharpAssumption DEF Zeroed, etharp_entry, etharp_state, EntryOK, Resolved
<1>2. TableOK(arp_table, held)
  <2>1. \A i \in Idx : arp_table[i] = Zeroed  BY DEF Init
  <2>2. KeysOK(arp_table)  BY <2>1 DEF KeysOK, Zeroed
  <2>3. QueuesOK(arp_table, held)  BY <2>1 DEF QueuesOK, Zeroed, Init
  <2> QED  BY <1>1, <2>1, <2>2, <2>3 DEF TableOK, Init
<1>3. RestOK  BY EtharpAssumption DEF RestOK, Init, Idx
<1> QED  BY <1>2, <1>3 DEF IInv, SentToMapping, Init

\* A freed entry is in order and empty.
LEMMA FreedOK ==
    ASSUME NEW e, EntryOK(e)
    PROVE  /\ EntryOK(etharp_free_entry(e))
           /\ etharp_free_entry(e).state = "EMPTY"
           /\ etharp_free_entry(e).q = << >>
<1>1. CASE LWIP_DEBUG
  BY <1>1, EtharpAssumption
  DEF etharp_free_entry, Zeroed, etharp_entry, etharp_state, EntryOK, Resolved
<1>2. CASE ~LWIP_DEBUG
  <2> DEFINE f == [e EXCEPT !.state = "EMPTY", !.q = << >>]
  <2>1. e \in etharp_entry  BY DEF EntryOK
  <2>2. f \in etharp_entry
    <3>1. << >> \in Seq(Packet) /\ "EMPTY" \in etharp_state  BY DEF etharp_state
    <3> QED  BY <2>1, <3>1 DEF etharp_entry
  <2>3. f.state = "EMPTY" /\ f.q = << >>  BY <2>1 DEF etharp_entry
  <2>4. EntryOK(f)
    <3> HIDE DEF f
    <3> QED  BY <2>2, <2>3 DEF EntryOK, Resolved
  <2> QED  BY <1>2, <2>3, <2>4 DEF etharp_free_entry
<1> QED  BY <1>1, <1>2

\* Replacing entry i by e, which has no packets, keeps the table in order when
\* e is free, has the key of i, or has a key no entry has.
LEMMA ReplaceEntry ==
    ASSUME TableOK(arp_table, held), NEW i \in Idx, NEW e, EntryOK(e), e.q = << >>,
           \/ e.state = "EMPTY"
           \/ arp_table[i].state # "EMPTY" /\ SameKey(arp_table[i], e)
           \/ \A j \in Idx : arp_table[j].state = "EMPTY" \/ ~SameKey(arp_table[j], e)
    PROVE  TableOK([arp_table EXCEPT ![i] = e], held \ Ids(arp_table[i].q))
<1> DEFINE T == [arp_table EXCEPT ![i] = e]
           H == held \ Ids(arp_table[i].q)
<1>0. arp_table \in [Idx -> etharp_entry]  BY DEF TableOK
<1>1. T \in [Idx -> etharp_entry]  BY <1>0 DEF EntryOK
<1>2. T[i] = e /\ \A j \in Idx \ {i} : T[j] = arp_table[j]  BY <1>0
<1>3. \A j \in Idx : EntryOK(T[j])  BY <1>2 DEF TableOK
<1>4. KeysOK(T)
  <2>1. \A j \in Idx \ {i} : SameKey(arp_table[j], T[j])  BY <1>2 DEF SameKey
  <2>2. KeysOK(arp_table)  BY DEF TableOK
  <2> HIDE DEF T
  <2> QED  BY <1>2, <2>1, <2>2, KeysStep
<1>5. QueuesOK(T, H)
  <2>1. QueuesOK(arp_table, held)  BY DEF TableOK
  <2>2. \A j \in Idx : T[j].q = arp_table[j].q \/ T[j].q = << >>  BY <1>2
  <2>3. ASSUME NEW p
        PROVE p \in H <=> /\ p \in held
                          /\ \A j \in Idx : T[j].q = << >> => p \notin Ids(arp_table[j].q)
    <3>1. \A j \in Idx \ {i} : T[j].q = << >> => Ids(arp_table[j].q) = {}
      BY <1>2 DEF Ids
    <3> QED  BY <3>1, <1>2
  <2> HIDE DEF T, H
  <2> QED  BY <2>1, <2>2, <2>3, QueuesKept
<1> QED  BY <1>1, <1>3, <1>4, <1>5 DEF TableOK

\* Learning a mapping.
LEMMA UpdateStep ==
    ASSUME IInv, NEW n \in Netifs, NEW ip \in Hosts \cup {IPADDR_ANY}, NEW mac \in Macs,
           NEW flag, NEW static \in BOOLEAN,
           etharp_update_arp_entry(n, ip, mac, flag, static)
    PROVE  TableOK(arp_table', held') /\ out' \in Frames /\ SentToMapping'
<1> DEFINE i == etharp_find_entry(ip, flag, n)
           found == Match(ip, n) # {}
           e == [state |-> IF static THEN "STATIC" ELSE "STABLE", ipaddr |-> ip, netif |-> n,
                 ethaddr |-> mac, ctime |-> 0, q |-> << >>]
<1>1. CASE \/ NonUnicast(ip) \/ i = ERR_MEM
           \/ ~static /\ found /\ arp_table[i].state = "STATIC"
  <2>1. out' = << >> /\ arp_table' = arp_table /\ held' = held
    BY <1>1 DEF etharp_update_arp_entry
  <2> QED  BY <2>1 DEF IInv, SentToMapping, Frames
<1>2. CASE ~(\/ NonUnicast(ip) \/ i = ERR_MEM
             \/ ~static /\ found /\ arp_table[i].state = "STATIC")
  <2>1. /\ arp_table' = [arp_table EXCEPT ![i] = e]
        /\ held' = held \ Ids(arp_table[i].q)
        /\ out' = IF found THEN Flush(n, mac, arp_table[i].q) ELSE << >>
    BY <1>2 DEF etharp_update_arp_entry
  <2>2. arp_table \in [Idx -> etharp_entry] /\ i # ERR_MEM /\ ip \in Hosts
    BY <1>2 DEF IInv, TableOK, NonUnicast
  <2>3. i \in Idx /\ (found => i \in Match(ip, n))  BY <2>2, FindEntry
  <2>4. EntryOK(e)
    BY <2>2, EtharpAssumption DEF EntryOK, etharp_entry, etharp_state, Resolved
  <2>5. found => arp_table[i].state # "EMPTY" /\ SameKey(arp_table[i], e)
    BY <2>3, EtharpAssumption DEF Match, SameKey
  <2>6. ~found => \A j \in Idx : arp_table[j].state = "EMPTY" \/ ~SameKey(arp_table[j], e)
    BY DEF Match, SameKey
  <2>7. TableOK(arp_table', held')
    <3> TableOK(arp_table, held) /\ e.q = << >>  BY DEF IInv
    <3> HIDE DEF i, e
    <3> QED  BY <2>1, <2>3, <2>4, <2>5, <2>6, ReplaceEntry
  <2>8. CASE ~found  BY <2>1, <2>7, <2>8 DEF SentToMapping, Frames
  <2>9. CASE found
    <3> DEFINE q == arp_table[i].q
    <3>1. q \in Seq(Packet) /\ arp_table[i].ipaddr = ip
      BY <2>2, <2>3, <2>9 DEF Match, etharp_entry
    <3>2. out' = [k \in 1 .. Len(q) |-> IpFrame(n, mac, q[k])]  BY <2>1, <2>9 DEF Flush
    <3>3. \A k \in 1 .. Len(q) : q[k] \in Packet  BY <3>1
    <3>4. out' \in Frames  BY <3>1, <3>2, <3>3 DEF Frames, IpFrame, Packet
    <3>5. EntryOK(arp_table[i])  BY <2>3 DEF IInv, TableOK
    <3>6. \A k \in 1 .. Len(q) : q[k].hop = ip
                                 /\ (ETHARP_TABLE_MATCH_NETIF => q[k].netif = n)
      BY <2>9, <3>1, <3>5, <2>5 DEF EntryOK, SameKey
    <3>7. arp_table'[i] = e  BY <2>1, <2>2, <2>3
    <3>8. e.state \in Resolved  BY DEF Resolved
    <3>9. DOMAIN out' = 1 .. Len(q)  BY <3>2
    <3>10. \A k \in DOMAIN out' : /\ out'[k].pkt = q[k] /\ out'[k].dst = mac
                                  /\ out'[k].netif = n
      BY <3>2 DEF IpFrame
    <3>11. SentToMapping'
      <4> HIDE DEF q, i
      <4> QED  BY <2>3, <3>6, <3>7, <3>8, <3>9, <3>10 DEF SentToMapping
    <3> QED  BY <2>7, <3>4, <3>11
  <2> QED  BY <2>8, <2>9
<1> QED  BY <1>1, <1>2

\* Changing the state or the age of entry i and nothing else keeps the table
\* in order.
LEMMA TouchEntry ==
    ASSUME TableOK(arp_table, held), NEW i \in Idx, NEW e, EntryOK(e),
           e.q = arp_table[i].q, arp_table[i].state # "EMPTY", SameKey(arp_table[i], e)
    PROVE  TableOK([arp_table EXCEPT ![i] = e], held)
<1> DEFINE T == [arp_table EXCEPT ![i] = e]
<1>0. arp_table \in [Idx -> etharp_entry]  BY DEF TableOK
<1>1. T \in [Idx -> etharp_entry]  BY <1>0 DEF EntryOK
<1>2. T[i] = e /\ \A j \in Idx \ {i} : T[j] = arp_table[j]  BY <1>0
<1>3. \A j \in Idx : EntryOK(T[j])  BY <1>2 DEF TableOK
<1>4. KeysOK(T)
  <2>1. \A j \in Idx \ {i} : SameKey(arp_table[j], T[j])  BY <1>2 DEF SameKey
  <2>2. KeysOK(arp_table)  BY DEF TableOK
  <2> HIDE DEF T
  <2> QED  BY <1>2, <2>1, <2>2, KeysStep
<1>5. \A j \in Idx : T[j].q = arp_table[j].q  BY <1>2
<1>6. QueuesOK(T, held)
  <2>1. QueuesOK(arp_table, held)  BY DEF TableOK
  <2> HIDE DEF T
  <2> QED  BY <1>5, <2>1 DEF QueuesOK
<1> QED  BY <1>1, <1>3, <1>4, <1>6 DEF TableOK

\* Queueing a packet for the host of a pending entry keeps the table in order.
LEMMA EnqueueEntry ==
    ASSUME NEW T, NEW H, TableOK(T, H), NEW i \in Idx, T[i].state = "PENDING",
           NEW pkt \in Packet, pkt.id \notin H, pkt.hop = T[i].ipaddr,
           ETHARP_TABLE_MATCH_NETIF => pkt.netif = T[i].netif
    PROVE  TableOK([T EXCEPT ![i] = [T[i] EXCEPT !.q = Enqueued(T[i], pkt)]],
                   (H \cup {pkt.id}) \ PushedOut(T[i]))
<1> DEFINE q == T[i].q
           r == Enqueued(T[i], pkt)
           e == [T[i] EXCEPT !.q = r]
           U == [T EXCEPT ![i] = e]
<1>0. T \in [Idx -> etharp_entry] /\ T[i] \in etharp_entry /\ q \in Seq(Packet) /\ EntryOK(T[i])
  BY DEF TableOK, etharp_entry
<1>1. PICK d \in 0 .. Len(q) : EnqueuedBy(q, r, pkt, d)  BY <1>0, EnqueuedShape
<1>2. r \in Seq(Packet)  BY <1>1 DEF EnqueuedBy
<1>3. /\ e \in etharp_entry /\ e.q = r /\ e.state = "PENDING" /\ e.ipaddr = T[i].ipaddr
      /\ e.netif = T[i].netif /\ e.ctime = T[i].ctime
  <2> HIDE DEF r
  <2> QED  BY <1>0, <1>2 DEF etharp_entry
<1>4. \A k \in DOMAIN r : r[k].hop = T[i].ipaddr
                          /\ (ETHARP_TABLE_MATCH_NETIF => r[k].netif = T[i].netif)
  <2> TAKE k \in DOMAIN r
  <2> HIDE DEF q, r
  <2>1. Len(q) \in Nat /\ DOMAIN q = 1 .. Len(q) /\ DOMAIN r = 1 .. Len(r)
        /\ Len(r) = Len(q) - d + 1
    BY <1>0, <1>1, <1>2 DEF EnqueuedBy
  <2>2. CASE k = Len(r)  BY <2>2, <1>1 DEF EnqueuedBy
  <2>3. CASE k # Len(r)
    <3>1. k \in 1 .. (Len(q) - d) /\ k + d \in DOMAIN q  BY <2>1, <2>3
    <3>2. r[k] = q[k + d]  BY <3>1, <1>1 DEF EnqueuedBy
    <3> QED  BY <3>1, <3>2, <1>0 DEF EntryOK, q
  <2> QED  BY <2>2, <2>3
<1>5. EntryOK(e)
  <2> HIDE DEF r, e
  <2> QED  BY <1>0, <1>3, <1>4, EtharpAssumption DEF EntryOK, Resolved
<1>6. U \in [Idx -> etharp_entry] /\ U[i] = e /\ \A j \in Idx \ {i} : U[j] = T[j]
  <2> HIDE DEF e
  <2> QED  BY <1>0, <1>3
<1>7. \A j \in Idx : EntryOK(U[j])  BY <1>5, <1>6 DEF TableOK
<1>8. KeysOK(U)
  <2> HIDE DEF U, e
  <2>1. \A j \in Idx : U[j].state = T[j].state /\ U[j].ipaddr = T[j].ipaddr
                       /\ U[j].netif = T[j].netif
    BY <1>3, <1>6
  <2> QED  BY <2>1 DEF TableOK, KeysOK, SameKey
<1>9. QueuesOK(U, (H \cup {pkt.id}) \ PushedOut(T[i]))
  <2> QueuesOK(T, H)  BY DEF TableOK
  <2> HIDE DEF U, e
  <2> QED  BY <1>0, <1>3, <1>6, QueuesEnqueue
<1> QED  BY <1>6, <1>7, <1>8, <1>9 DEF TableOK

ArpFrames == [op : {"REQUEST", "REPLY"}, netif : Netifs,
              ip : Hosts \cup {NULL, IPADDR_ANY}, dst : Macs \cup {Broadcast}]

\* Resolving an address, with or without a packet that is not held yet.
LEMMA QueryStep ==
    ASSUME IInv, NEW n \in Netifs, NEW ip \in Hosts \cup {IPADDR_ANY},
           NEW p \in Pbufs \cup {NULL}, p \notin held,
           NEW sent \in BOOLEAN, NEW taken \in BOOLEAN,
           etharp_query(n, ip, p, sent, taken)
    PROVE  /\ TableOK(arp_table', held') /\ etharp_cached_entry' \in Idx
           /\ out' \in Frames /\ arp' \subseteq ArpFrames /\ SentToMapping'
<1> DEFINE i     == etharp_find_entry(ip, "TRY_HARD", n)
           isnew == Match(ip, n) = {}
           e     == IF isnew
                    THEN [Claimed(i, ip, n) EXCEPT !.state = "PENDING", !.netif = n]
                    ELSE IF p = NULL /\ sent /\ arp_table[i].state = "PENDING"
                    THEN [arp_table[i] EXCEPT !.ctime = 0]
                    ELSE arp_table[i]
           kept  == IF isnew THEN held \ Ids(arp_table[i].q) ELSE held
           pkt   == [id |-> p, netif |-> n, hop |-> ip]
           T     == [arp_table EXCEPT ![i] = e]
<1>1. CASE NonUnicast(ip) \/ i = ERR_MEM
  <2>1. out' = << >> /\ arp' = {} /\ arp_table' = arp_table /\ held' = held
        /\ etharp_cached_entry' = etharp_cached_entry
    BY <1>1 DEF etharp_query
  <2> QED  BY <2>1 DEF IInv, RestOK, SentToMapping, Frames
<1>2. CASE ~(NonUnicast(ip) \/ i = ERR_MEM)
  <2>1. /\ arp' = IF sent /\ (isnew \/ p = NULL) THEN {etharp_request(n, ip)} ELSE {}
        /\ IF p # NULL /\ e.state \in Resolved
           THEN /\ etharp_cached_entry' = i
                /\ out' = <<IpFrame(n, e.ethaddr, pkt)>>
                /\ UNCHANGED <<arp_table, held>>
           ELSE /\ UNCHANGED etharp_cached_entry
                /\ out' = << >>
                /\ IF p # NULL /\ taken /\ ~PoolEmpty(kept)
                   THEN /\ arp_table' = [arp_table EXCEPT ![i] =
                               [e EXCEPT !.q = Enqueued(e, pkt)]]
                        /\ held' = (kept \cup {p}) \ PushedOut(e)
                   ELSE /\ arp_table' = [arp_table EXCEPT ![i] = e]
                        /\ held' = kept
    BY <1>2 DEF etharp_query
  <2>2. arp_table \in [Idx -> etharp_entry] /\ i # ERR_MEM /\ ip \in Hosts
        /\ TableOK(arp_table, held)
    BY <1>2 DEF IInv, TableOK, NonUnicast
  <2>3. i \in Idx /\ (~isnew => i \in Match(ip, n))  BY <2>2, FindEntry
  <2>4. arp_table[i] \in etharp_entry /\ EntryOK(arp_table[i])  BY <2>2, <2>3 DEF TableOK
  <2>5. arp' \subseteq ArpFrames
    BY <2>1, <2>2 DEF ArpFrames, etharp_request, etharp_request_dst
  <2>6. /\ EntryOK(e) /\ e.state # "EMPTY" /\ e.ipaddr = ip
        /\ (ETHARP_TABLE_MATCH_NETIF => e.netif = n)
        /\ (isnew => e.state = "PENDING" /\ e.q = << >>)
        /\ (~isnew => /\ e.q = arp_table[i].q /\ arp_table[i].state # "EMPTY"
                      /\ SameKey(arp_table[i], e) /\ e.ethaddr = arp_table[i].ethaddr
                      /\ e.state = arp_table[i].state)
    <3>1. CASE isnew
      <4> DEFINE f == etharp_free_entry(arp_table[i])
      <4>1. EntryOK(f) /\ f.q = << >> /\ f \in etharp_entry  BY <2>4, FreedOK DEF EntryOK
      <4>2. e = [f EXCEPT !.ipaddr = ip, !.ctime = 0, !.netif = n, !.state = "PENDING"]
        <5> HIDE DEF f
        <5>1. Claimed(i, ip, n) = [f EXCEPT !.ipaddr = ip, !.ctime = 0,
                 !.netif = IF ETHARP_TABLE_MATCH_NETIF THEN n ELSE @]
          BY DEF Claimed, f
        <5> QED  BY <3>1, <4>1, <5>1 DEF etharp_entry
      <4> HIDE DEF f, e
      <4>3. /\ e \in etharp_entry /\ e.state = "PENDING" /\ e.q = << >> /\ e.ipaddr = ip
            /\ e.netif = n /\ e.ctime = 0
        <5>1. 0 \in 0 .. ARP_MAXAGE /\ "PENDING" \in etharp_state
          BY EtharpAssumption DEF etharp_state
        <5> QED  BY <2>2, <4>1, <4>2, <5>1 DEF etharp_entry
      <4>4. EntryOK(e)  BY <2>2, <4>3, EtharpAssumption DEF EntryOK, Resolved
      <4> QED  BY <3>1, <4>3, <4>4
    <3>2. CASE ~isnew
      <4>1. arp_table[i].state # "EMPTY" /\ arp_table[i].ipaddr = ip
            /\ (ETHARP_TABLE_MATCH_NETIF => arp_table[i].netif = n)
        BY <2>3, <3>2, EtharpAssumption DEF Match
      <4>2. CASE p = NULL /\ sent /\ arp_table[i].state = "PENDING"
        <5>1. e = [arp_table[i] EXCEPT !.ctime = 0]  BY <3>2, <4>2
        <5> HIDE DEF e
        <5>2. /\ e \in etharp_entry /\ e.q = arp_table[i].q /\ e.state = arp_table[i].state
              /\ e.ipaddr = arp_table[i].ipaddr /\ e.netif = arp_table[i].netif
              /\ e.ethaddr = arp_table[i].ethaddr /\ e.ctime = 0
          <6>1. 0 \in 0 .. ARP_MAXAGE  BY EtharpAssumption
          <6> QED  BY <2>4, <5>1, <6>1 DEF etharp_entry
        <5>3. EntryOK(e)  BY <2>4, <5>2, EtharpAssumption DEF EntryOK
        <5> QED  BY <3>2, <4>1, <5>2, <5>3 DEF SameKey
      <4>3. CASE ~(p = NULL /\ sent /\ arp_table[i].state = "PENDING")
        <5>1. e = arp_table[i]  BY <3>2, <4>3
        <5> HIDE DEF e
        <5> QED  BY <2>4, <3>2, <4>1, <5>1 DEF SameKey
      <4> QED  BY <4>2, <4>3
    <3> QED  BY <3>1, <3>2
  <2>7. TableOK(T, kept)
    <3> HIDE DEF e, i
    <3>1. CASE isnew
      <4>1. \A j \in Idx : arp_table[j].state = "EMPTY" \/ ~SameKey(arp_table[j], e)
        BY <2>6, <3>1 DEF Match, SameKey
      <4> QED  BY <2>2, <2>3, <2>6, <3>1, <4>1, ReplaceEntry
    <3>2. CASE ~isnew  BY <2>2, <2>3, <2>6, <3>2, TouchEntry
    <3> QED  BY <3>1, <3>2
  <2>8. CASE p # NULL /\ e.state \in Resolved
    <3>1. ~isnew /\ e.ethaddr = arp_table[i].ethaddr /\ arp_table[i].state \in Resolved
          /\ arp_table[i].ipaddr = ip /\ (ETHARP_TABLE_MATCH_NETIF => arp_table[i].netif = n)
      <4> HIDE DEF e, i
      <4> QED  BY <2>6, <2>8 DEF Resolved, SameKey
    <3>2. arp_table[i].ethaddr \in Macs  BY <2>4, <3>1 DEF EntryOK, etharp_entry
    <3>3. out' = <<IpFrame(n, arp_table[i].ethaddr, pkt)>> /\ etharp_cached_entry' = i
          /\ arp_table' = arp_table /\ held' = held
      BY <2>1, <2>8, <3>1
    <3> HIDE DEF i
    <3>4. p \in Pbufs  BY <2>8
    <3>5. out' \in Frames  BY <2>2, <3>2, <3>3, <3>4 DEF Frames, IpFrame
    <3>6. SentToMapping'  BY <2>3, <3>1, <3>3 DEF SentToMapping, IpFrame
    <3> QED  BY <2>2, <2>3, <2>5, <3>3, <3>5, <3>6
  <2>9. CASE ~(p # NULL /\ e.state \in Resolved)
    <3>1. /\ etharp_cached_entry' = etharp_cached_entry
          /\ out' = << >>
          /\ \/ /\ p # NULL
                /\ arp_table' = [arp_table EXCEPT ![i] = [e EXCEPT !.q = Enqueued(e, pkt)]]
                /\ held' = (kept \cup {p}) \ PushedOut(e)
             \/ arp_table' = T /\ held' = kept
      BY <2>1, <2>9
    <3>2. etharp_cached_entry' \in Idx /\ out' \in Frames /\ SentToMapping'
      BY <3>1 DEF IInv, RestOK, Frames, SentToMapping
    <3>3. ASSUME p # NULL,
                 arp_table' = [arp_table EXCEPT ![i] = [e EXCEPT !.q = Enqueued(e, pkt)]],
                 held' = (kept \cup {p}) \ PushedOut(e)
          PROVE  TableOK(arp_table', held')
      <4>1. pkt \in Packet /\ pkt.id = p /\ pkt.hop = ip /\ pkt.netif = n  BY <2>2, <3>3 DEF Packet
      <4>2. p \notin kept  OBVIOUS
      <4>3. e.state = "PENDING"
        <5> HIDE DEF e, i
        <5> QED  BY <2>6, <2>9, <3>3 DEF EntryOK, etharp_entry, etharp_state
      <4> HIDE DEF e, i, kept, pkt
      <4>4. T[i] = e  BY <2>2, <2>3
      <4>5. arp_table' = [T EXCEPT ![i] = [T[i] EXCEPT !.q = Enqueued(T[i], pkt)]]
        BY <2>2, <2>3, <3>3, <4>4
      <4> HIDE DEF T
      <4>6. /\ T[i].state = "PENDING" /\ pkt.id \notin kept /\ pkt.hop = T[i].ipaddr
            /\ (ETHARP_TABLE_MATCH_NETIF => pkt.netif = T[i].netif)
        BY <2>6, <4>1, <4>2, <4>3, <4>4
      <4>7. TableOK([T EXCEPT ![i] = [T[i] EXCEPT !.q = Enqueued(T[i], pkt)]],
                    (kept \cup {pkt.id}) \ PushedOut(T[i]))
        BY <2>3, <2>7, <4>1, <4>6, EnqueueEntry
      <4> QED  BY <3>3, <4>1, <4>4, <4>5, <4>7
    <3>4. TableOK(arp_table', held')  BY <2>7, <3>1, <3>3
    <3> QED  BY <2>5, <3>2, <3>4
  <2> QED  BY <2>8, <2>9
<1> QED  BY <1>1, <1>2

\* Sending through a resolved entry.
LEMMA OutputStep ==
    ASSUME IInv, NEW n \in Netifs, NEW p \in Pbufs, NEW hop \in Hosts, NEW i \in Idx,
           Resolves(i, n, hop), NEW sent \in BOOLEAN,
           etharp_output_to_arp_index(n, [id |-> p, netif |-> n, hop |-> hop], i, sent)
    PROVE  /\ TableOK(arp_table', held') /\ out' \in Frames /\ arp' \subseteq ArpFrames
           /\ quiet' \in [Idx -> 0 .. 2] /\ SentToMapping'
<1> DEFINE e == arp_table[i]
           f == [e EXCEPT !.state = "STABLE_REREQUESTING_1"]
           pkt == [id |-> p, netif |-> n, hop |-> hop]
<1>1. /\ TableOK(arp_table, held) /\ e \in etharp_entry /\ EntryOK(e)
      /\ arp_table \in [Idx -> etharp_entry]
  BY DEF IInv, TableOK
<1>2. /\ e.state \in Resolved /\ e.ipaddr = hop /\ e.ethaddr \in Macs
      /\ (ETHARP_TABLE_MATCH_NETIF => e.netif = n)
  BY <1>1 DEF Resolves, EntryOK, etharp_entry
<1>3. out' = <<IpFrame(n, e.ethaddr, pkt)>> /\ held' = held
  BY DEF etharp_output_to_arp_index
<1>4. out' \in Frames  BY <1>2, <1>3 DEF Frames, IpFrame
<1>5. arp' \subseteq ArpFrames
  BY <1>2 DEF etharp_output_to_arp_index, etharp_request_dst, ArpFrames
<1>6. quiet' \in [Idx -> 0 .. 2]
  <2> quiet \in [Idx -> 0 .. 2]  BY DEF IInv, RestOK
  <2> QED  BY DEF etharp_output_to_arp_index
<1>7. CASE arp_table' = arp_table
  <2> SentToMapping'  BY <1>2, <1>3, <1>7 DEF SentToMapping, IpFrame
  <2> QED  BY <1>1, <1>3, <1>4, <1>5, <1>6, <1>7
<1>8. CASE e.state = "STABLE" /\ arp_table' = [arp_table EXCEPT ![i] = f]
  <2>1. /\ f \in etharp_entry /\ f.q = e.q /\ f.ipaddr = e.ipaddr /\ f.netif = e.netif
        /\ f.ethaddr = e.ethaddr /\ f.ctime = e.ctime /\ f.state = "STABLE_REREQUESTING_1"
    <3>1. "STABLE_REREQUESTING_1" \in etharp_state  BY DEF etharp_state, Resolved
    <3> QED  BY <1>1, <3>1 DEF etharp_entry
  <2>2. arp_table'[i] = f  BY <1>1, <1>8
  <2> HIDE DEF f
  <2>3. EntryOK(f)  BY <1>1, <1>8, <2>1 DEF EntryOK, Resolved
  <2>4. TableOK(arp_table', held')
    BY <1>1, <1>3, <1>8, <2>1, <2>3, TouchEntry DEF SameKey
  <2>5. f.state \in Resolved  BY <2>1 DEF Resolved
  <2>6. SentToMapping'  BY <1>2, <1>3, <2>1, <2>2, <2>5 DEF SentToMapping, IpFrame
  <2> QED  BY <1>4, <1>5, <1>6, <2>4, <2>6
<1>9. arp_table' = arp_table \/ (e.state = "STABLE" /\ arp_table' = [arp_table EXCEPT ![i] = f])
  BY <1>1 DEF etharp_output_to_arp_index
<1> QED  BY <1>7, <1>8, <1>9

\* Freeing the entries of G, and touching the others, keeps the table in order.
LEMMA FreeEntries ==
    ASSUME TableOK(arp_table, held), NEW G \in SUBSET Idx, NEW T \in [Idx -> etharp_entry],
           \A j \in Idx : EntryOK(T[j]),
           \A j \in G : T[j].state = "EMPTY" /\ T[j].q = << >>,
           \A j \in Idx \ G : /\ T[j].q = arp_table[j].q
                              /\ \/ T[j].state = "EMPTY"
                                 \/ arp_table[j].state # "EMPTY" /\ SameKey(arp_table[j], T[j])
    PROVE  TableOK(T, held \ UNION {Ids(arp_table[i].q) : i \in G})
<1> DEFINE H == held \ UNION {Ids(arp_table[i].q) : i \in G}
<1>1. KeysOK(T)
  <2>1. 0 \in Idx  BY EtharpAssumption DEF Idx
  <2> QED  BY <2>1, KeysStep DEF TableOK
<1>2. QueuesOK(T, H)
  <2>1. \A j \in Idx \ G : T[j].q = << >> => Ids(arp_table[j].q) = {}  BY DEF Ids
  <2>2. ASSUME NEW p
        PROVE p \in H <=> /\ p \in held
                          /\ \A j \in Idx : T[j].q = << >> => p \notin Ids(arp_table[j].q)
    BY <2>1
  <2> HIDE DEF H
  <2> QED  BY <2>2, QueuesKept DEF TableOK
<1> QED  BY <1>1, <1>2 DEF TableOK

\* The timer.
LEMMA TimerStep ==
    ASSUME IInv, etharp_tmr
    PROVE  TableOK(arp_table', held') /\ RestOK' /\ SentToMapping'
<1> DEFINE G == {j \in Idx : Expires(arp_table[j])}
           T == [i \in Idx |-> Aged(arp_table[i])]
<1>1. TableOK(arp_table, held) /\ \A j \in Idx : arp_table[j] \in etharp_entry /\ EntryOK(arp_table[j])
  BY DEF IInv, TableOK
<1>2. ASSUME NEW j \in G
      PROVE  EntryOK(T[j]) /\ T[j].state = "EMPTY" /\ T[j].q = << >>
  <2>1. T[j] = etharp_free_entry(arp_table[j])  BY DEF Aged, Expires
  <2> QED  BY <1>1, <2>1, FreedOK
<1>3. ASSUME NEW j \in Idx \ G
      PROVE  /\ EntryOK(T[j]) /\ T[j].q = arp_table[j].q
             /\ \/ T[j].state = "EMPTY"
                \/ arp_table[j].state # "EMPTY" /\ SameKey(arp_table[j], T[j])
  <2> DEFINE e == arp_table[j]
  <2>1. CASE e.state \in {"EMPTY", "STATIC"}
    <3>1. T[j] = e  BY <2>1 DEF Aged
    <3> QED  BY <1>1, <2>1, <3>1 DEF SameKey
  <2>2. CASE e.state \notin {"EMPTY", "STATIC"}
    <3> DEFINE s == CASE e.state = "STABLE_REREQUESTING_1" -> "STABLE_REREQUESTING_2"
                      [] e.state = "STABLE_REREQUESTING_2" -> "STABLE"
                      [] OTHER -> e.state
    <3>1. T[j] = [e EXCEPT !.ctime = @ + 1, !.state = s]  BY <1>1, <2>2 DEF Aged, etharp_entry
    <3>2. /\ s \in etharp_state /\ s # "EMPTY" /\ s # "STATIC"
          /\ (s = "PENDING" <=> e.state = "PENDING")
          /\ (s \in Resolved <=> e.state \in Resolved)
      BY <1>1, <2>2 DEF etharp_entry, etharp_state, Resolved
    <3>3. /\ e.ctime + 1 < ARP_MAXAGE /\ e.ctime \in Nat
          /\ (e.state = "PENDING" => e.ctime + 1 < ARP_MAXPENDING)
      BY <1>1, <2>2, EtharpAssumption DEF Expires, etharp_entry
    <3> HIDE DEF s
    <3>4. e.ctime + 1 \in 0 .. ARP_MAXAGE  BY <3>3, EtharpAssumption
    <3>5. /\ T[j] \in etharp_entry /\ T[j].q = e.q /\ T[j].ipaddr = e.ipaddr
          /\ T[j].netif = e.netif /\ T[j].ethaddr = e.ethaddr /\ T[j].ctime = e.ctime + 1
          /\ T[j].state = s
      BY <1>1, <3>1, <3>2, <3>4 DEF etharp_entry
    <3> HIDE DEF T
    <3>6. EntryOK(T[j])  BY <1>1, <2>2, <3>2, <3>3, <3>5 DEF EntryOK
    <3> QED  BY <2>2, <3>5, <3>6 DEF SameKey
  <2> QED  BY <2>1, <2>2
<1>4. \A j \in Idx : EntryOK(T[j])  BY <1>2, <1>3
<1>5. T \in [Idx -> etharp_entry]  BY <1>4 DEF EntryOK
<1>6. TableOK(T, held \ UNION {Ids(arp_table[i].q) : i \in G})
  <2> HIDE DEF T, G
  <2> G \in SUBSET Idx  BY DEF G
  <2> QED  BY <1>1, <1>2, <1>3, <1>4, <1>5, FreeEntries
<1>7. TableOK(arp_table', held')  BY <1>6 DEF etharp_tmr
<1>8. RestOK'
  <2>1. Retries \subseteq ArpFrames
    <3> SUFFICES ASSUME NEW i \in Idx, arp_table[i].state = "PENDING"
                 PROVE  etharp_request(arp_table[i].netif, arp_table[i].ipaddr) \in ArpFrames
      BY DEF Retries
    <3>1. arp_table[i].netif \in Netifs /\ arp_table[i].ipaddr \in Hosts
      BY <1>1 DEF EntryOK, etharp_entry
    <3> QED  BY <3>1 DEF etharp_request, etharp_request_dst, ArpFrames
  <2>2. quiet' \in [Idx -> 0 .. 2]  BY DEF etharp_tmr, IInv, RestOK
  <2>3. arp' \subseteq ArpFrames /\ out' = << >>  BY <2>1 DEF etharp_tmr
  <2> QED  BY <2>2, <2>3 DEF etharp_tmr, IInv, RestOK, ArpFrames
<1>9. SentToMapping'  BY DEF etharp_tmr, SentToMapping
<1> QED  BY <1>7, <1>8, <1>9

\* Removing a static entry.
LEMMA RemoveStaticStep ==
    ASSUME IInv, NEW ip \in Hosts, etharp_remove_static_entry(ip)
    PROVE  TableOK(arp_table', held') /\ out' = << >>
<1> DEFINE i == etharp_find_entry(ip, "FIND_ONLY", NULL)
<1>1. arp_table \in [Idx -> etharp_entry] /\ TableOK(arp_table, held)  BY DEF IInv, TableOK
<1>2. i \in Idx  BY <1>1, FindEntry DEF etharp_remove_static_entry
<1>3. EntryOK(arp_table[i])  BY <1>1, <1>2 DEF TableOK
<1>4. arp_table' = [arp_table EXCEPT ![i] = etharp_free_entry(arp_table[i])]
      /\ held' = held \ Ids(arp_table[i].q) /\ out' = << >>
  BY <1>1, <1>2 DEF etharp_remove_static_entry
<1> HIDE DEF i
<1> QED  BY <1>1, <1>2, <1>3, <1>4, FreedOK, ReplaceEntry

\* An interface going down takes its entries along.
LEMMA DownStep ==
    ASSUME IInv, NEW n \in Netifs, netif_set_down(n)
    PROVE  TableOK(arp_table', held') /\ RestOK' /\ SentToMapping'
<1> DEFINE G == {i \in Idx : arp_table[i].state # "EMPTY" /\ arp_table[i].netif = n}
           T == [i \in Idx |-> IF i \in G THEN etharp_free_entry(arp_table[i])
                               ELSE arp_table[i]]
<1>1. TableOK(arp_table, held) /\ \A j \in Idx : EntryOK(arp_table[j])  BY DEF IInv, TableOK
<1>2. \A j \in G : EntryOK(T[j]) /\ T[j].state = "EMPTY" /\ T[j].q = << >>
  BY <1>1, FreedOK
<1>3. \A j \in Idx \ G : T[j] = arp_table[j] /\ SameKey(arp_table[j], T[j])  BY DEF SameKey
<1>4. \A j \in Idx : EntryOK(T[j])  BY <1>1, <1>2, <1>3
<1>5. T \in [Idx -> etharp_entry]  BY <1>4 DEF EntryOK
<1>6. TableOK(T, held \ UNION {Ids(arp_table[i].q) : i \in G})
  <2> G \in SUBSET Idx  OBVIOUS
  <2> HIDE DEF T, G
  <2> QED  BY <1>1, <1>2, <1>3, <1>4, <1>5, FreeEntries
<1>7. arp_table' = T /\ held' = held \ UNION {Ids(arp_table[i].q) : i \in G} /\ out' = << >>
  BY DEF netif_set_down, etharp_cleanup_netif
<1>8. RestOK'  BY DEF netif_set_down, IInv, RestOK
<1> QED  BY <1>6, <1>7, <1>8 DEF SentToMapping

\* A packet to send: broadcast, through a resolved entry, or queued.
LEMMA SendStep ==
    ASSUME IInv, NEW n \in Netifs, NEW p \in Pbufs,
           NEW dst \in Hosts \cup {IPADDR_ANY, OffLink},
           NEW sent \in BOOLEAN, NEW taken \in BOOLEAN,
           etharp_output(n, p, dst, sent, taken)
    PROVE  TableOK(arp_table', held') /\ RestOK' /\ SentToMapping'
<1> DEFINE hop == NextHop(n, dst)
           pkt == [id |-> p, netif |-> n, hop |-> hop]
           stable == {i \in Idx : Resolves(i, n, hop)}
<1>1. up' = up /\ configured' = configured /\ p \notin held  BY DEF etharp_output
<1>2. dst # IPADDR_ANY /\ hop # IPADDR_ANY => hop \in Hosts
  BY EtharpAssumption DEF NextHop
<1>3. CASE /\ dst = IPADDR_ANY
           /\ out' = <<IpFrame(n, Broadcast, pkt)>> /\ arp' = {}
           /\ UNCHANGED <<arp_table, held, etharp_cached_entry, quiet>>
  <2>1. hop = IPADDR_ANY  BY <1>3, EtharpAssumption DEF NextHop
  <2>2. out' \in Frames  BY <1>3, <2>1 DEF IpFrame, Frames
  <2>3. SentToMapping'  BY <1>3, <2>1 DEF IpFrame, SentToMapping
  <2> QED  BY <1>1, <1>3, <2>2, <2>3 DEF IInv, RestOK, Frames
<1>4. ASSUME NEW i \in Idx, hop \in Hosts, Resolves(i, n, hop), etharp_cached_entry' \in Idx,
             etharp_output_to_arp_index(n, pkt, i, sent)
      PROVE  TableOK(arp_table', held') /\ RestOK' /\ SentToMapping'
  <2> HIDE DEF hop
  <2>1. /\ TableOK(arp_table', held') /\ out' \in Frames /\ arp' \subseteq ArpFrames
        /\ quiet' \in [Idx -> 0 .. 2] /\ SentToMapping'
    BY <1>4, OutputStep
  <2> QED  BY <1>1, <1>4, <2>1 DEF IInv, RestOK, Frames, ArpFrames
<1>5. CASE /\ dst # IPADDR_ANY /\ hop # IPADDR_ANY
           /\ Resolves(etharp_cached_entry, n, hop)
           /\ etharp_output_to_arp_index(n, pkt, etharp_cached_entry, sent)
           /\ UNCHANGED etharp_cached_entry
  <2> etharp_cached_entry \in Idx  BY DEF IInv, RestOK
  <2> HIDE DEF hop
  <2> QED  BY <1>2, <1>4, <1>5
<1>6. CASE /\ dst # IPADDR_ANY /\ hop # IPADDR_ANY
           /\ stable # {}
           /\ etharp_cached_entry' = First(stable)
           /\ etharp_output_to_arp_index(n, pkt, First(stable), sent)
  <2>1. First(stable) \in stable  BY <1>6, FirstIn
  <2> HIDE DEF hop
  <2> QED  BY <1>2, <1>4, <1>6, <2>1
<1>7. CASE /\ dst # IPADDR_ANY /\ hop # IPADDR_ANY
           /\ stable = {}
           /\ etharp_query(n, hop, p, sent, taken)
           /\ UNCHANGED quiet
  <2> HIDE DEF hop
  <2>1. /\ TableOK(arp_table', held') /\ etharp_cached_entry' \in Idx
        /\ out' \in Frames /\ arp' \subseteq ArpFrames /\ SentToMapping'
    BY <1>1, <1>2, <1>7, QueryStep
  <2> QED  BY <1>1, <1>7, <2>1 DEF IInv, RestOK, Frames, ArpFrames
<1> QED  BY <1>3, <1>5, <1>6, <1>7 DEF etharp_output

\* Every step keeps the invariant, and sends only to mapped addresses.
LEMMA NextIInv == IInv /\ SentToMapping /\ [Next]_vars => IInv' /\ SentToMapping'
<1> SUFFICES ASSUME IInv, SentToMapping, [Next]_vars
             PROVE  TableOK(arp_table', held') /\ RestOK' /\ SentToMapping'
  BY DEF IInv
<1> USE DEF Frames, ArpFrames
<1>1. CASE etharp_tmr  BY <1>1, TimerStep
<1>2. ASSUME NEW n \in Netifs, netif_set_down(n) \/ netif_set_up(n) \/ netif_set_ipaddr(n)
      PROVE  TableOK(arp_table', held') /\ RestOK' /\ SentToMapping'
  <2>1. CASE netif_set_down(n)  BY <2>1, DownStep
  <2>2. CASE netif_set_up(n)
    <3>1. arp' \subseteq ArpFrames
      BY <2>2 DEF netif_set_up, Gratuitous, etharp_request, etharp_request_dst
    <3> QED  BY <2>2, <3>1 DEF netif_set_up, IInv, RestOK, SentToMapping
  <2>3. CASE netif_set_ipaddr(n)
    <3>1. arp' \subseteq ArpFrames
      BY <2>3 DEF netif_set_ipaddr, Gratuitous, etharp_request, etharp_request_dst
    <3> QED  BY <2>3, <3>1 DEF netif_set_ipaddr, IInv, RestOK, SentToMapping
  <2> QED  BY <1>2, <2>1, <2>2, <2>3
<1>3. ASSUME NEW n \in Netifs, NEW sip \in Hosts \cup {IPADDR_ANY}, NEW smac \in Macs,
             NEW op \in {"REQUEST", "REPLY"}, NEW toUs \in BOOLEAN,
             etharp_input(n, sip, smac, op, toUs)
      PROVE  TableOK(arp_table', held') /\ RestOK' /\ SentToMapping'
  <2>1. arp' \subseteq ArpFrames  BY <1>3 DEF etharp_input
  <2>2. PICK flag : etharp_update_arp_entry(n, sip, smac, flag, FALSE)
    BY <1>3 DEF etharp_input
  <2>3. TableOK(arp_table', held') /\ out' \in Frames /\ SentToMapping'  BY <2>2, UpdateStep
  <2> QED  BY <1>3, <2>1, <2>3 DEF etharp_input, IInv, RestOK
<1>4. ASSUME NEW n \in Netifs, NEW ip \in Hosts, NEW mac \in Macs,
             etharp_add_static_entry(n, ip, mac)
      PROVE  TableOK(arp_table', held') /\ RestOK' /\ SentToMapping'
  <2>1. TableOK(arp_table', held') /\ out' \in Frames /\ SentToMapping'
    BY <1>4, UpdateStep DEF etharp_add_static_entry
  <2> QED  BY <1>4, <2>1 DEF etharp_add_static_entry, IInv, RestOK
<1>5. ASSUME NEW ip \in Hosts, etharp_remove_static_entry(ip)
      PROVE  TableOK(arp_table', held') /\ RestOK' /\ SentToMapping'
  <2>1. TableOK(arp_table', held') /\ out' = << >>  BY <1>5, RemoveStaticStep
  <2> QED  BY <1>5, <2>1 DEF etharp_remove_static_entry, IInv, RestOK, SentToMapping
<1>6. ASSUME NEW n \in Netifs, NEW p \in Pbufs, NEW dst \in Hosts \cup {IPADDR_ANY, OffLink},
             NEW sent \in BOOLEAN, NEW taken \in BOOLEAN, etharp_output(n, p, dst, sent, taken)
      PROVE  TableOK(arp_table', held') /\ RestOK' /\ SentToMapping'
  BY <1>6, SendStep
<1>7. ASSUME NEW n \in Netifs, NEW ip \in Hosts, NEW sent \in BOOLEAN, etharp_probe(n, ip, sent)
      PROVE  TableOK(arp_table', held') /\ RestOK' /\ SentToMapping'
  <2>1. NULL \notin held  BY IInvImplies, EtharpAssumption DEF TypeOK
  <2>2. /\ TableOK(arp_table', held') /\ etharp_cached_entry' \in Idx
        /\ out' \in Frames /\ arp' \subseteq ArpFrames /\ SentToMapping'
    BY <1>7, <2>1, QueryStep DEF etharp_probe
  <2> QED  BY <1>7, <2>2 DEF etharp_probe, IInv, RestOK
<1>8. CASE UNCHANGED vars
  BY <1>8 DEF vars, IInv, RestOK, SentToMapping
<1> QED  BY <1>1, <1>2, <1>3, <1>4, <1>5, <1>6, <1>7, <1>8 DEF Next

\* In every reachable state the cache is well typed and every entry is younger
\* than its limit: etharp_tmr frees an entry before it is seen at the limit.
THEOREM TypeCorrect == Spec => []TypeOK
<1>1. Init => IInv /\ SentToMapping  BY InitIInv
<1>2. IInv /\ SentToMapping /\ [Next]_vars => IInv' /\ SentToMapping'  BY NextIInv
<1>3. IInv => TypeOK  BY IInvImplies
<1> QED  BY <1>1, <1>2, <1>3, PTL DEF Spec

\* No two entries in use have the same key, whichever of etharp_input,
\* etharp_query and etharp_add_static_entry created them.
THEOREM KeysUnique == Spec => []UniqueKey
<1>1. Init => IInv /\ SentToMapping  BY InitIInv
<1>2. IInv /\ SentToMapping /\ [Next]_vars => IInv' /\ SentToMapping'  BY NextIInv
<1>3. IInv => UniqueKey  BY IInvImplies
<1> QED  BY <1>1, <1>2, <1>3, PTL DEF Spec

\* Packets are only on unresolved entries and only for their host, over every
\* recycling etharp_find_entry does.
THEOREM PacketsForEntry == Spec => []QueuedForEntry
<1>1. Init => IInv /\ SentToMapping  BY InitIInv
<1>2. IInv /\ SentToMapping /\ [Next]_vars => IInv' /\ SentToMapping'  BY NextIInv
<1>3. IInv => QueuedForEntry  BY IInvImplies
<1> QED  BY <1>1, <1>2, <1>3, PTL DEF Spec

\* Every packet a queue holds is referenced exactly once, and every reference
\* belongs to a queue: no packet leaks or is freed twice, over all the ways in
\* which etharp_query queues and etharp_free_entry or a flush releases it.
THEOREM PacketsHeldOnce == Spec => []HeldInOneQueue
<1>1. Init => IInv /\ SentToMapping  BY InitIInv
<1>2. IInv /\ SentToMapping /\ [Next]_vars => IInv' /\ SentToMapping'  BY NextIInv
<1>3. IInv => HeldInOneQueue  BY IInvImplies
<1> QED  BY <1>1, <1>2, <1>3, PTL DEF Spec

\* Every unicast frame goes to the address the table maps its next hop to,
\* however stale the cached index of etharp_output is.
THEOREM FramesFollowTable == Spec => []SentToMapping
<1>1. Init => IInv /\ SentToMapping  BY InitIInv
<1>2. IInv /\ SentToMapping /\ [Next]_vars => IInv' /\ SentToMapping'  BY NextIInv
<1> QED  BY <1>1, <1>2, PTL DEF Spec

-----------------------------------------------------------------------------
(* What a step may never do, and the bounds of the queues: IInv with two   *)
(* additions.  The pool accounts for every packet held, and an entry in    *)
(* use is no older than the ticks since it was last asked about.           *)

QueueLimit == IF ARP_QUEUEING THEN ARP_QUEUE_LEN ELSE 1

PoolOK(H) == IsFiniteSet(H) /\ (ARP_QUEUEING => Cardinality(H) <= MEMP_NUM_ARP_QUEUE)

\* An entry that was asked about less than two ticks ago is in one of the two
\* states that block another request, or was renewed since.
QuietOK(e, t) ==
    /\ e.state = "STABLE" => t = 2 \/ e.ctime <= t
    /\ e.state = "STABLE_REREQUESTING_2" => t >= 1

StepInv ==
    /\ IInv
    /\ PoolOK(held)
    /\ \A i \in Idx : Len(arp_table[i].q) <= QueueLimit /\ QuietOK(arp_table[i], quiet[i])

\* What the proof shows of every step.
GoodStep ==
    /\ FlushStep /\ RecycleStep /\ StaticStep /\ SpacingStep
    /\ PoolOK(held')
    /\ \A i \in Idx : Len(arp_table'[i].q) <= QueueLimit /\ QuietOK(arp_table'[i], quiet'[i])

\* Releasing packets leaves the pool in order.
LEMMA PoolShrinks ==
    ASSUME NEW H, PoolOK(H), NEW G \in SUBSET H
    PROVE  PoolOK(G)
<1>1. IsFiniteSet(G) /\ Cardinality(G) <= Cardinality(H)  BY FS_Subset DEF PoolOK
<1>2. Cardinality(G) \in Nat /\ Cardinality(H) \in Nat  BY <1>1, FS_CardinalityType DEF PoolOK
<1> QED  BY <1>1, <1>2, EtharpAssumption DEF PoolOK

\* So does queueing a packet when the pool has an element left.
LEMMA PoolGrows ==
    ASSUME NEW H, PoolOK(H), ~PoolEmpty(H), NEW p
    PROVE  PoolOK(H \cup {p})
<1>1. /\ IsFiniteSet(H \cup {p}) /\ IsFiniteSet(H)
      /\ Cardinality(H \cup {p}) = IF p \in H THEN Cardinality(H) ELSE Cardinality(H) + 1
  BY FS_AddElement DEF PoolOK
<1>2. Cardinality(H) \in Nat  BY <1>1, FS_CardinalityType
<1> HIDE DEF PoolEmpty
<1>3. ARP_QUEUEING => Cardinality(H) < MEMP_NUM_ARP_QUEUE
  BY <1>2, EtharpAssumption DEF PoolEmpty
<1> QED  BY <1>1, <1>2, <1>3, EtharpAssumption DEF PoolOK

\* A queue that is within its limit stays so when a packet is put on it.
LEMMA EnqueuedBounded ==
    ASSUME NEW e \in etharp_entry, NEW pkt \in Packet, Len(e.q) <= QueueLimit
    PROVE  Len(Enqueued(e, pkt)) <= QueueLimit
<1>0. e.q \in Seq(Packet)  BY DEF etharp_entry
<1>1. CASE ~ARP_QUEUEING
  <2> Len(<<pkt>>) = 1  OBVIOUS
  <2> QED  BY <1>1 DEF Enqueued, QueueLimit
<1>2. CASE ARP_QUEUEING /\ Len(e.q) >= ARP_QUEUE_LEN
  <2>1. e.q # << >> /\ Len(e.q) = ARP_QUEUE_LEN  BY <1>0, <1>2, EtharpAssumption DEF QueueLimit
  <2>2. Tail(e.q) \in Seq(Packet) /\ Len(Tail(e.q)) = Len(e.q) - 1  BY <1>0, <2>1
  <2>3. Len(Append(Tail(e.q), pkt)) = Len(e.q)  BY <1>0, <2>2
  <2> QED  BY <1>2, <2>1, <2>3 DEF Enqueued, QueueLimit
<1>3. CASE ARP_QUEUEING /\ ~(Len(e.q) >= ARP_QUEUE_LEN)
  <2>1. Len(Append(e.q, pkt)) = Len(e.q) + 1 /\ Len(e.q) \in Nat  BY <1>0
  <2> QED  BY <1>3, <2>1, EtharpAssumption DEF Enqueued, QueueLimit
<1> QED  BY <1>1, <1>2, <1>3

\* The entry recycled holds packets only if every other entry is static, or
\* holds packets and is no older.
LEMMA VictimLast ==
    ASSUME arp_table \in [Idx -> etharp_entry], Victim \in Idx,
           arp_table[Victim].state = "PENDING", arp_table[Victim].q # << >>
    PROVE  \A j \in Idx : \/ arp_table[j].state = "STATIC"
                          \/ /\ arp_table[j].state = "PENDING" /\ arp_table[j].q # << >>
                             /\ arp_table[j].ctime <= arp_table[Victim].ctime
<1>0. \A S \in SUBSET Idx : S # {} => /\ Oldest(S) \in S
                                     /\ \A j \in S : arp_table[j].ctime <= arp_table[Oldest(S)].ctime
  BY OldestIn
<1>1. EmptyEntries = {}
  <2> SUFFICES ASSUME EmptyEntries # {} PROVE FALSE  OBVIOUS
  <2>1. Victim = First(EmptyEntries)  BY DEF Victim
  <2>2. First(EmptyEntries) \in EmptyEntries  BY FirstIn DEF EmptyEntries
  <2> QED  BY <2>1, <2>2 DEF EmptyEntries
<1>2. StableEntries = {}
  <2> SUFFICES ASSUME StableEntries # {} PROVE FALSE  OBVIOUS
  <2>1. Victim = Oldest(StableEntries)  BY <1>1 DEF Victim
  <2>2. Oldest(StableEntries) \in StableEntries  BY <1>0 DEF StableEntries
  <2> QED  BY <2>1, <2>2 DEF StableEntries, Resolved
<1>3. PendingEntries(FALSE) = {}
  <2> SUFFICES ASSUME PendingEntries(FALSE) # {} PROVE FALSE  OBVIOUS
  <2>1. Victim = Oldest(PendingEntries(FALSE))  BY <1>1, <1>2 DEF Victim
  <2>2. PendingEntries(FALSE) \in SUBSET Idx  BY DEF PendingEntries
  <2>3. Oldest(PendingEntries(FALSE)) \in PendingEntries(FALSE)  BY <1>0, <2>2
  <2> QED  BY <2>1, <2>3 DEF PendingEntries
<1>4. Victim \in PendingEntries(TRUE)  BY DEF PendingEntries
<1>5. Victim = Oldest(PendingEntries(TRUE))  BY <1>1, <1>2, <1>3, <1>4 DEF Victim
<1>6. \A j \in PendingEntries(TRUE) : arp_table[j].ctime <= arp_table[Victim].ctime
  <2> PendingEntries(TRUE) \in SUBSET Idx  BY DEF PendingEntries
  <2> QED  BY <1>0, <1>4, <1>5
<1>7. ASSUME NEW j \in Idx, arp_table[j].state # "STATIC"
      PROVE  j \in PendingEntries(TRUE)
  <2>1. arp_table[j].state \in etharp_state  BY DEF etharp_entry
  <2>2. arp_table[j].state = "PENDING"
    BY <1>1, <1>2, <1>7, <2>1 DEF EmptyEntries, StableEntries, etharp_state, Resolved
  <2> QED  BY <1>3, <2>2 DEF PendingEntries
<1> QED  BY <1>6, <1>7 DEF PendingEntries

-----------------------------------------------------------------------------
(* Each operation                                                          *)

\* A step that changes at most entry i, to one without packets, and sends
\* nothing is good unless it touches a static entry or asks again.
LEMMA QuietReplace ==
    ASSUME StepInv, NEW i \in Idx, NEW e \in etharp_entry,
           arp_table' = [arp_table EXCEPT ![i] = e], out' = << >>, quiet' = quiet,
           Len(e.q) <= QueueLimit, QuietOK(e, quiet[i]), PoolOK(held'),
           e.state = "STABLE_REREQUESTING_1" => arp_table[i].state = "STABLE_REREQUESTING_1",
           arp_table[i].state = "PENDING" /\ e.state \in Resolved => ~SameKey(arp_table[i], e),
           arp_table[i].state = "STATIC" => e = arp_table[i],
           \/ SameKey(arp_table[i], e)
           \/ arp_table[i].q = << >>
           \/ i = Victim
    PROVE  GoodStep
<1>1. arp_table \in [Idx -> etharp_entry] /\ \A j \in Idx : EntryOK(arp_table[j])
  BY DEF StepInv, IInv, TableOK
<1>2. arp_table'[i] = e /\ \A j \in Idx \ {i} : arp_table'[j] = arp_table[j]  BY <1>1
<1>3. FlushStep
  <2>1. \A j \in Idx : arp_table[j].state = "PENDING" /\ arp_table'[j].state \in Resolved
                       => ~SameKey(arp_table[j], arp_table'[j])
    BY <1>2 DEF Resolved
  <2> QED  BY <2>1 DEF FlushStep
<1>4. RecycleStep
  <2> SUFFICES ASSUME NEW j \in Idx, arp_table[j].q # << >>,
                      ~SameKey(arp_table[j], arp_table'[j]), NEW k \in Idx \ {j}
               PROVE  \/ arp_table[k].state = "STATIC"
                      \/ /\ arp_table[k].state = "PENDING" /\ arp_table[k].q # << >>
                         /\ arp_table[k].ctime <= arp_table[j].ctime
    BY DEF RecycleStep
  <2>1. j = i  BY <1>2 DEF SameKey
  <2>2. i = Victim /\ arp_table[i].state = "PENDING"  BY <1>1, <1>2, <2>1 DEF EntryOK
  <2> QED  BY <1>1, <2>1, <2>2, VictimLast
<1>5. StaticStep  BY <1>2 DEF StaticStep
<1>6. SpacingStep  BY <1>2 DEF SpacingStep
<1>7. \A j \in Idx : Len(arp_table'[j].q) <= QueueLimit /\ QuietOK(arp_table'[j], quiet'[j])
  BY <1>2 DEF StepInv
<1> QED  BY <1>3, <1>4, <1>5, <1>6, <1>7 DEF GoodStep

\* A step that leaves the table and the packets alone, and sends at most one
\* packet that is not held, is good.
LEMMA TableUntouched ==
    ASSUME StepInv, arp_table' = arp_table, held' = held, quiet' = quiet,
           out' = << >> \/ \E f : out' = <<f>> /\ f.pkt.id \notin held
    PROVE  GoodStep
<1>1. FlushStep
  <2>1. \A k \in DOMAIN out' : k = 1 /\ out'[k].pkt.id \notin held'  OBVIOUS
  <2>2. \A j \in Idx : ~(arp_table[j].state = "PENDING" /\ arp_table'[j].state \in Resolved)
    BY DEF Resolved
  <2> QED  BY <2>1, <2>2 DEF FlushStep
<1>2. RecycleStep  BY DEF RecycleStep, SameKey
<1>3. StaticStep  BY DEF StaticStep
<1>4. SpacingStep  BY DEF SpacingStep
<1> QED  BY <1>1, <1>2, <1>3, <1>4 DEF GoodStep, StepInv

\* Learning a mapping.
LEMMA UpdateGood ==
    ASSUME StepInv, NEW n \in Netifs, NEW ip \in Hosts \cup {IPADDR_ANY}, NEW mac \in Macs,
           NEW flag, NEW static \in BOOLEAN, quiet' = quiet,
           etharp_update_arp_entry(n, ip, mac, flag, static)
    PROVE  GoodStep
<1> DEFINE i == etharp_find_entry(ip, flag, n)
           found == Match(ip, n) # {}
           e == [state |-> IF static THEN "STATIC" ELSE "STABLE", ipaddr |-> ip, netif |-> n,
                 ethaddr |-> mac, ctime |-> 0, q |-> << >>]
<1>1. CASE \/ NonUnicast(ip) \/ i = ERR_MEM
           \/ ~static /\ found /\ arp_table[i].state = "STATIC"
  <2>1. out' = << >> /\ arp_table' = arp_table /\ held' = held
    BY <1>1 DEF etharp_update_arp_entry
  <2> QED  BY <2>1, TableUntouched
<1>2. CASE ~(\/ NonUnicast(ip) \/ i = ERR_MEM
             \/ ~static /\ found /\ arp_table[i].state = "STATIC")
  <2>1. /\ arp_table' = [arp_table EXCEPT ![i] = e]
        /\ held' = held \ Ids(arp_table[i].q)
        /\ out' = IF found THEN Flush(n, mac, arp_table[i].q) ELSE << >>
    BY <1>2 DEF etharp_update_arp_entry
  <2>2. arp_table \in [Idx -> etharp_entry] /\ i # ERR_MEM /\ ip \in Hosts
        /\ quiet \in [Idx -> 0 .. 2] /\ QueuesOK(arp_table, held)
        /\ \A j \in Idx : EntryOK(arp_table[j])
    BY <1>2 DEF StepInv, IInv, TableOK, RestOK, NonUnicast
  <2>3. /\ i \in Idx /\ (found => i \in Match(ip, n))
        /\ (~found => arp_table[i].state # "STATIC")
    BY <2>2, FindEntry
  <2>4. /\ e \in etharp_entry /\ e.q = << >> /\ e.ethaddr = mac
        /\ (e.state = "STATIC" \/ (~static /\ e.state = "STABLE")) /\ e.state \in Resolved
        /\ Len(e.q) <= QueueLimit /\ QuietOK(e, quiet[i])
    <3>1. e \in etharp_entry /\ 0 \in 0 .. ARP_MAXAGE
      BY <2>2, EtharpAssumption DEF etharp_entry, etharp_state, Resolved
    <3>2. 0 <= quiet[i] /\ Len(<< >>) = 0  BY <2>2, <2>3
    <3>3. 0 <= QueueLimit  BY EtharpAssumption DEF QueueLimit
    <3>4. QuietOK(e, quiet[i])  BY <3>2 DEF QuietOK
    <3>5. e.q = << >> /\ e.ethaddr = mac
          /\ (e.state = "STATIC" \/ (~static /\ e.state = "STABLE")) /\ e.state \in Resolved
      <4>1. CASE static  BY <4>1 DEF Resolved
      <4>2. CASE ~static  BY <4>2 DEF Resolved
      <4> QED  BY <4>1, <4>2
    <3> HIDE DEF e, i
    <3> QED  BY <3>1, <3>2, <3>3, <3>4, <3>5
  <2>5. PoolOK(held')  BY <2>1, PoolShrinks DEF StepInv
  <2>6. CASE ~found
    <3>1. i = Victim  BY <2>2, <2>6 DEF etharp_find_entry
    <3>2. arp_table[i].state = "EMPTY" \/ ~SameKey(arp_table[i], e)
      BY <2>3, <2>6 DEF Match, SameKey
    <3>3. e.state # "STABLE_REREQUESTING_1" /\ out' = << >>  BY <2>1, <2>6
    <3> HIDE DEF i, e, found
    <3> QED  BY <2>1, <2>3, <2>4, <2>5, <2>6, <3>1, <3>2, <3>3, QuietReplace
  <2>7. CASE found
    <3> DEFINE q == arp_table[i].q
    <3>1. arp_table[i].state # "EMPTY" /\ SameKey(arp_table[i], e)
      BY <2>3, <2>7, EtharpAssumption DEF Match, SameKey
    <3>2. q \in Seq(Packet)  BY <2>2, <2>3 DEF etharp_entry
    <3>3. out' = [k \in 1 .. Len(q) |-> IpFrame(n, mac, q[k])]  BY <2>1, <2>7 DEF Flush
    <3>4. Len(q) \in Nat /\ DOMAIN q = 1 .. Len(q)  BY <3>2
    <3>5. DOMAIN out' = 1 .. Len(q) /\ Len(out') = Len(q)
          /\ \A k \in DOMAIN q : out'[k].pkt = q[k] /\ out'[k].dst = mac
      BY <3>3, <3>4 DEF IpFrame
    <3>6. static \/ arp_table[i].state # "STATIC"  BY <1>2, <2>7
    <3> HIDE DEF i, e
    <3>7. arp_table'[i] = e /\ \A j \in Idx \ {i} : arp_table'[j] = arp_table[j]  BY <2>1, <2>2, <2>3
    <3>8. FlushStep
      <4>1. \A j \in Idx \ {i} : ~(arp_table[j].state = "PENDING" /\ arp_table'[j].state \in Resolved)
        BY <3>7 DEF Resolved
      <4>2. \A k \in DOMAIN out' : out'[k].pkt.id \in Ids(q) /\ k \in DOMAIN q
        BY <3>4, <3>5 DEF Ids
      <4>3. \A k \in DOMAIN out' : out'[k].pkt.id \notin held'  BY <2>1, <4>2
      <4>4. \A k, l \in DOMAIN q : q[k].id = q[l].id => k = l  BY <2>2, <2>3 DEF QueuesOK
      <4>5. \A k, l \in DOMAIN out' : out'[k].pkt.id = out'[l].pkt.id => k = l
        BY <4>2, <4>4, <3>5
      <4> QED  BY <4>1, <4>3, <4>5, <2>4, <3>5, <3>7 DEF FlushStep
    <3>9. RecycleStep  BY <3>1, <3>7 DEF RecycleStep, SameKey
    <3>10. StaticStep  BY <2>4, <3>1, <3>6, <3>7 DEF StaticStep
    <3>11. SpacingStep  BY <2>4, <3>7 DEF SpacingStep
    <3>12. \A j \in Idx : Len(arp_table'[j].q) <= QueueLimit /\ QuietOK(arp_table'[j], quiet'[j])
      BY <2>4, <3>7 DEF StepInv
    <3> QED  BY <2>5, <3>8, <3>9, <3>10, <3>11, <3>12 DEF GoodStep
  <2> QED  BY <2>6, <2>7
<1> QED  BY <1>1, <1>2

\* Resolving an address, with or without a packet that is not held yet.
LEMMA QueryGood ==
    ASSUME StepInv, NEW n \in Netifs, NEW ip \in Hosts \cup {IPADDR_ANY},
           NEW p \in Pbufs \cup {NULL}, p \notin held,
           NEW sent \in BOOLEAN, NEW taken \in BOOLEAN, quiet' = quiet,
           etharp_query(n, ip, p, sent, taken)
    PROVE  GoodStep
<1> DEFINE i     == etharp_find_entry(ip, "TRY_HARD", n)
           isnew == Match(ip, n) = {}
           e     == IF isnew
                    THEN [Claimed(i, ip, n) EXCEPT !.state = "PENDING", !.netif = n]
                    ELSE IF p = NULL /\ sent /\ arp_table[i].state = "PENDING"
                    THEN [arp_table[i] EXCEPT !.ctime = 0]
                    ELSE arp_table[i]
           kept  == IF isnew THEN held \ Ids(arp_table[i].q) ELSE held
           pkt   == [id |-> p, netif |-> n, hop |-> ip]
<1>1. CASE NonUnicast(ip) \/ i = ERR_MEM
  <2>1. out' = << >> /\ arp_table' = arp_table /\ held' = held  BY <1>1 DEF etharp_query
  <2> QED  BY <2>1, TableUntouched
<1>2. CASE ~(NonUnicast(ip) \/ i = ERR_MEM)
  <2>1. IF p # NULL /\ e.state \in Resolved
        THEN /\ out' = <<IpFrame(n, e.ethaddr, pkt)>>
             /\ UNCHANGED <<arp_table, held>>
        ELSE /\ out' = << >>
             /\ IF p # NULL /\ taken /\ ~PoolEmpty(kept)
                THEN /\ arp_table' = [arp_table EXCEPT ![i] = [e EXCEPT !.q = Enqueued(e, pkt)]]
                     /\ held' = (kept \cup {p}) \ PushedOut(e)
                ELSE /\ arp_table' = [arp_table EXCEPT ![i] = e]
                     /\ held' = kept
    BY <1>2 DEF etharp_query
  <2>2. /\ arp_table \in [Idx -> etharp_entry] /\ i # ERR_MEM /\ ip \in Hosts
        /\ \A j \in Idx : EntryOK(arp_table[j])
    BY <1>2 DEF StepInv, IInv, TableOK, NonUnicast
  <2>3. /\ i \in Idx /\ (~isnew => i \in Match(ip, n))
        /\ (isnew => arp_table[i].state # "STATIC")
    BY <2>2, FindEntry
  <2>4. arp_table[i] \in etharp_entry /\ EntryOK(arp_table[i])  BY <2>2, <2>3
  <2>5. /\ e \in etharp_entry
        /\ isnew => /\ e.state = "PENDING" /\ e.q = << >> /\ i = Victim
        /\ ~isnew => /\ e.q = arp_table[i].q /\ e.state = arp_table[i].state
                     /\ SameKey(arp_table[i], e) /\ arp_table[i].state # "EMPTY"
                     /\ (e.state # "PENDING" => e = arp_table[i])
    <3>1. CASE isnew
      <4> DEFINE f == etharp_free_entry(arp_table[i])
      <4>1. f.q = << >> /\ f \in etharp_entry  BY <2>4, FreedOK DEF EntryOK
      <4>2. e = [f EXCEPT !.ipaddr = ip, !.ctime = 0, !.netif = n, !.state = "PENDING"]
        <5> HIDE DEF f
        <5>1. Claimed(i, ip, n) = [f EXCEPT !.ipaddr = ip, !.ctime = 0,
                 !.netif = IF ETHARP_TABLE_MATCH_NETIF THEN n ELSE @]
          BY DEF Claimed, f
        <5> QED  BY <3>1, <4>1, <5>1 DEF etharp_entry
      <4>3. i = Victim  BY <3>1 DEF etharp_find_entry
      <4> HIDE DEF f, e, i
      <4>4. 0 \in 0 .. ARP_MAXAGE /\ "PENDING" \in etharp_state
        BY EtharpAssumption DEF etharp_state
      <4>5. e \in etharp_entry /\ e.state = "PENDING" /\ e.q = << >>
        BY <2>2, <4>1, <4>2, <4>4 DEF etharp_entry
      <4> QED  BY <3>1, <4>3, <4>5
    <3>2. CASE ~isnew
      <4>0. arp_table[i].state # "EMPTY"  BY <2>3, <3>2 DEF Match
      <4>1. CASE p = NULL /\ sent /\ arp_table[i].state = "PENDING"
        <5>1. e = [arp_table[i] EXCEPT !.ctime = 0]  BY <3>2, <4>1
        <5>2. 0 \in 0 .. ARP_MAXAGE  BY EtharpAssumption
        <5> HIDE DEF e, i
        <5>3. /\ e \in etharp_entry /\ e.q = arp_table[i].q /\ e.state = arp_table[i].state
              /\ e.ipaddr = arp_table[i].ipaddr /\ e.netif = arp_table[i].netif
          BY <2>4, <5>1, <5>2 DEF etharp_entry
        <5> QED  BY <3>2, <4>0, <4>1, <5>3 DEF SameKey
      <4>2. CASE ~(p = NULL /\ sent /\ arp_table[i].state = "PENDING")
        <5>1. e = arp_table[i]  BY <3>2, <4>2
        <5> HIDE DEF e, i
        <5> QED  BY <2>4, <3>2, <4>0, <5>1 DEF SameKey
      <4> QED  BY <4>1, <4>2
    <3> QED  BY <3>1, <3>2
  <2>6. CASE p # NULL /\ e.state \in Resolved
    <3>1. out' = <<IpFrame(n, e.ethaddr, pkt)>> /\ arp_table' = arp_table /\ held' = held
      BY <2>1, <2>6
    <3>2. IpFrame(n, e.ethaddr, pkt).pkt.id = p  BY DEF IpFrame
    <3> HIDE DEF e, i, pkt
    <3> QED  BY <3>1, <3>2, TableUntouched
  <2>7. CASE ~(p # NULL /\ e.state \in Resolved)
    <3> HIDE DEF e, i, isnew
    <3>1. out' = << >>  BY <2>1, <2>7
    <3>2. PoolOK(kept)  BY PoolShrinks DEF StepInv
    <3>3. Len(e.q) <= QueueLimit
      <4>1. Len(arp_table[i].q) <= QueueLimit  BY <2>3 DEF StepInv
      <4>2. 0 <= QueueLimit /\ Len(<< >>) = 0  BY EtharpAssumption DEF QueueLimit
      <4> QED  BY <2>5, <4>1, <4>2
    <3>4. QuietOK(arp_table[i], quiet[i])  BY <2>3 DEF StepInv
    <3>5. QuietOK(e, quiet[i])  BY <2>5, <3>4 DEF QuietOK
    <3>6. /\ e.state = "STABLE_REREQUESTING_1" => arp_table[i].state = "STABLE_REREQUESTING_1"
          /\ ~(arp_table[i].state = "PENDING" /\ e.state \in Resolved)
          /\ (arp_table[i].state = "STATIC" => e = arp_table[i])
          /\ (SameKey(arp_table[i], e) \/ i = Victim)
      BY <2>3, <2>5 DEF Resolved
    <3>7. CASE arp_table' = [arp_table EXCEPT ![i] = e] /\ held' = kept
      BY <2>3, <2>5, <3>1, <3>2, <3>3, <3>5, <3>6, <3>7, QuietReplace
    <3>8. CASE /\ p # NULL /\ ~PoolEmpty(kept)
               /\ arp_table' = [arp_table EXCEPT ![i] = [e EXCEPT !.q = Enqueued(e, pkt)]]
               /\ held' = (kept \cup {p}) \ PushedOut(e)
      <4> DEFINE r == Enqueued(e, pkt)
                 d == [e EXCEPT !.q = r]
      <4>1. pkt \in Packet  BY <2>2, <3>8 DEF Packet
      <4>2. Len(r) <= QueueLimit /\ r \in Seq(Packet)
        BY <2>5, <3>3, <4>1, EnqueuedBounded, EnqueuedShape DEF EnqueuedBy
      <4>3. e.state = "PENDING"
        <5>1. e.state \in etharp_state /\ e.state # "EMPTY"  BY <2>5 DEF etharp_entry
        <5> QED  BY <2>7, <3>8, <5>1 DEF etharp_state
      <4> HIDE DEF r, kept
      <4>4. /\ d \in etharp_entry /\ d.q = r /\ d.state = "PENDING"
            /\ d.ipaddr = e.ipaddr /\ d.netif = e.netif
        BY <2>5, <4>2, <4>3 DEF etharp_entry
      <4>5. PoolOK(held')
        <5>1. PoolOK(kept \cup {p})  BY <3>2, <3>8, PoolGrows
        <5> QED  BY <3>8, <5>1, PoolShrinks
      <4>6. arp_table' = [arp_table EXCEPT ![i] = d]  BY <3>8 DEF r
      <4> HIDE DEF d
      <4>7. QuietOK(d, quiet[i])  BY <4>4 DEF QuietOK
      <4>8. arp_table[i].state # "STATIC"  BY <2>3, <2>5, <4>3
      <4>9. SameKey(arp_table[i], d) \/ i = Victim  BY <3>6, <4>4 DEF SameKey
      <4>10. ~(arp_table[i].state = "PENDING" /\ d.state \in Resolved)  BY <4>4 DEF Resolved
      <4>11. Len(d.q) <= QueueLimit  BY <4>2, <4>4
      <4> QED
        BY <2>3, <3>1, <4>4, <4>5, <4>6, <4>7, <4>8, <4>9, <4>10, <4>11, QuietReplace
    <3> QED  BY <2>1, <2>7, <3>7, <3>8
  <2> QED  BY <2>6, <2>7
<1> QED  BY <1>1, <1>2

\* Sending through a resolved entry asks again only after two quiet ticks.
LEMMA OutputGood ==
    ASSUME StepInv, NEW n \in Netifs, NEW p \in Pbufs \ held, NEW hop \in Hosts, NEW i \in Idx,
           Resolves(i, n, hop), NEW sent \in BOOLEAN,
           etharp_output_to_arp_index(n, [id |-> p, netif |-> n, hop |-> hop], i, sent)
    PROVE  GoodStep
<1> DEFINE e == arp_table[i]
           pkt == [id |-> p, netif |-> n, hop |-> hop]
           ask == e.state = "STABLE" /\ e.ctime >= ARP_AGE_REREQUEST_USED_UNICAST /\ sent
           f == [e EXCEPT !.state = "STABLE_REREQUESTING_1"]
<1>1. /\ arp_table \in [Idx -> etharp_entry] /\ e \in etharp_entry
      /\ quiet \in [Idx -> 0 .. 2]
  BY DEF StepInv, IInv, TableOK, RestOK
<1>2. /\ out' = <<IpFrame(n, e.ethaddr, pkt)>> /\ held' = held
      /\ arp_table' = IF ask THEN [arp_table EXCEPT ![i].state = "STABLE_REREQUESTING_1"]
                      ELSE arp_table
      /\ quiet' = IF ask THEN [quiet EXCEPT ![i] = 0] ELSE quiet
  BY DEF etharp_output_to_arp_index
<1>3. IpFrame(n, e.ethaddr, pkt).pkt.id \notin held  BY DEF IpFrame
<1>4. CASE ~ask  BY <1>2, <1>3, <1>4, TableUntouched
<1>5. CASE ask
  <2>1. arp_table' = [arp_table EXCEPT ![i] = f] /\ quiet' = [quiet EXCEPT ![i] = 0]
    BY <1>1, <1>2, <1>5
  <2>2. f.q = e.q /\ f.state = "STABLE_REREQUESTING_1" /\ f.ipaddr = e.ipaddr /\ f.netif = e.netif
    BY <1>1 DEF etharp_entry
  <2>3. quiet[i] = 2
    <3>1. quiet[i] = 2 \/ e.ctime <= quiet[i]  BY <1>5 DEF StepInv, QuietOK
    <3>2. e.ctime >= 2 /\ e.ctime \in Nat /\ quiet[i] \in 0 .. 2
      BY <1>1, <1>5, EtharpAssumption DEF ARP_AGE_REREQUEST_USED_UNICAST, etharp_entry
    <3> QED  BY <3>1, <3>2
  <2>4. e.state = "STABLE"  BY <1>5
  <2> HIDE DEF f
  <2>5. arp_table'[i] = f /\ \A j \in Idx \ {i} : arp_table'[j] = arp_table[j] /\ quiet'[j] = quiet[j]
    BY <1>1, <2>1
  <2>6. FlushStep
    <3>1. \A j \in Idx : ~(arp_table[j].state = "PENDING" /\ arp_table'[j].state \in Resolved)
      BY <2>4, <2>5 DEF Resolved
    <3>2. \A k \in DOMAIN out' : k = 1 /\ out'[k].pkt.id \notin held'  BY <1>2, <1>3
    <3> QED  BY <3>1, <3>2 DEF FlushStep
  <2>7. RecycleStep  BY <2>2, <2>5 DEF RecycleStep, SameKey
  <2>8. StaticStep  BY <2>4, <2>5 DEF StaticStep
  <2>9. SpacingStep  BY <2>3, <2>5 DEF SpacingStep
  <2>10. \A j \in Idx : Len(arp_table'[j].q) <= QueueLimit /\ QuietOK(arp_table'[j], quiet'[j])
    <3>1. QuietOK(f, quiet'[i])  BY <2>2 DEF QuietOK
    <3>2. Len(f.q) <= QueueLimit  BY <2>2 DEF StepInv
    <3> QED  BY <2>5, <3>1, <3>2 DEF StepInv
  <2> QED  BY <1>2, <2>6, <2>7, <2>8, <2>9, <2>10 DEF GoodStep, StepInv
<1> QED  BY <1>4, <1>5

\* A step that frees the entries of G, and neither sends nor asks, is good if
\* the static entries of G are those of an interface that goes down.
LEMMA FreeGood ==
    ASSUME StepInv, NEW G \in SUBSET Idx, arp_table' \in [Idx -> etharp_entry], out' = << >>,
           \A j \in G : arp_table'[j].state = "EMPTY" /\ arp_table'[j].q = << >>,
           \A j \in G : arp_table[j].state = "STATIC" =>
                            up[arp_table[j].netif] /\ ~up'[arp_table[j].netif],
           held' \subseteq held,
           \A j \in Idx \ G :
               /\ SameKey(arp_table[j], arp_table'[j])
               /\ arp_table'[j].q = arp_table[j].q
               /\ arp_table[j].state = "STATIC" => arp_table'[j] = arp_table[j]
               /\ arp_table[j].state = "PENDING" => arp_table'[j].state = "PENDING"
               /\ arp_table'[j].state = "STABLE_REREQUESTING_1" =>
                      arp_table[j].state = "STABLE_REREQUESTING_1"
               /\ QuietOK(arp_table'[j], quiet'[j])
    PROVE  GoodStep
<1>1. FlushStep  BY DEF FlushStep, Resolved
<1>2. RecycleStep  BY DEF RecycleStep
<1>3. StaticStep  BY DEF StaticStep
<1>4. SpacingStep
  <2>1. \A j \in Idx : arp_table'[j].state = "STABLE_REREQUESTING_1" =>
                           arp_table[j].state = "STABLE_REREQUESTING_1"
    OBVIOUS
  <2> QED  BY <2>1 DEF SpacingStep
<1>5. PoolOK(held')  BY PoolShrinks DEF StepInv
<1>6. 0 <= QueueLimit /\ Len(<< >>) = 0  BY EtharpAssumption DEF QueueLimit
<1>7. \A j \in Idx : Len(arp_table'[j].q) <= QueueLimit  BY <1>6 DEF StepInv
<1>8. \A j \in Idx : QuietOK(arp_table'[j], quiet'[j])
  <2>1. \A j \in G : QuietOK(arp_table'[j], quiet'[j])  BY DEF QuietOK
  <2> QED  BY <2>1
<1> QED  BY <1>1, <1>2, <1>3, <1>4, <1>5, <1>7, <1>8 DEF GoodStep

\* The timer.
LEMMA TimerGood ==
    ASSUME StepInv, etharp_tmr
    PROVE  GoodStep
<1> DEFINE G == {j \in Idx : Expires(arp_table[j])}
<1>1. /\ \A j \in Idx : arp_table[j] \in etharp_entry /\ EntryOK(arp_table[j])
      /\ quiet \in [Idx -> 0 .. 2] /\ arp_table' \in [Idx -> etharp_entry]
  BY TimerStep DEF StepInv, IInv, TableOK, RestOK
<1>2. /\ arp_table' = [j \in Idx |-> Aged(arp_table[j])]
      /\ quiet' = [j \in Idx |-> IF quiet[j] < 2 THEN quiet[j] + 1 ELSE 2]
      /\ held' \subseteq held /\ out' = << >>
  BY DEF etharp_tmr
<1>3. ASSUME NEW j \in G
      PROVE  /\ arp_table'[j].state = "EMPTY" /\ arp_table'[j].q = << >>
             /\ arp_table[j].state # "STATIC"
  <2>1. arp_table'[j] = etharp_free_entry(arp_table[j])  BY <1>2 DEF Aged, Expires
  <2>2. arp_table[j].state # "STATIC"  BY DEF Expires
  <2> QED  BY <1>1, <2>1, <2>2, FreedOK
<1>4. ASSUME NEW j \in Idx \ G
      PROVE  /\ SameKey(arp_table[j], arp_table'[j])
             /\ arp_table'[j].q = arp_table[j].q
             /\ arp_table[j].state = "STATIC" => arp_table'[j] = arp_table[j]
             /\ arp_table[j].state = "PENDING" => arp_table'[j].state = "PENDING"
             /\ arp_table'[j].state = "STABLE_REREQUESTING_1" =>
                    arp_table[j].state = "STABLE_REREQUESTING_1"
             /\ QuietOK(arp_table'[j], quiet'[j])
  <2> DEFINE e == arp_table[j]
             t == quiet[j]
             u == quiet'[j]
  <2>0. arp_table'[j] = Aged(e) /\ t \in 0 .. 2 /\ u = (IF t < 2 THEN t + 1 ELSE 2)
    BY <1>1, <1>2
  <2>1. CASE e.state \in {"EMPTY", "STATIC"}
    <3>1. arp_table'[j] = e  BY <2>0, <2>1 DEF Aged
    <3> QED  BY <2>1, <3>1 DEF SameKey, QuietOK
  <2>2. CASE e.state \notin {"EMPTY", "STATIC"}
    <3> DEFINE s == CASE e.state = "STABLE_REREQUESTING_1" -> "STABLE_REREQUESTING_2"
                      [] e.state = "STABLE_REREQUESTING_2" -> "STABLE"
                      [] OTHER -> e.state
               f == [e EXCEPT !.ctime = @ + 1, !.state = s]
    <3>1. arp_table'[j] = f  BY <1>1, <2>0, <2>2 DEF Aged, etharp_entry
    <3>2. /\ s = "STABLE" => e.state = "STABLE" \/ e.state = "STABLE_REREQUESTING_2"
          /\ s = "STABLE_REREQUESTING_2" => \/ e.state = "STABLE_REREQUESTING_1"
                                            \/ e.state = "STABLE_REREQUESTING_2"
          /\ s # "STABLE_REREQUESTING_1"
          /\ e.state = "PENDING" => s = "PENDING"
          /\ e.state = "STABLE_REREQUESTING_2" => s = "STABLE"
      OBVIOUS
    <3> HIDE DEF s
    <3>3. /\ f.q = e.q /\ f.ipaddr = e.ipaddr /\ f.netif = e.netif
          /\ f.ctime = e.ctime + 1 /\ f.state = s /\ e.ctime \in Nat
      BY <1>1, EtharpAssumption DEF etharp_entry
    <3>4. QuietOK(e, t)  BY DEF StepInv
    <3> HIDE DEF f
    <3>5. QuietOK(f, u)
      <4>1. CASE s = "STABLE" /\ e.state = "STABLE"  BY <4>1, <2>0, <3>3, <3>4 DEF QuietOK
      <4>2. CASE s = "STABLE" /\ e.state = "STABLE_REREQUESTING_2"
        BY <4>2, <2>0, <3>3, <3>4 DEF QuietOK
      <4>3. CASE s = "STABLE_REREQUESTING_2"
        <5> u >= 1  BY <2>0
        <5> QED  BY <4>3, <3>3 DEF QuietOK
      <4>4. CASE s # "STABLE" /\ s # "STABLE_REREQUESTING_2"  BY <4>4, <3>3 DEF QuietOK
      <4> QED  BY <3>2, <4>1, <4>2, <4>3, <4>4
    <3> QED  BY <2>2, <3>1, <3>2, <3>3, <3>5 DEF SameKey
  <2> QED  BY <2>1, <2>2
<1> HIDE DEF G
<1>5. G \in SUBSET Idx  BY DEF G
<1> QED  BY <1>1, <1>2, <1>3, <1>4, <1>5, FreeGood

\* Removing a static entry.
LEMMA RemoveStaticGood ==
    ASSUME StepInv, NEW ip \in Hosts, etharp_remove_static_entry(ip)
    PROVE  GoodStep
<1> DEFINE i == etharp_find_entry(ip, "FIND_ONLY", NULL)
<1>1. /\ arp_table \in [Idx -> etharp_entry] /\ \A j \in Idx : EntryOK(arp_table[j])
  BY DEF StepInv, IInv, TableOK
<1>2. i \in Idx /\ i # ERR_MEM  BY <1>1, FindEntry DEF etharp_remove_static_entry
<1>3. i \in Match(ip, NULL)
  <2>1. Match(ip, NULL) # {}  BY <1>2 DEF etharp_find_entry
  <2> QED  BY <1>1, <1>2, <2>1, FindEntry
<1>4. /\ arp_table' = [arp_table EXCEPT ![i] = etharp_free_entry(arp_table[i])]
      /\ held' \subseteq held /\ out' = << >> /\ quiet' = quiet
      /\ arp_table[i].state = "STATIC"
  BY <1>1, <1>2 DEF etharp_remove_static_entry
<1>5. arp_table[i].ipaddr = ip  BY <1>3 DEF Match
<1> HIDE DEF i
<1>6. /\ arp_table'[i].state = "EMPTY" /\ arp_table'[i].q = << >>
      /\ \A j \in Idx \ {i} : arp_table'[j] = arp_table[j]
  <2>1. arp_table'[i] = etharp_free_entry(arp_table[i])  BY <1>1, <1>2, <1>4
  <2> QED  BY <1>1, <1>2, <1>4, <2>1, FreedOK
<1>7. FlushStep  BY <1>4, <1>6 DEF FlushStep, Resolved
<1>8. RecycleStep  BY <1>6 DEF RecycleStep, SameKey
<1>9. StaticStep
  <2> SUFFICES ASSUME NEW j \in Idx, arp_table'[j] # arp_table[j]
               PROVE  etharp_remove_static_entry(arp_table[j].ipaddr)
    BY DEF StaticStep
  <2>1. j = i  BY <1>6
  <2> QED  BY <1>5, <2>1
<1>10. SpacingStep  BY <1>6 DEF SpacingStep
<1>11. PoolOK(held')  BY <1>4, PoolShrinks DEF StepInv
<1>12. \A j \in Idx : Len(arp_table'[j].q) <= QueueLimit /\ QuietOK(arp_table'[j], quiet'[j])
  <2>1. 0 <= QueueLimit /\ Len(<< >>) = 0  BY EtharpAssumption DEF QueueLimit
  <2>2. QuietOK(arp_table'[i], quiet'[i])  BY <1>6 DEF QuietOK
  <2> QED  BY <1>4, <1>6, <2>1, <2>2 DEF StepInv
<1> QED  BY <1>7, <1>8, <1>9, <1>10, <1>11, <1>12 DEF GoodStep

\* An interface going down takes its entries along, the static ones too.
LEMMA DownGood ==
    ASSUME StepInv, NEW n \in Netifs, netif_set_down(n)
    PROVE  GoodStep
<1> DEFINE G == {i \in Idx : arp_table[i].state # "EMPTY" /\ arp_table[i].netif = n}
<1>1. /\ \A j \in Idx : arp_table[j] \in etharp_entry /\ EntryOK(arp_table[j])
      /\ up \in [Netifs -> BOOLEAN] /\ arp_table' \in [Idx -> etharp_entry]
  BY DownStep DEF StepInv, IInv, TableOK, RestOK
<1>2. /\ arp_table' = [i \in Idx |-> IF i \in G THEN etharp_free_entry(arp_table[i])
                                     ELSE arp_table[i]]
      /\ held' \subseteq held /\ out' = << >> /\ quiet' = quiet
      /\ up[n] /\ up' = [up EXCEPT ![n] = FALSE]
  BY DEF netif_set_down, etharp_cleanup_netif
<1>3. \A j \in G : /\ arp_table'[j].state = "EMPTY" /\ arp_table'[j].q = << >>
                   /\ up[arp_table[j].netif] /\ ~up'[arp_table[j].netif]
  BY <1>1, <1>2, FreedOK
<1>4. \A j \in Idx \ G : arp_table'[j] = arp_table[j] /\ QuietOK(arp_table'[j], quiet'[j])
  BY <1>2 DEF StepInv
<1> HIDE DEF G
<1>5. G \in SUBSET Idx  BY DEF G
<1>6. \A j \in Idx \ G : SameKey(arp_table[j], arp_table'[j])  BY <1>4 DEF SameKey
<1> QED  BY <1>1, <1>2, <1>3, <1>4, <1>5, <1>6, FreeGood

\* A packet to send.
LEMMA SendGood ==
    ASSUME StepInv, NEW n \in Netifs, NEW p \in Pbufs,
           NEW dst \in Hosts \cup {IPADDR_ANY, OffLink},
           NEW sent \in BOOLEAN, NEW taken \in BOOLEAN,
           etharp_output(n, p, dst, sent, taken)
    PROVE  GoodStep
<1> DEFINE hop == NextHop(n, dst)
           pkt == [id |-> p, netif |-> n, hop |-> hop]
           stable == {i \in Idx : Resolves(i, n, hop)}
<1>1. p \in Pbufs \ held  BY DEF etharp_output
<1>2. dst # IPADDR_ANY /\ hop # IPADDR_ANY => hop \in Hosts
  BY EtharpAssumption DEF NextHop
<1>3. CASE /\ out' = <<IpFrame(n, Broadcast, pkt)>>
           /\ UNCHANGED <<arp_table, held, quiet>>
  <2>1. IpFrame(n, Broadcast, pkt).pkt.id = p  BY DEF IpFrame
  <2> QED  BY <1>1, <1>3, <2>1, TableUntouched
<1>4. CASE /\ dst # IPADDR_ANY /\ hop # IPADDR_ANY
           /\ Resolves(etharp_cached_entry, n, hop)
           /\ etharp_output_to_arp_index(n, pkt, etharp_cached_entry, sent)
  <2> etharp_cached_entry \in Idx  BY DEF StepInv, IInv, RestOK
  <2> HIDE DEF hop
  <2> QED  BY <1>1, <1>2, <1>4, OutputGood
<1>5. CASE /\ dst # IPADDR_ANY /\ hop # IPADDR_ANY
           /\ stable # {}
           /\ etharp_output_to_arp_index(n, pkt, First(stable), sent)
  <2>1. First(stable) \in stable  BY <1>5, FirstIn
  <2> HIDE DEF hop
  <2> QED  BY <1>1, <1>2, <1>5, <2>1, OutputGood
<1>6. CASE etharp_query(n, hop, p, sent, taken) /\ quiet' = quiet
           /\ dst # IPADDR_ANY /\ hop # IPADDR_ANY
  <2> HIDE DEF hop
  <2> QED  BY <1>1, <1>2, <1>6, QueryGood
<1> QED  BY <1>3, <1>4, <1>5, <1>6 DEF etharp_output

\* Every step is good.
LEMMA NextGood == StepInv /\ Next => GoodStep
<1> SUFFICES ASSUME StepInv, Next PROVE GoodStep  OBVIOUS
<1>1. CASE etharp_tmr  BY <1>1, TimerGood
<1>2. ASSUME NEW n \in Netifs, netif_set_down(n) \/ netif_set_up(n) \/ netif_set_ipaddr(n)
      PROVE  GoodStep
  <2>1. CASE netif_set_down(n)  BY <2>1, DownGood
  <2>2. CASE netif_set_up(n)  BY <2>2, TableUntouched DEF netif_set_up
  <2>3. CASE netif_set_ipaddr(n)  BY <2>3, TableUntouched DEF netif_set_ipaddr
  <2> QED  BY <1>2, <2>1, <2>2, <2>3
<1>3. ASSUME NEW n \in Netifs, NEW sip \in Hosts \cup {IPADDR_ANY}, NEW smac \in Macs,
             NEW op \in {"REQUEST", "REPLY"}, NEW toUs \in BOOLEAN,
             etharp_input(n, sip, smac, op, toUs)
      PROVE  GoodStep
  <2>1. PICK flag : etharp_update_arp_entry(n, sip, smac, flag, FALSE)
    BY <1>3 DEF etharp_input
  <2>2. quiet' = quiet  BY <1>3 DEF etharp_input
  <2> QED  BY <2>1, <2>2, UpdateGood
<1>4. ASSUME NEW n \in Netifs, NEW ip \in Hosts, NEW mac \in Macs,
             etharp_add_static_entry(n, ip, mac)
      PROVE  GoodStep
  BY <1>4, UpdateGood DEF etharp_add_static_entry
<1>5. ASSUME NEW ip \in Hosts, etharp_remove_static_entry(ip)
      PROVE  GoodStep
  BY <1>5, RemoveStaticGood
<1>6. ASSUME NEW n \in Netifs, NEW p \in Pbufs, NEW dst \in Hosts \cup {IPADDR_ANY, OffLink},
             NEW sent \in BOOLEAN, NEW taken \in BOOLEAN, etharp_output(n, p, dst, sent, taken)
      PROVE  GoodStep
  BY <1>6, SendGood
<1>7. ASSUME NEW n \in Netifs, NEW ip \in Hosts, NEW sent \in BOOLEAN, etharp_probe(n, ip, sent)
      PROVE  GoodStep
  <2>1. NULL \notin held  BY IInvImplies, EtharpAssumption DEF TypeOK, StepInv
  <2> QED  BY <1>7, <2>1, QueryGood DEF etharp_probe
<1> QED  BY <1>1, <1>2, <1>3, <1>4, <1>5, <1>6, <1>7 DEF Next

\* The strengthened invariant holds at first, and every step keeps it.
LEMMA StepInvInductive ==
    /\ Init => StepInv /\ SentToMapping
    /\ StepInv /\ SentToMapping /\ [Next]_vars => StepInv' /\ SentToMapping'
<1>1. ASSUME Init PROVE StepInv /\ SentToMapping
  <2>1. IInv /\ SentToMapping  BY <1>1, InitIInv
  <2>2. PoolOK(held)
    <3>1. held = {}  BY <1>1 DEF Init
    <3>2. IsFiniteSet({}) /\ Cardinality({}) = 0  BY FS_EmptySet
    <3> QED  BY <3>1, <3>2, EtharpAssumption DEF PoolOK
  <2>3. \A i \in Idx : Len(arp_table[i].q) <= QueueLimit /\ QuietOK(arp_table[i], quiet[i])
    <3> TAKE i \in Idx
    <3>1. arp_table[i] = Zeroed  BY <1>1 DEF Init
    <3>2. Len(Zeroed.q) = 0 /\ Zeroed.state = "EMPTY"  BY DEF Zeroed
    <3>3. 0 <= QueueLimit  BY EtharpAssumption DEF QueueLimit
    <3> QED  BY <3>1, <3>2, <3>3 DEF QuietOK
  <2> QED  BY <2>1, <2>2, <2>3 DEF StepInv
<1>2. ASSUME StepInv, SentToMapping, [Next]_vars PROVE StepInv' /\ SentToMapping'
  <2>1. IInv' /\ SentToMapping'  BY <1>2, NextIInv DEF StepInv
  <2>2. CASE Next
    <3>1. GoodStep  BY <1>2, <2>2, NextGood
    <3> QED  BY <2>1, <3>1 DEF GoodStep, StepInv, PoolOK, QuietOK
  <2>3. CASE UNCHANGED vars
    BY <1>2, <2>1, <2>3 DEF vars, StepInv, PoolOK, QuietOK
  <2> QED  BY <1>2, <2>2, <2>3
<1> QED  BY <1>1, <1>2

-----------------------------------------------------------------------------
(* The theorems                                                            *)

\* No queue outgrows ARP_QUEUE_LEN and no packet is queued beyond the pool,
\* whatever etharp_query, the timer and replies do to several entries.
THEOREM QueuesBounded == Spec => []QueueBounded
<1>1. StepInv => QueueBounded  BY DEF StepInv, PoolOK, QueueLimit, QueueBounded
<1> QED  BY <1>1, StepInvInductive, PTL DEF Spec

\* etharp_update_arp_entry sends exactly the queue of the entry it resolves, and no
\* step both sends a packet and keeps it, or sends one twice.
THEOREM FlushedOnce == Spec => FlushExactlyOnce
<1>1. StepInv /\ [Next]_vars => [FlushStep]_vars  BY NextGood DEF GoodStep
<1> QED  BY <1>1, StepInvInductive, PTL DEF Spec, FlushExactlyOnce

\* etharp_find_entry gives up an entry with packets only when every other one is
\* static, or has packets and is no older.
THEOREM LastResort == Spec => RecycledLast
<1>1. StepInv /\ [Next]_vars => [RecycleStep]_vars  BY NextGood DEF GoodStep
<1> QED  BY <1>1, StepInvInductive, PTL DEF Spec, RecycledLast

\* Static entries outlive time and traffic: etharp_tmr, etharp_input and
\* etharp_query leave them as they are.
THEOREM StaticKept == Spec => StaticPersists
<1>1. StepInv /\ [Next]_vars => [StaticStep]_vars  BY NextGood DEF GoodStep
<1> QED  BY <1>1, StepInvInductive, PTL DEF Spec, StaticPersists

\* etharp_output_to_arp_index asks about an entry in use at most once in two
\* ticks, even if the entry was freed and recycled in between.
THEOREM RequestsSpaced == Spec => ReRequestSpacing
<1>1. StepInv /\ [Next]_vars => [SpacingStep]_vars  BY NextGood DEF GoodStep
<1> QED  BY <1>1, StepInvInductive, PTL DEF Spec, ReRequestSpacing

=============================================================================
