------------------------------ MODULE DhcpProof ------------------------------
(***************************************************************************)
(* Proofs about Dhcp, for any number of interfaces, any addresses and any  *)
(* widths of the lease times. The invariant of one client, GoodOf, is      *)
(* shown to survive every function of dhcp.c; the number of clients that   *)
(* hold the PCB is followed by Others, which no function changes.          *)
(***************************************************************************)
EXTENDS Dhcp, FiniteSetTheorems, TLAPS

Addr == Ips \cup {IP4_ADDR_ANY}
XidOrNone == Xids \cup {NoXid}

\* The records the functions work on. A reference count taken down before it
\* is taken up again is an integer only.
ClientType ==
    [d : struct_dhcp, ip : Addr, ref : Int, xid : XidOrNone, up : BOOLEAN,
     link : BOOLEAN, left : 0 .. Forever, conflict : Addr]

-----------------------------------------------------------------------------
(* The invariant of one client                                             *)

\* The timers are in step with the lease bound last.
InStep(d, left) ==
    \/ left = Forever
    \/ d.lease_used < d.t0_timeout /\ left = d.t0_timeout - d.lease_used

\* They are whenever the client is in BOUND, RENEWING or REBINDING, or may come
\* to be because one of them runs out.
LeaseOK(d, left) ==
    d.state \in Supplying \/ d.t1_renew_time > 0 \/ d.t2_rebind_time > 0
    => InStep(d, left)

\* The lease has not ended unnoticed.
UsedOK(d) == d.t0_timeout > 0 => d.lease_used < d.t0_timeout

PcbOK(d) == d.pcb_allocated <=> d.state # "OFF"

OffOK(d) == d.state = "OFF" => d.t1_renew_time = 0 /\ d.t2_rebind_time = 0

\* Nothing is bound after a conflict but what a server acknowledges.
ConflictOK(d, c) == d.state \in {"CHECKING", "BOUND"} => c = IP4_ADDR_ANY

TriesOK(d) ==
    /\ d.state = "REQUESTING" => d.tries \in 1 .. 6
    /\ d.state \in {"CHECKING", "REBOOTING"} => d.tries \in 1 .. REBOOT_TRIES

TimerOK(d) == d.state \in Waiting => d.request_timeout = 1

\* What holds of a client while its timeout is handled ...
SoundOf(d, left, c) ==
    LeaseOK(d, left) /\ UsedOK(d) /\ PcbOK(d) /\ OffOK(d) /\ ConflictOK(d, c)

\* ... and between the steps.
GoodOf(d, left, c) == SoundOf(d, left, c) /\ TriesOK(d) /\ TimerOK(d)

Sound(w) == SoundOf(w.d, w.left, w.conflict)
Good(w) == GoodOf(w.d, w.left, w.conflict)

\* How many other clients hold the PCB, according to the count.
Others(w) == w.ref - (IF w.d.pcb_allocated THEN 1 ELSE 0)

\* v differs from w in what has been sent and what is waited for only.
SameLease(v, w) ==
    /\ v.ip = w.ip /\ v.ref = w.ref /\ v.left = w.left /\ v.conflict = w.conflict
    /\ v.up = w.up /\ v.link = w.link
    /\ v.d.pcb_allocated = w.d.pcb_allocated
    /\ v.d.t0_timeout = w.d.t0_timeout /\ v.d.lease_used = w.d.lease_used
    /\ v.d.t1_renew_time = w.d.t1_renew_time /\ v.d.t2_rebind_time = w.d.t2_rebind_time

\* v is w once a message or a probe of state s has been sent.
SentFrom(v, w, s) ==
    /\ v \in ClientType /\ SameLease(v, w)
    /\ v.d.state = s /\ v.d.request_timeout = 1
    /\ v.d.tries = IF w.d.state # s THEN 1
                   ELSE IF w.d.tries < TRIES_MAX THEN w.d.tries + 1 ELSE w.d.tries

-----------------------------------------------------------------------------
(* Sending                                                                 *)

\* Replacing struct dhcp keeps the record a client.
LEMMA WithD ==
    ASSUME NEW w \in ClientType, NEW e \in struct_dhcp
    PROVE  [w EXCEPT !.d = e] \in ClientType
  BY DEF ClientType

\* dhcp_set_state enters the state and restarts the count of tries on a change.
LEMMA SetState ==
    ASSUME NEW w \in ClientType, NEW s \in dhcp_state
    PROVE  LET v == dhcp_set_state(w, s)
           IN  /\ v \in ClientType /\ SameLease(v, w) /\ v.xid = w.xid
               /\ v.d.state = s
               /\ v.d.tries = IF w.d.state = s THEN w.d.tries ELSE 0
  <1> DEFINE e == [w.d EXCEPT !.state = s, !.tries = 0, !.request_timeout = 0]
             u == [w EXCEPT !.d = e]
  <1>1. w.d \in struct_dhcp
    BY DEF ClientType
  <1>2. e \in struct_dhcp
    <2>1. 0 \in 0 .. TRIES_MAX /\ 0 \in 0 .. 1
      BY DhcpAssumption
    <2> QED BY <1>1, <2>1 DEF struct_dhcp
  <1>3. u \in ClientType
    BY <1>2, WithD
  <1>4. [w EXCEPT !.d.state = s, !.d.tries = 0, !.d.request_timeout = 0] = u
    BY DEF ClientType
  <1>5. SameLease(u, w) /\ u.xid = w.xid /\ u.d.state = s /\ u.d.tries = 0
    BY <1>1 DEF SameLease, ClientType, struct_dhcp
  <1>6. SameLease(w, w)
    BY DEF SameLease
  <1> HIDE DEF u
  <1> QED BY <1>3, <1>4, <1>5, <1>6 DEF dhcp_set_state

\* Building a message changes transaction identifiers only.
LEMMA CreateMsg ==
    ASSUME NEW w \in ClientType, NEW type, NEW a \in BOOLEAN, NEW r \in Xids
    PROVE  LET v == dhcp_create_msg(w, type, a, r)
           IN  /\ v \in ClientType /\ SameLease(v, w)
               /\ v.d.state = w.d.state /\ v.d.tries = w.d.tries
  <1> DEFINE x == IF w.d.tries = 0 THEN r ELSE w.xid
             e == [w.d EXCEPT !.xid = x]
             u == [w EXCEPT !.xid = x, !.d = e]
  <1>1. w.d \in struct_dhcp /\ x \in XidOrNone
    BY DEF ClientType, XidOrNone
  <1>2. e \in struct_dhcp
    BY <1>1 DEF struct_dhcp, XidOrNone
  <1>3. u \in ClientType
    BY <1>1, <1>2 DEF ClientType
  <1>4. [w EXCEPT !.xid = x, !.d.xid = x] = u
    BY DEF ClientType
  <1>5. SameLease(u, w) /\ u.d.state = w.d.state /\ u.d.tries = w.d.tries
    BY <1>1 DEF SameLease, ClientType, struct_dhcp
  <1>6. SameLease(w, w)
    BY DEF SameLease
  <1> HIDE DEF u
  <1> QED BY <1>3, <1>4, <1>5, <1>6 DEF dhcp_create_msg

\* A try is counted up to TRIES_MAX and its timeout armed.
LEMMA ArmedOK ==
    ASSUME NEW w \in ClientType
    PROVE  LET v == Armed(w)
           IN  /\ v \in ClientType /\ SameLease(v, w)
               /\ v.d.state = w.d.state /\ v.d.request_timeout = 1
               /\ v.d.tries = IF w.d.tries < TRIES_MAX THEN w.d.tries + 1 ELSE w.d.tries
  <1> DEFINE t == IF w.d.tries < TRIES_MAX THEN w.d.tries + 1 ELSE w.d.tries
             e == [w.d EXCEPT !.tries = t, !.request_timeout = 1]
             u == [w EXCEPT !.d = e]
  <1>1. w.d \in struct_dhcp
    BY DEF ClientType
  <1>2. w.d.tries \in 0 .. TRIES_MAX
    BY <1>1 DEF struct_dhcp
  <1>3. t \in 0 .. TRIES_MAX /\ 1 \in 0 .. 1
    BY <1>2, DhcpAssumption
  <1>4. e \in struct_dhcp
    <2> HIDE DEF t
    <2> QED BY <1>1, <1>3 DEF struct_dhcp
  <1>5. u \in ClientType
    BY <1>4, WithD
  <1>6. Armed(w) = u
    BY DEF Armed, ClientType
  <1>7. SameLease(u, w) /\ u.d.state = w.d.state /\ u.d.request_timeout = 1 /\ u.d.tries = t
    <2> HIDE DEF t
    <2> QED BY <1>1 DEF SameLease, ClientType, struct_dhcp
  <1> HIDE DEF u
  <1> QED BY <1>5, <1>6, <1>7

\* Every message goes through these three.
LEMMA Send ==
    ASSUME NEW w \in ClientType, NEW s \in dhcp_state, NEW type,
           NEW a \in BOOLEAN, NEW r \in Xids
    PROVE  SentFrom(Armed(dhcp_create_msg(dhcp_set_state(w, s), type, a, r)), w, s)
  <1> DEFINE u == dhcp_set_state(w, s)
             v == dhcp_create_msg(u, type, a, r)
  <1>1. /\ u \in ClientType /\ SameLease(u, w) /\ u.d.state = s
        /\ u.d.tries = IF w.d.state = s THEN w.d.tries ELSE 0
    BY SetState
  <1> HIDE DEF u
  <1>2. v \in ClientType /\ SameLease(v, u) /\ v.d.state = u.d.state /\ v.d.tries = u.d.tries
    BY <1>1, CreateMsg
  <1> HIDE DEF v
  <1>3. /\ Armed(v) \in ClientType /\ SameLease(Armed(v), v)
        /\ Armed(v).d.state = v.d.state /\ Armed(v).d.request_timeout = 1
        /\ Armed(v).d.tries = IF v.d.tries < TRIES_MAX THEN v.d.tries + 1 ELSE v.d.tries
    BY <1>2, ArmedOK
  <1>4. SameLease(Armed(v), w)
    BY <1>1, <1>2, <1>3 DEF SameLease
  <1>5. SentFrom(Armed(v), w, s)
    BY <1>1, <1>2, <1>3, <1>4, DhcpAssumption DEF SentFrom
  <1> QED BY <1>5 DEF u, v

\* dhcp_select, dhcp_renew, dhcp_rebind and dhcp_reboot send a REQUEST.
LEMMA RequestSent ==
    ASSUME NEW w \in ClientType, NEW s \in dhcp_state, NEW e \in Env
    PROVE  SentFrom(Request(w, s, e), w, s)
  BY Send DEF Request, Env

\* dhcp_check sends a probe.
LEMMA CheckSent ==
    ASSUME NEW w \in ClientType
    PROVE  SentFrom(dhcp_check(w), w, "CHECKING")
  <1> DEFINE u == dhcp_set_state(w, "CHECKING")
  <1>1. "CHECKING" \in dhcp_state
    BY DEF dhcp_state, Waiting
  <1>2. /\ u \in ClientType /\ SameLease(u, w) /\ u.d.state = "CHECKING"
        /\ u.d.tries = IF w.d.state = "CHECKING" THEN w.d.tries ELSE 0
    BY <1>1, SetState
  <1> HIDE DEF u
  <1>3. /\ Armed(u) \in ClientType /\ SameLease(Armed(u), u)
        /\ Armed(u).d.state = u.d.state /\ Armed(u).d.request_timeout = 1
        /\ Armed(u).d.tries = IF u.d.tries < TRIES_MAX THEN u.d.tries + 1 ELSE u.d.tries
    BY <1>2, ArmedOK
  <1>4. SameLease(Armed(u), w)
    BY <1>2, <1>3 DEF SameLease
  <1>5. SentFrom(Armed(u), w, "CHECKING")
    BY <1>2, <1>3, <1>4, DhcpAssumption DEF SentFrom
  <1> QED BY <1>5 DEF u, dhcp_check

\* dhcp_discover sends a DISCOVER.
LEMMA DiscoverSent ==
    ASSUME NEW w \in ClientType, NEW e \in Env
    PROVE  SentFrom(dhcp_discover(w, e), w, "SELECTING")
  <1> DEFINE f == [w.d EXCEPT !.offered_ip_addr = IP4_ADDR_ANY]
             u == [w EXCEPT !.d = f]
             v == dhcp_discover(w, e)
  <1>1. w.d \in struct_dhcp
    BY DEF ClientType
  <1>2. f \in struct_dhcp
    BY <1>1 DEF struct_dhcp
  <1>3. u \in ClientType
    BY <1>2, WithD
  <1>4. u = [w EXCEPT !.d.offered_ip_addr = IP4_ADDR_ANY]
    BY DEF ClientType
  <1>5. SameLease(u, w) /\ u.d.state = w.d.state /\ u.d.tries = w.d.tries
    BY <1>1 DEF SameLease, ClientType, struct_dhcp
  <1>6. "SELECTING" \in dhcp_state /\ e.pbuf \in BOOLEAN /\ e.rand \in Xids
    BY DEF dhcp_state, Waiting, Env
  <1> HIDE DEF u
  <1>7. v = Armed(dhcp_create_msg(dhcp_set_state(u, "SELECTING"), "DISCOVER", e.pbuf, e.rand))
    BY <1>4 DEF dhcp_discover
  <1> HIDE DEF v
  <1>8. SentFrom(v, u, "SELECTING")
    BY <1>3, <1>6, <1>7, Send
  <1>9. SentFrom(v, w, "SELECTING")
    BY <1>5, <1>8 DEF SentFrom, SameLease
  <1> QED BY <1>9 DEF v

\* A client that may enter state s is good once it has.
LEMMA SentGood ==
    ASSUME NEW v, NEW w \in ClientType, NEW s \in (Waiting \cup Supplying) \ {"BOUND"},
           SentFrom(v, w, s),
           w.d.pcb_allocated, UsedOK(w.d), LeaseOK(w.d, w.left),
           s \in Supplying => InStep(w.d, w.left),
           s = "CHECKING" => w.conflict = IP4_ADDR_ANY,
           w.d.state = s /\ s = "REQUESTING" => w.d.tries <= 5,
           w.d.state = s /\ s \in {"CHECKING", "REBOOTING"} => w.d.tries < REBOOT_TRIES
    PROVE  v \in ClientType /\ Good(v) /\ Others(v) = Others(w)
  <1>1. v \in ClientType /\ v.d.state = s /\ SameLease(v, w)
    BY DEF SentFrom
  <1>2. w.d.tries \in 0 .. TRIES_MAX
    BY DEF ClientType, struct_dhcp
  <1>3. LeaseOK(v.d, v.left)
    BY <1>1 DEF LeaseOK, InStep, SameLease
  <1>4. UsedOK(v.d) /\ PcbOK(v.d) /\ OffOK(v.d)
    BY <1>1 DEF UsedOK, PcbOK, OffOK, SameLease, Waiting, Supplying
  <1>5. ConflictOK(v.d, v.conflict)
    BY <1>1 DEF ConflictOK, SameLease
  <1>6. TriesOK(v.d)
    BY <1>1, <1>2, DhcpAssumption DEF SentFrom, TriesOK, REBOOT_TRIES
  <1>7. TimerOK(v.d)
    BY DEF SentFrom, TimerOK
  <1>8. Others(v) = Others(w)
    BY <1>1 DEF Others, SameLease
  <1> QED BY <1>1, <1>3, <1>4, <1>5, <1>6, <1>7, <1>8 DEF Good, GoodOf, SoundOf

-----------------------------------------------------------------------------
(* Binding an address                                                      *)

\* A time in seconds is cut to between one tick and what 16 bits hold.
LEMMA TicksType ==
    ASSUME NEW t \in Secs
    PROVE  Ticks(t) \in 1 .. U16MAX
  <1> DEFINE h == t + DHCP_COARSE_TIMER_SECS \div 2
             k == (h % U32) \div DHCP_COARSE_TIMER_SECS
  <1>1. h \in Nat
    BY DhcpAssumption DEF Secs
  <1>2. h % U32 \in Nat
    <2> HIDE DEF h
    <2> QED BY <1>1, DhcpAssumption
  <1>3. k \in Nat
    <2> DEFINE r == h % U32
    <2>1. r \in Nat
      BY <1>2
    <2> HIDE DEF r
    <2>2. r \div DHCP_COARSE_TIMER_SECS \in Nat
      BY <2>1, DhcpAssumption
    <2> QED BY <2>2 DEF r
  <1> HIDE DEF k
  <1>4. (CASE k = 0 -> 1 [] k > U16MAX -> U16MAX [] OTHER -> k) \in 1 .. U16MAX
    BY <1>3, DhcpAssumption
  <1> QED BY <1>4 DEF Ticks, k, h

\* dhcp_handle_ack records the offer, cut to 32 bits, and touches no timer.
LEMMA Ack ==
    ASSUME NEW w \in ClientType, NEW m \in dhcp_msg, m.type = "ACK"
    PROVE  LET v == dhcp_handle_ack(w, m)
           IN  /\ v \in ClientType
               /\ v.conflict = IP4_ADDR_ANY
               /\ v.d.state = w.d.state
               /\ SameLease(v, [w EXCEPT !.conflict = IP4_ADDR_ANY])
  <1> DEFINE t0 == IF m.lease = Absent THEN w.d.offered_t0_lease ELSE m.lease
             t1 == IF m.t1 = Absent THEN t0 \div 2 ELSE m.t1
             t2 == IF m.t2 = Absent THEN ((t0 * 7) % U32) \div 8 ELSE m.t2
             e == [w.d EXCEPT !.offered_t0_lease = t0, !.offered_t1_renew = t1,
                              !.offered_t2_rebind = t2, !.offered_ip_addr = m.yiaddr]
             u == [w EXCEPT !.d = e, !.conflict = IP4_ADDR_ANY]
  <1>1. w.d \in struct_dhcp
    BY DEF ClientType
  <1>2. /\ m.yiaddr \in Ips /\ m.lease \in LeaseTimes
        /\ m.t1 \in RenewTimes /\ m.t2 \in RebindTimes
    BY DEF dhcp_msg
  <1>3. t0 \in Secs
    BY <1>1, <1>2, DhcpAssumption DEF struct_dhcp, Secs
  <1>4. t1 \in Secs
    <2>1. t0 \div 2 \in Secs
      <3> HIDE DEF t0
      <3> QED BY <1>3, DhcpAssumption DEF Secs
    <2>2. m.t1 # Absent => m.t1 \in Secs
      BY <1>2, DhcpAssumption DEF Secs
    <2> QED BY <2>1, <2>2
  <1>5. t2 \in Secs
    <2> HIDE DEF t0
    <2>1. t0 * 7 \in Nat
      BY <1>3, DhcpAssumption DEF Secs
    <2>2. (t0 * 7) % U32 \in 0 .. U32 - 1
      <3> DEFINE p == t0 * 7
      <3> HIDE DEF p
      <3>1. p \in Nat => p % U32 \in 0 .. U32 - 1
        BY DhcpAssumption
      <3> QED BY <2>1, <3>1 DEF p
    <2>3. ((t0 * 7) % U32) \div 8 \in Secs
      <3> DEFINE q == (t0 * 7) % U32
      <3>1. q \in 0 .. U32 - 1
        BY <2>2
      <3> HIDE DEF q
      <3>2. q \div 8 \in Secs
        BY <3>1, DhcpAssumption DEF Secs
      <3> QED BY <3>2 DEF q
    <2> QED BY <1>2, <2>3, DhcpAssumption DEF Secs
  <1> HIDE DEF t0, t1, t2
  <1>6. e \in struct_dhcp
    BY <1>1, <1>2, <1>3, <1>4, <1>5 DEF struct_dhcp
  <1>7. u \in ClientType
    BY <1>6 DEF ClientType, Addr
  <1>8. dhcp_handle_ack(w, m) = u
    BY DEF dhcp_handle_ack, ClientType, t0, t1, t2
  <1>9. /\ u.conflict = IP4_ADDR_ANY /\ u.d.state = w.d.state
        /\ SameLease(u, [w EXCEPT !.conflict = IP4_ADDR_ANY])
    BY <1>1 DEF SameLease, ClientType, struct_dhcp
  <1> HIDE DEF u
  <1> QED BY <1>7, <1>8, <1>9

\* dhcp_bind leaves a good client whose timers are in step with the lease.
LEMMA BindGood ==
    ASSUME NEW w \in ClientType, w.d.pcb_allocated, w.conflict = IP4_ADDR_ANY
    PROVE  /\ dhcp_bind(w) \in ClientType
           /\ Good(dhcp_bind(w))
           /\ Others(dhcp_bind(w)) = Others(w)
  <1> DEFINE t0 == w.d.offered_t0_lease
             t1 == w.d.offered_t1_renew
             t2 == w.d.offered_t2_rebind
             k0 == IF t0 = INFINITE THEN w.d.t0_timeout ELSE Ticks(t0)
             k1 == IF t1 = INFINITE THEN w.d.t1_renew_time ELSE Ticks(t1)
             k2 == IF t2 = INFINITE THEN w.d.t2_timeout ELSE Ticks(t2)
             r2 == IF t2 = INFINITE THEN w.d.t2_rebind_time ELSE Ticks(t2)
             left == IF t0 = INFINITE THEN Forever ELSE Ticks(t0)
             e == [w.d EXCEPT !.lease_used = 0, !.t0_timeout = k0, !.t1_renew_time = k1,
                              !.t2_timeout = k2, !.t2_rebind_time = r2]
             u == [w EXCEPT !.d = e]
             b == dhcp_set_state(u, "BOUND")
             v == [b EXCEPT !.ip = w.d.offered_ip_addr, !.left = left]
  <1>1. w.d \in struct_dhcp
    BY DEF ClientType
  <1>2. /\ t0 \in Secs /\ t1 \in Secs /\ t2 \in Secs
        /\ w.d.t0_timeout \in 0 .. U16MAX /\ w.d.t1_renew_time \in 0 .. U16MAX
        /\ w.d.t2_timeout \in 0 .. U16MAX /\ w.d.t2_rebind_time \in 0 .. U16MAX
        /\ w.d.offered_ip_addr \in Addr
    BY <1>1 DEF struct_dhcp, Addr
  <1>3. k0 \in 0 .. U16MAX /\ k1 \in 0 .. U16MAX /\ k2 \in 0 .. U16MAX /\ r2 \in 0 .. U16MAX
    BY <1>2, TicksType, DhcpAssumption
  <1>4. left \in 1 .. Forever /\ (left = Forever \/ left = k0)
    BY <1>2, TicksType, DhcpAssumption DEF Forever
  <1> HIDE DEF k0, k1, k2, r2, left
  <1>5. e \in struct_dhcp
    <2>1. 0 \in 0 .. U16MAX
      BY DhcpAssumption
    <2> QED BY <1>1, <1>3, <2>1 DEF struct_dhcp
  <1>6. u \in ClientType
    BY <1>5, WithD
  <1>7. /\ u.d.lease_used = 0 /\ u.d.t0_timeout = k0
        /\ u.d.pcb_allocated /\ u.ref = w.ref /\ u.conflict = IP4_ADDR_ANY
    BY <1>1 DEF ClientType, struct_dhcp
  <1>8. dhcp_bind(w) = v
    <2>1. u = [w EXCEPT !.d.lease_used = 0, !.d.t0_timeout = k0, !.d.t1_renew_time = k1,
                        !.d.t2_timeout = k2, !.d.t2_rebind_time = r2]
      BY DEF ClientType
    <2>2. /\ k0 = IF t0 = INFINITE THEN w.d.t0_timeout ELSE Ticks(t0)
          /\ k1 = IF t1 = INFINITE THEN w.d.t1_renew_time ELSE Ticks(t1)
          /\ k2 = IF t2 = INFINITE THEN w.d.t2_timeout ELSE Ticks(t2)
          /\ r2 = IF t2 = INFINITE THEN w.d.t2_rebind_time ELSE Ticks(t2)
      BY DEF k0, k1, k2, r2
    <2>3. u = [w EXCEPT
                !.d.lease_used = 0,
                !.d.t0_timeout = IF t0 = INFINITE THEN @ ELSE Ticks(t0),
                !.d.t1_renew_time = IF t1 = INFINITE THEN @ ELSE Ticks(t1),
                !.d.t2_timeout = IF t2 = INFINITE THEN @ ELSE Ticks(t2),
                !.d.t2_rebind_time = IF t2 = INFINITE THEN @ ELSE Ticks(t2)]
      BY <1>1, <2>1, <2>2 DEF ClientType, struct_dhcp
    <2> HIDE DEF u
    <2> QED BY <2>3 DEF dhcp_bind, left
  <1> HIDE DEF u
  <1>9. b \in ClientType /\ SameLease(b, u) /\ b.d.state = "BOUND"
    <2>1. "BOUND" \in dhcp_state
      BY DEF dhcp_state, Supplying
    <2> QED BY <1>6, <2>1, SetState
  <1> HIDE DEF b
  <1>10. v \in ClientType
    <2>1. left \in 0 .. Forever
      BY <1>4, DhcpAssumption DEF Forever
    <2> QED BY <1>2, <1>9, <2>1 DEF ClientType
  <1>11. /\ v.d = b.d /\ v.ref = b.ref /\ v.left = left /\ v.conflict = b.conflict
    BY <1>9 DEF ClientType
  <1> HIDE DEF v
  <1>12. /\ v.d.state = "BOUND" /\ v.d.pcb_allocated /\ v.conflict = IP4_ADDR_ANY
         /\ v.d.lease_used = 0 /\ v.d.t0_timeout = k0
    BY <1>7, <1>9, <1>11 DEF SameLease
  <1>13. InStep(v.d, v.left)
    BY <1>3, <1>4, <1>11, <1>12 DEF InStep
  <1>14. Good(v)
    BY <1>3, <1>12, <1>13 DEF Good, GoodOf, SoundOf, LeaseOK, UsedOK, PcbOK, OffOK, ConflictOK,
        TriesOK, TimerOK, Waiting
  <1>15. Others(v) = Others(w)
    BY <1>7, <1>9, <1>11 DEF Others, SameLease
  <1> QED BY <1>8, <1>10, <1>14, <1>15

-----------------------------------------------------------------------------
(* Stopping and starting                                                   *)

\* A client that is off and has no timer running is good.
LEMMA OffGood ==
    ASSUME NEW v \in ClientType, v.d.state = "OFF", ~v.d.pcb_allocated,
           v.d.t1_renew_time = 0, v.d.t2_rebind_time = 0, v.d.t0_timeout = 0
    PROVE  Good(v)
  BY DEF Good, GoodOf, SoundOf, LeaseOK, UsedOK, PcbOK, OffOK, ConflictOK, TriesOK, TimerOK,
      Waiting, Supplying

\* dhcp_release_and_stop gives up the PCB once and stops the timers.
LEMMA Released ==
    ASSUME NEW w \in ClientType, NEW e \in Env, PcbOK(w.d), w.d.state = "OFF" => Good(w)
    PROVE  LET v == dhcp_release_and_stop(w, e)
           IN  v \in ClientType /\ Good(v) /\ Others(v) = Others(w)
  <1> DEFINE f == [w.d EXCEPT
                    !.offered_ip_addr = IP4_ADDR_ANY,
                    !.offered_t0_lease = 0, !.offered_t1_renew = 0, !.offered_t2_rebind = 0,
                    !.t1_renew_time = 0, !.t2_rebind_time = 0,
                    !.lease_used = 0, !.t0_timeout = 0]
             u == [w EXCEPT !.d = f]
             off == dhcp_set_state(u, "OFF")
             sent == dhcp_create_msg(off, "RELEASE", e.release, e.rand)
             r == IF dhcp_supplied_address(w) THEN [sent EXCEPT !.ip = IP4_ADDR_ANY] ELSE off
             g == [r.d EXCEPT !.pcb_allocated = FALSE]
             q == [r EXCEPT !.ref = @ - 1, !.d = g]
             v == dhcp_release_and_stop(w, e)
  <1>1. w.d \in struct_dhcp
    BY DEF ClientType
  <1>2. f \in struct_dhcp
    <2>1. 0 \in Secs /\ 0 \in 0 .. U16MAX
      BY DhcpAssumption DEF Secs
    <2> QED BY <1>1, <2>1 DEF struct_dhcp
  <1>3. u \in ClientType
    BY <1>2, WithD
  <1>4. /\ u.d.t1_renew_time = 0 /\ u.d.t2_rebind_time = 0 /\ u.d.t0_timeout = 0
        /\ u.d.pcb_allocated = w.d.pcb_allocated /\ u.ref = w.ref
    BY <1>1 DEF ClientType, struct_dhcp
  <1>5. u = [w EXCEPT
              !.d.offered_ip_addr = IP4_ADDR_ANY,
              !.d.offered_t0_lease = 0, !.d.offered_t1_renew = 0, !.d.offered_t2_rebind = 0,
              !.d.t1_renew_time = 0, !.d.t2_rebind_time = 0,
              !.d.lease_used = 0, !.d.t0_timeout = 0]
    BY DEF ClientType
  <1> HIDE DEF u
  <1>6. off \in ClientType /\ SameLease(off, u) /\ off.d.state = "OFF"
    <2>1. "OFF" \in dhcp_state
      BY DEF dhcp_state
    <2> QED BY <1>3, <2>1, SetState
  <1>7. v = CASE w.d.state = "OFF" -> w
              [] w.d.state # "OFF" /\ w.d.pcb_allocated ->
                   [dhcp_dec_pcb_refcount(r) EXCEPT !.d.pcb_allocated = FALSE]
              [] OTHER -> r
    BY <1>5 DEF dhcp_release_and_stop
  <1> HIDE DEF off, v
  <1>8. sent \in ClientType /\ SameLease(sent, off) /\ sent.d.state = off.d.state
    <2>1. e.release \in BOOLEAN /\ e.rand \in Xids
      BY DEF Env
    <2> QED BY <1>6, <2>1, CreateMsg
  <1> HIDE DEF sent
  <1>9. r \in ClientType
    BY <1>6, <1>8 DEF ClientType, Addr
  <1>10. /\ r.d.state = "OFF" /\ r.d.pcb_allocated = w.d.pcb_allocated /\ r.ref = w.ref
         /\ r.d.t1_renew_time = 0 /\ r.d.t2_rebind_time = 0 /\ r.d.t0_timeout = 0
    BY <1>4, <1>6, <1>8 DEF SameLease, ClientType
  <1> HIDE DEF r
  <1>11. CASE w.d.state = "OFF"
    <2>1. v = w
      BY <1>7, <1>11
    <2> QED BY <1>11, <2>1 DEF v
  <1>12. CASE w.d.state # "OFF"
    <2>1. w.d.pcb_allocated
      BY <1>12 DEF PcbOK
    <2>2. v = q
      <3>1. v = [dhcp_dec_pcb_refcount(r) EXCEPT !.d.pcb_allocated = FALSE]
        BY <1>7, <1>12, <2>1
      <3> QED BY <1>9, <3>1 DEF dhcp_dec_pcb_refcount, ClientType
    <2>3. q \in ClientType /\ q.d = g /\ q.ref = w.ref - 1
      <3>1. r.d \in struct_dhcp /\ r.ref \in Int
        BY <1>9 DEF ClientType
      <3>2. g \in struct_dhcp
        BY <3>1 DEF struct_dhcp
      <3> HIDE DEF g
      <3> DEFINE k == r.ref - 1
      <3>3. k \in Int
        BY <3>1
      <3>4. q = [r EXCEPT !.ref = k, !.d = g]
        BY <1>9 DEF ClientType
      <3> HIDE DEF k
      <3>5. q \in ClientType /\ q.d = g /\ q.ref = k
        BY <1>9, <3>2, <3>3, <3>4 DEF ClientType
      <3> QED BY <1>10, <3>5 DEF k
    <2>4. /\ g.state = "OFF" /\ ~g.pcb_allocated
          /\ g.t1_renew_time = 0 /\ g.t2_rebind_time = 0 /\ g.t0_timeout = 0
      BY <1>9, <1>10 DEF ClientType, struct_dhcp
    <2> HIDE DEF q, g
    <2>5. Good(q)
      BY <2>3, <2>4, OffGood
    <2>6. Others(q) = Others(w)
      BY <2>1, <2>3, <2>4 DEF Others, ClientType
    <2> QED BY <2>2, <2>3, <2>5, <2>6 DEF v
  <1> QED BY <1>11, <1>12

\* The cleared structure is one.
LEMMA ZeroedType == Zeroed \in struct_dhcp
  <1>1. /\ 0 \in Secs /\ 0 \in 0 .. U16MAX /\ 0 \in 0 .. 1 /\ 0 \in 0 .. TRIES_MAX
        /\ "OFF" \in dhcp_state
    BY DhcpAssumption DEF Secs, dhcp_state
  <1> QED BY <1>1 DEF Zeroed, struct_dhcp

\* dhcp_start leaves a good client with or without the PCB.
LEMMA Started ==
    ASSUME NEW w \in ClientType, NEW e \in Env, Good(w)
    PROVE  LET v == dhcp_start(w, e)
           IN  v \in ClientType /\ Good(v) /\ Others(v) = Others(w)
  <1> DEFINE freed == IF w.d.pcb_allocated THEN dhcp_dec_pcb_refcount(w) ELSE w
             fresh == [freed EXCEPT !.d = Zeroed]
             z == [Zeroed EXCEPT !.pcb_allocated = TRUE]
             ready == [fresh EXCEPT !.ref = @ + 1, !.d = z]
             v == dhcp_start(w, e)
  <1>1. freed \in ClientType /\ freed.ref = Others(w)
    BY DEF dhcp_dec_pcb_refcount, ClientType, Others
  <1>2. v = CASE ~w.up -> w
              [] w.up /\ freed.ref = 0 /\ ~e.pcb -> fresh
              [] w.up /\ ~(freed.ref = 0 /\ ~e.pcb) /\ ~w.link ->
                   dhcp_set_state([fresh EXCEPT !.ref = @ + 1, !.d.pcb_allocated = TRUE], "INIT")
              [] OTHER -> dhcp_discover([fresh EXCEPT !.ref = @ + 1, !.d.pcb_allocated = TRUE], e)
    BY DEF dhcp_start
  <1> HIDE DEF freed, v
  <1>3. fresh \in ClientType /\ fresh.ref = Others(w) /\ fresh.d = Zeroed
    BY <1>1, ZeroedType DEF ClientType
  <1>4. [fresh EXCEPT !.ref = @ + 1, !.d.pcb_allocated = TRUE] = ready
    BY <1>3 DEF ClientType
  <1> HIDE DEF fresh
  <1>5. z \in struct_dhcp
    BY ZeroedType DEF struct_dhcp
  <1>6. /\ z.pcb_allocated /\ z.state = "OFF" /\ z.t0_timeout = 0
        /\ z.t1_renew_time = 0 /\ z.t2_rebind_time = 0
    BY DEF Zeroed
  <1> HIDE DEF z
  <1>7. ready \in ClientType /\ ready.d = z /\ ready.ref = Others(w) + 1
    <2> DEFINE k == Others(w) + 1
    <2>1. k \in Int
      BY DEF Others, ClientType
    <2>2. ready = [fresh EXCEPT !.ref = k, !.d = z]
      BY <1>3 DEF ClientType
    <2> HIDE DEF k
    <2>3. ready \in ClientType /\ ready.d = z /\ ready.ref = k
      BY <1>3, <1>5, <2>1, <2>2 DEF ClientType
    <2> QED BY <2>3 DEF k
  <1> HIDE DEF ready
  <1>8. Others(w) \in Int
    BY DEF Others, ClientType
  <1>9. Others(ready) = Others(w)
    BY <1>6, <1>7, <1>8 DEF Others
  <1>10. CASE v = w
    BY <1>10 DEF v
  <1>11. CASE v = fresh
    <2>1. Good(fresh)
      <3>1. /\ Zeroed.state = "OFF" /\ ~Zeroed.pcb_allocated /\ Zeroed.t1_renew_time = 0
            /\ Zeroed.t2_rebind_time = 0 /\ Zeroed.t0_timeout = 0
        BY DEF Zeroed
      <3> QED BY <1>3, <3>1, OffGood
    <2>2. Others(fresh) = Others(w)
      BY <1>3, <1>8 DEF Others, Zeroed
    <2> QED BY <1>3, <1>11, <2>1, <2>2 DEF v
  <1>12. CASE v = dhcp_set_state(ready, "INIT")
    <2>1. v \in ClientType /\ SameLease(v, ready) /\ v.d.state = "INIT"
      <3>1. "INIT" \in dhcp_state
        BY DEF dhcp_state
      <3> QED BY <1>7, <1>12, <3>1, SetState
    <2>2. Good(v)
      BY <1>6, <1>7, <2>1 DEF SameLease, Good, GoodOf, SoundOf, LeaseOK, UsedOK, PcbOK, OffOK,
          ConflictOK, TriesOK, TimerOK, Waiting, Supplying
    <2>3. Others(v) = Others(ready)
      BY <2>1 DEF Others, SameLease
    <2> QED BY <1>9, <2>1, <2>2, <2>3 DEF v
  <1>13. CASE v = dhcp_discover(ready, e)
    <2>1. SentFrom(v, ready, "SELECTING")
      BY <1>7, <1>13, DiscoverSent
    <2>2. UsedOK(ready.d) /\ LeaseOK(ready.d, ready.left)
      BY <1>6, <1>7 DEF UsedOK, LeaseOK, Supplying
    <2>3. v \in ClientType /\ Good(v) /\ Others(v) = Others(ready)
      BY <1>6, <1>7, <2>1, <2>2, SentGood DEF Waiting, Supplying
    <2> QED BY <1>9, <2>3 DEF v
  <1> QED BY <1>2, <1>4, <1>10, <1>11, <1>12, <1>13

\* A restart after a failure or an expiry needs nothing of the lease.
LEMMA Restarted ==
    ASSUME NEW w \in ClientType, NEW e \in Env, PcbOK(w.d), w.d.state = "OFF" => Good(w)
    PROVE  LET v == Restart(w, e)
           IN  v \in ClientType /\ Good(v) /\ Others(v) = Others(w)
  <1> DEFINE u == dhcp_release_and_stop(w, e)
  <1>1. u \in ClientType /\ Good(u) /\ Others(u) = Others(w)
    BY Released
  <1> HIDE DEF u
  <1>2. LET v == dhcp_start(u, e)
        IN  v \in ClientType /\ Good(v) /\ Others(v) = Others(w)
    BY <1>1, Started
  <1> QED BY <1>2 DEF Restart, u

-----------------------------------------------------------------------------
(* Answers, timeouts and changes of the network                            *)

\* An offer is answered.
LEMMA Offered ==
    ASSUME NEW w \in ClientType, NEW e \in Env, NEW m \in dhcp_msg,
           m.type = "OFFER", Good(w), w.d.state = "SELECTING"
    PROVE  LET v == dhcp_handle_offer(w, m, e)
           IN  v \in ClientType /\ Good(v) /\ Others(v) = Others(w)
  <1> DEFINE f == [w.d EXCEPT !.request_timeout = 0, !.offered_ip_addr = m.yiaddr]
             u == [w EXCEPT !.d = f]
             v == dhcp_select(u, e)
  <1>1. w.d \in struct_dhcp
    BY DEF ClientType
  <1>2. f \in struct_dhcp
    <2>1. 0 \in 0 .. 1 /\ m.yiaddr \in Ips
      BY DEF dhcp_msg
    <2> QED BY <1>1, <2>1 DEF struct_dhcp
  <1>3. u \in ClientType
    BY <1>2, WithD
  <1>4. SameLease(u, w) /\ u.d.state = "SELECTING"
    BY <1>1 DEF SameLease, ClientType, struct_dhcp
  <1>5. u = [w EXCEPT !.d.request_timeout = 0, !.d.offered_ip_addr = m.yiaddr]
    BY DEF ClientType
  <1> HIDE DEF u
  <1>6. SentFrom(v, u, "REQUESTING")
    <2>1. "REQUESTING" \in dhcp_state
      BY DEF dhcp_state, Waiting
    <2> QED BY <1>3, <2>1, RequestSent DEF dhcp_select
  <1> HIDE DEF v
  <1>7. /\ u.d.pcb_allocated /\ UsedOK(u.d) /\ LeaseOK(u.d, u.left)
    BY <1>4 DEF SameLease, Good, GoodOf, SoundOf, LeaseOK, InStep, UsedOK, PcbOK, Supplying
  <1>8. v \in ClientType /\ Good(v) /\ Others(v) = Others(u)
    BY <1>3, <1>4, <1>6, <1>7, SentGood DEF Waiting, Supplying
  <1>9. Others(u) = Others(w)
    BY <1>4 DEF Others, SameLease
  <1> QED BY <1>5, <1>8, <1>9 DEF dhcp_handle_offer, v

\* After a NAK the client starts over, without its address.
LEMMA Refused ==
    ASSUME NEW w \in ClientType, NEW e \in Env, Good(w), w.d.state # "OFF"
    PROVE  LET v == dhcp_handle_nak(w, e)
           IN  v \in ClientType /\ Good(v) /\ Others(v) = Others(w)
  <1> DEFINE b == dhcp_set_state(w, "BACKING_OFF")
             u == [b EXCEPT !.ip = IP4_ADDR_ANY]
             v == dhcp_discover(u, e)
  <1>1. b \in ClientType /\ SameLease(b, w) /\ b.d.state = "BACKING_OFF"
    <2>1. "BACKING_OFF" \in dhcp_state
      BY DEF dhcp_state, Waiting
    <2> QED BY <2>1, SetState
  <1> HIDE DEF b
  <1>2. u \in ClientType /\ u.d = b.d /\ u.ref = b.ref /\ u.left = b.left
    BY <1>1 DEF ClientType, Addr
  <1> HIDE DEF u
  <1>3. SentFrom(v, u, "SELECTING")
    BY <1>2, DiscoverSent
  <1> HIDE DEF v
  <1>4. u.d.pcb_allocated /\ UsedOK(u.d) /\ LeaseOK(u.d, u.left)
    BY <1>1, <1>2 DEF SameLease, Good, GoodOf, SoundOf, LeaseOK, InStep, UsedOK, PcbOK, Supplying
  <1>5. v \in ClientType /\ Good(v) /\ Others(v) = Others(u)
    BY <1>1, <1>2, <1>3, <1>4, SentGood DEF Waiting, Supplying
  <1>6. Others(u) = Others(w)
    BY <1>1, <1>2 DEF Others, SameLease
  <1> QED BY <1>5, <1>6 DEF dhcp_handle_nak, v, u, b

\* After a conflict the client backs off, and the address stays out.
LEMMA Declined ==
    ASSUME NEW w \in ClientType, NEW e \in Env, Good(w), w.d.state = "CHECKING"
    PROVE  LET v == dhcp_decline(w, e)
           IN  v \in ClientType /\ Good(v) /\ Others(v) = Others(w)
  <1> DEFINE s == Armed(dhcp_create_msg(dhcp_set_state(w, "BACKING_OFF"), "DECLINE",
                                        e.pbuf, e.rand))
             v == [s EXCEPT !.conflict = w.d.offered_ip_addr]
  <1>1. SentFrom(s, w, "BACKING_OFF")
    <2>1. "BACKING_OFF" \in dhcp_state /\ e.pbuf \in BOOLEAN /\ e.rand \in Xids
      BY DEF dhcp_state, Waiting, Env
    <2> QED BY <2>1, Send
  <1> HIDE DEF s
  <1>2. w.d.pcb_allocated /\ UsedOK(w.d) /\ LeaseOK(w.d, w.left)
    BY DEF Good, GoodOf, SoundOf, PcbOK
  <1>3. s \in ClientType /\ Good(s) /\ Others(s) = Others(w) /\ s.d.state = "BACKING_OFF"
    BY <1>1, <1>2, SentGood DEF Waiting, Supplying, SentFrom
  <1>4. w.d.offered_ip_addr \in Addr
    BY DEF ClientType, struct_dhcp, Addr
  <1>5. v \in ClientType /\ v.d = s.d /\ v.ref = s.ref /\ v.ip = s.ip /\ v.left = s.left
    BY <1>3, <1>4 DEF ClientType
  <1> HIDE DEF v
  <1>6. Good(v)
    BY <1>3, <1>5 DEF Good, GoodOf, SoundOf, ConflictOK
  <1>7. Others(v) = Others(w)
    BY <1>3, <1>5 DEF Others
  <1> QED BY <1>5, <1>6, <1>7 DEF dhcp_decline, v, s

\* dhcp_network_changed verifies the lease or starts over.
LEMMA Changed ==
    ASSUME NEW w \in ClientType, NEW e \in Env, Good(w)
    PROVE  LET v == dhcp_network_changed(w, e)
           IN  v \in ClientType /\ Good(v) /\ Others(v) = Others(w)
  <1> DEFINE f == [w.d EXCEPT !.tries = 0]
             u == [w EXCEPT !.d = f]
             v == dhcp_network_changed(w, e)
  <1>1. w.d \in struct_dhcp
    BY DEF ClientType
  <1>2. f \in struct_dhcp
    <2>1. 0 \in 0 .. TRIES_MAX
      BY DhcpAssumption
    <2> QED BY <1>1, <2>1 DEF struct_dhcp
  <1>3. u \in ClientType
    BY <1>2, WithD
  <1>4. SameLease(u, w) /\ u.d.state = w.d.state /\ u.d.tries = 0
    BY <1>1 DEF SameLease, ClientType, struct_dhcp
  <1>5. v = CASE w.d.state = "OFF" -> w
              [] w.d.state \in Supplying \cup {"REBOOTING"} -> dhcp_reboot(u, e)
              [] OTHER -> dhcp_discover(u, e)
    <2>1. u = [w EXCEPT !.d.tries = 0]
      BY DEF ClientType
    <2> HIDE DEF u
    <2> QED BY <2>1 DEF dhcp_network_changed
  <1> HIDE DEF u, v
  <1>6. Others(u) = Others(w)
    BY <1>4 DEF Others, SameLease
  <1>7. CASE w.d.state = "OFF"
    <2>1. v = w
      BY <1>5, <1>7 DEF Supplying
    <2> QED BY <2>1 DEF v
  <1>8. CASE w.d.state # "OFF"
    <2>1. u.d.pcb_allocated /\ UsedOK(u.d) /\ LeaseOK(u.d, u.left)
      <3>1. w.d.pcb_allocated /\ UsedOK(w.d) /\ LeaseOK(w.d, w.left)
        BY <1>8 DEF Good, GoodOf, SoundOf, PcbOK
      <3>2. UsedOK(u.d)
        BY <1>4, <3>1 DEF SameLease, UsedOK
      <3>3. LeaseOK(u.d, u.left)
        BY <1>4, <3>1 DEF SameLease, LeaseOK, InStep
      <3> QED BY <1>4, <3>1, <3>2, <3>3 DEF SameLease
    <2>2. CASE v = dhcp_reboot(u, e)
      <3>1. SentFrom(v, u, "REBOOTING")
        <4>1. "REBOOTING" \in dhcp_state
          BY DEF dhcp_state, Waiting
        <4> QED BY <1>3, <2>2, <4>1, RequestSent DEF dhcp_reboot
      <3>2. v \in ClientType /\ Good(v) /\ Others(v) = Others(u)
        BY <1>3, <1>4, <2>1, <3>1, SentGood DEF Waiting, Supplying, REBOOT_TRIES
      <3> QED BY <1>6, <3>2 DEF v
    <2>3. CASE v = dhcp_discover(u, e)
      <3>1. SentFrom(v, u, "SELECTING")
        BY <1>3, <2>3, DiscoverSent
      <3>2. v \in ClientType /\ Good(v) /\ Others(v) = Others(u)
        BY <1>3, <2>1, <3>1, SentGood DEF Waiting, Supplying
      <3> QED BY <1>6, <3>2 DEF v
    <2> QED BY <1>5, <1>8, <2>2, <2>3
  <1> QED BY <1>7, <1>8

\* dhcp_timeout sends again, goes on, or restarts.
LEMMA TimedOut ==
    ASSUME NEW w \in ClientType, NEW e \in Env, Sound(w), TriesOK(w.d)
    PROVE  LET v == dhcp_timeout(w, e)
           IN  v \in ClientType /\ Good(v) /\ Others(v) = Others(w)
  <1> DEFINE v == dhcp_timeout(w, e)
  <1>1. UsedOK(w.d) /\ LeaseOK(w.d, w.left) /\ PcbOK(w.d)
    BY DEF Sound, SoundOf
  <1>2. w.d.state # "OFF" => w.d.pcb_allocated
    BY <1>1 DEF PcbOK
  <1>3. {"SELECTING", "REQUESTING", "CHECKING", "REBOOTING", "BACKING_OFF"} \subseteq dhcp_state
    BY DEF dhcp_state, Waiting
  <1>4. CASE w.d.state \in {"BACKING_OFF", "SELECTING"}
    <2>1. v = dhcp_discover(w, e)
      BY <1>4 DEF dhcp_timeout
    <2> HIDE DEF v
    <2>2. SentFrom(v, w, "SELECTING")
      BY <2>1, DiscoverSent
    <2>3. v \in ClientType /\ Good(v) /\ Others(v) = Others(w)
      BY <1>1, <1>2, <1>4, <2>2, SentGood DEF Waiting, Supplying
    <2> QED BY <2>3 DEF v
  <1>5. CASE w.d.state = "REQUESTING"
    <2>1. v = IF w.d.tries <= 5 THEN dhcp_select(w, e) ELSE Restart(w, e)
      BY <1>5 DEF dhcp_timeout
    <2> HIDE DEF v
    <2>2. CASE w.d.tries <= 5
      <3>1. SentFrom(v, w, "REQUESTING")
        BY <1>3, <2>1, <2>2, RequestSent DEF dhcp_select
      <3>2. v \in ClientType /\ Good(v) /\ Others(v) = Others(w)
        BY <1>1, <1>2, <1>5, <2>2, <3>1, SentGood DEF Waiting, Supplying
      <3> QED BY <3>2 DEF v
    <2>3. CASE ~(w.d.tries <= 5)
      BY <1>1, <1>5, <2>1, <2>3, Restarted DEF v
    <2> QED BY <2>2, <2>3
  <1>6. CASE w.d.state = "CHECKING"
    <2>1. v = IF w.d.tries <= 1 THEN dhcp_check(w) ELSE dhcp_bind(w)
      BY <1>6 DEF dhcp_timeout
    <2> HIDE DEF v
    <2>2. w.conflict = IP4_ADDR_ANY
      BY <1>6 DEF Sound, SoundOf, ConflictOK
    <2>3. CASE w.d.tries <= 1
      <3>1. SentFrom(v, w, "CHECKING")
        BY <2>1, <2>3, CheckSent
      <3>2. w.d.tries < REBOOT_TRIES
        BY <2>3 DEF REBOOT_TRIES, ClientType, struct_dhcp
      <3>3. v \in ClientType /\ Good(v) /\ Others(v) = Others(w)
        BY <1>1, <1>2, <1>6, <2>2, <3>1, <3>2, SentGood DEF Waiting, Supplying
      <3> QED BY <3>3 DEF v
    <2>4. CASE ~(w.d.tries <= 1)
      BY <1>2, <1>6, <2>1, <2>2, <2>4, BindGood DEF v
    <2> QED BY <2>3, <2>4
  <1>7. CASE w.d.state = "REBOOTING"
    <2>1. v = IF w.d.tries < REBOOT_TRIES THEN dhcp_reboot(w, e) ELSE dhcp_discover(w, e)
      BY <1>7 DEF dhcp_timeout
    <2> HIDE DEF v
    <2>2. CASE w.d.tries < REBOOT_TRIES
      <3>1. SentFrom(v, w, "REBOOTING")
        BY <1>3, <2>1, <2>2, RequestSent DEF dhcp_reboot
      <3>2. v \in ClientType /\ Good(v) /\ Others(v) = Others(w)
        BY <1>1, <1>2, <1>7, <2>2, <3>1, SentGood DEF Waiting, Supplying
      <3> QED BY <3>2 DEF v
    <2>3. CASE ~(w.d.tries < REBOOT_TRIES)
      <3>1. SentFrom(v, w, "SELECTING")
        BY <2>1, <2>3, DiscoverSent
      <3>2. v \in ClientType /\ Good(v) /\ Others(v) = Others(w)
        BY <1>1, <1>2, <1>7, <3>1, SentGood DEF Waiting, Supplying
      <3> QED BY <3>2 DEF v
    <2> QED BY <2>2, <2>3
  <1>8. CASE w.d.state \notin Waiting
    <2>1. v = w
      BY <1>8 DEF dhcp_timeout, Waiting
    <2>2. Good(w)
      BY <1>8 DEF Sound, Good, GoodOf, TimerOK
    <2> QED BY <2>1, <2>2
  <1> QED BY <1>4, <1>5, <1>6, <1>7, <1>8 DEF Waiting

-----------------------------------------------------------------------------
(* The lease timer                                                         *)

\* The time to the next retry fits 16 bits.
LEMMA AgainType ==
    ASSUME NEW limit \in 0 .. U16MAX, NEW used \in 0 .. U16MAX, NEW o \in 0 .. U16MAX
    PROVE  Again(limit, used, o) \in 0 .. U16MAX
  BY DhcpAssumption DEF Again

\* A client that supplies its address may set the next renewal as it likes.
LEMMA Rescheduled ==
    ASSUME NEW v \in ClientType, Good(v), v.d.state \in Supplying, NEW k \in 0 .. U16MAX
    PROVE  /\ LET x == [v EXCEPT !.d.t1_renew_time = k]
              IN  x \in ClientType /\ Good(x) /\ Others(x) = Others(v)
           /\ LET x == [v EXCEPT !.d.t2_rebind_time = k]
              IN  x \in ClientType /\ Good(x) /\ Others(x) = Others(v)
  <1>1. v.d \in struct_dhcp
    BY DEF ClientType
  <1>2. ASSUME NEW g \in struct_dhcp,
               g.state = v.d.state, g.tries = v.d.tries,
               g.request_timeout = v.d.request_timeout,
               g.pcb_allocated = v.d.pcb_allocated,
               g.t0_timeout = v.d.t0_timeout, g.lease_used = v.d.lease_used
        PROVE  LET x == [v EXCEPT !.d = g]
               IN  x \in ClientType /\ Good(x) /\ Others(x) = Others(v)
    <2> DEFINE x == [v EXCEPT !.d = g]
    <2>1. x \in ClientType
      BY WithD
    <2>2. x.d = g /\ x.ip = v.ip /\ x.left = v.left /\ x.conflict = v.conflict /\ x.ref = v.ref
      BY DEF ClientType
    <2> HIDE DEF x
    <2>3. InStep(v.d, v.left)
      BY DEF Good, GoodOf, SoundOf, LeaseOK
    <2>4. LeaseOK(x.d, x.left) /\ UsedOK(x.d)
      BY <1>2, <2>2, <2>3 DEF Good, GoodOf, SoundOf, LeaseOK, InStep, UsedOK
    <2>5. PcbOK(x.d) /\ OffOK(x.d) /\ ConflictOK(x.d, x.conflict)
      BY <1>2, <2>2 DEF Good, GoodOf, SoundOf, PcbOK, OffOK, ConflictOK, Supplying
    <2>6. TriesOK(x.d) /\ TimerOK(x.d)
      BY <1>2, <2>2 DEF Good, GoodOf, TriesOK, TimerOK
    <2>7. Others(x) = Others(v)
      BY <1>2, <2>2 DEF Others
    <2>8. x \in ClientType /\ Good(x) /\ Others(x) = Others(v)
      BY <2>1, <2>4, <2>5, <2>6, <2>7 DEF Good, GoodOf, SoundOf
    <2> QED BY <2>8 DEF x
  <1>3. LET g == [v.d EXCEPT !.t1_renew_time = k]
            x == [v EXCEPT !.d = g]
        IN  x \in ClientType /\ Good(x) /\ Others(x) = Others(v)
    <2> DEFINE g == [v.d EXCEPT !.t1_renew_time = k]
    <2>1. /\ g \in struct_dhcp /\ g.state = v.d.state /\ g.tries = v.d.tries
          /\ g.request_timeout = v.d.request_timeout /\ g.pcb_allocated = v.d.pcb_allocated
          /\ g.t0_timeout = v.d.t0_timeout /\ g.lease_used = v.d.lease_used
      BY <1>1 DEF struct_dhcp
    <2> HIDE DEF g
    <2>2. LET x == [v EXCEPT !.d = g]
          IN  x \in ClientType /\ Good(x) /\ Others(x) = Others(v)
      BY <1>2, <2>1
    <2> QED BY <2>2 DEF g
  <1>4. LET g == [v.d EXCEPT !.t2_rebind_time = k]
            x == [v EXCEPT !.d = g]
        IN  x \in ClientType /\ Good(x) /\ Others(x) = Others(v)
    <2> DEFINE g == [v.d EXCEPT !.t2_rebind_time = k]
    <2>1. /\ g \in struct_dhcp /\ g.state = v.d.state /\ g.tries = v.d.tries
          /\ g.request_timeout = v.d.request_timeout /\ g.pcb_allocated = v.d.pcb_allocated
          /\ g.t0_timeout = v.d.t0_timeout /\ g.lease_used = v.d.lease_used
      BY <1>1 DEF struct_dhcp
    <2> HIDE DEF g
    <2>2. LET x == [v EXCEPT !.d = g]
          IN  x \in ClientType /\ Good(x) /\ Others(x) = Others(v)
      BY <1>2, <2>1
    <2> QED BY <2>2 DEF g
  <1>5. /\ [v EXCEPT !.d.t1_renew_time = k] = [v EXCEPT !.d = [v.d EXCEPT !.t1_renew_time = k]]
        /\ [v EXCEPT !.d.t2_rebind_time = k] = [v EXCEPT !.d = [v.d EXCEPT !.t2_rebind_time = k]]
    BY DEF ClientType
  <1> QED BY <1>3, <1>4, <1>5

\* dhcp_t1_timeout.
LEMMA Renewed ==
    ASSUME NEW w \in ClientType, NEW e \in Env, Good(w), InStep(w.d, w.left)
    PROVE  LET v == dhcp_t1_timeout(w, e)
           IN  v \in ClientType /\ Good(v) /\ Others(v) = Others(w)
  <1> DEFINE r == dhcp_renew(w, e)
             k == Again(w.d.t2_timeout, w.d.lease_used, r.d.t1_renew_time)
             v == [r EXCEPT !.d.t1_renew_time = k]
  <1>1. CASE w.d.state \in {"REQUESTING", "BOUND", "RENEWING"}
    <2>1. SentFrom(r, w, "RENEWING")
      <3>1. "RENEWING" \in dhcp_state
        BY DEF dhcp_state, Supplying
      <3> QED BY <3>1, RequestSent DEF dhcp_renew
    <2> HIDE DEF r
    <2>2. w.d.pcb_allocated /\ UsedOK(w.d) /\ LeaseOK(w.d, w.left)
      BY <1>1 DEF Good, GoodOf, SoundOf, PcbOK
    <2>3. r \in ClientType /\ Good(r) /\ Others(r) = Others(w) /\ r.d.state = "RENEWING"
      BY <2>1, <2>2, SentGood DEF Waiting, Supplying, SentFrom
    <2>4. k \in 0 .. U16MAX
      <3>1. /\ w.d.t2_timeout \in 0 .. U16MAX /\ w.d.lease_used \in 0 .. U16MAX
            /\ r.d.t1_renew_time \in 0 .. U16MAX
        BY <2>3 DEF ClientType, struct_dhcp
      <3> QED BY <3>1, AgainType
    <2> HIDE DEF k
    <2>5. v \in ClientType /\ Good(v) /\ Others(v) = Others(r)
      BY <2>3, <2>4, Rescheduled DEF Supplying
    <2>6. dhcp_t1_timeout(w, e) = v
      BY <1>1, <2>3 DEF dhcp_t1_timeout, r, k, ClientType, struct_dhcp
    <2> HIDE DEF v
    <2> QED BY <2>3, <2>5, <2>6
  <1>2. CASE w.d.state \notin {"REQUESTING", "BOUND", "RENEWING"}
    BY <1>2 DEF dhcp_t1_timeout
  <1> QED BY <1>1, <1>2

\* dhcp_t2_timeout.
LEMMA Rebound ==
    ASSUME NEW w \in ClientType, NEW e \in Env, Good(w), InStep(w.d, w.left)
    PROVE  LET v == dhcp_t2_timeout(w, e)
           IN  v \in ClientType /\ Good(v) /\ Others(v) = Others(w)
  <1> DEFINE r == dhcp_rebind(w, e)
             k == Again(w.d.t0_timeout, w.d.lease_used, r.d.t2_rebind_time)
             v == [r EXCEPT !.d.t2_rebind_time = k]
  <1>1. CASE w.d.state \in {"REQUESTING"} \cup Supplying
    <2>1. SentFrom(r, w, "REBINDING")
      <3>1. "REBINDING" \in dhcp_state
        BY DEF dhcp_state, Supplying
      <3> QED BY <3>1, RequestSent DEF dhcp_rebind
    <2> HIDE DEF r
    <2>2. w.d.pcb_allocated /\ UsedOK(w.d) /\ LeaseOK(w.d, w.left)
      BY <1>1 DEF Good, GoodOf, SoundOf, PcbOK, Supplying
    <2>3. r \in ClientType /\ Good(r) /\ Others(r) = Others(w) /\ r.d.state = "REBINDING"
      BY <2>1, <2>2, SentGood DEF Waiting, Supplying, SentFrom
    <2>4. k \in 0 .. U16MAX
      <3>1. /\ w.d.t0_timeout \in 0 .. U16MAX /\ w.d.lease_used \in 0 .. U16MAX
            /\ r.d.t2_rebind_time \in 0 .. U16MAX
        BY <2>3 DEF ClientType, struct_dhcp
      <3> QED BY <3>1, AgainType
    <2> HIDE DEF k
    <2>5. v \in ClientType /\ Good(v) /\ Others(v) = Others(r)
      BY <2>3, <2>4, Rescheduled DEF Supplying
    <2>6. dhcp_t2_timeout(w, e) = v
      BY <1>1, <2>3 DEF dhcp_t2_timeout, r, k, ClientType, struct_dhcp
    <2> HIDE DEF v
    <2> QED BY <2>3, <2>5, <2>6
  <1>2. CASE w.d.state \notin {"REQUESTING"} \cup Supplying
    BY <1>2 DEF dhcp_t2_timeout
  <1> QED BY <1>1, <1>2

\* x is w a tick later, with no more timers running.
AgedFrom(x, w) ==
    /\ x \in ClientType
    /\ x.ip = w.ip /\ x.ref = w.ref /\ x.conflict = w.conflict
    /\ x.d.state = w.d.state /\ x.d.tries = w.d.tries
    /\ x.d.request_timeout = w.d.request_timeout
    /\ x.d.pcb_allocated = w.d.pcb_allocated
    /\ UsedOK(x.d)
    /\ x.d.t1_renew_time > 0 => w.d.t1_renew_time > 0
    /\ x.d.t2_rebind_time > 0 => w.d.t2_rebind_time > 0
    /\ InStep(w.d, w.left) => InStep(x.d, x.left)

\* A tick leaves a good client good.
LEMMA AgedGood ==
    ASSUME NEW w \in ClientType, NEW x, Good(w), w.d.state # "OFF", AgedFrom(x, w)
    PROVE  Good(x) /\ Others(x) = Others(w)
  <1>1. LeaseOK(x.d, x.left)
    BY DEF Good, GoodOf, SoundOf, LeaseOK, AgedFrom
  <1>2. UsedOK(x.d) /\ PcbOK(x.d) /\ OffOK(x.d) /\ ConflictOK(x.d, x.conflict)
    BY DEF Good, GoodOf, SoundOf, PcbOK, OffOK, ConflictOK, AgedFrom
  <1>3. TriesOK(x.d) /\ TimerOK(x.d)
    BY DEF Good, GoodOf, TriesOK, TimerOK, AgedFrom
  <1>4. Others(x) = Others(w)
    BY DEF Others, AgedFrom
  <1> QED BY <1>1, <1>2, <1>3, <1>4 DEF Good, GoodOf, SoundOf

\* The history variable after a tick.
LeftAfter(left) == IF left = Forever THEN left ELSE Down(left)

\* One coarse tick: the lease ends and the client restarts, a timer runs out
\* while the lease lasts, or both only get older.
LEMMA Ticked ==
    ASSUME NEW w \in ClientType, NEW e \in Env, Good(w), w.d.state # "OFF",
           NEW a \in ClientType,
           a = [w EXCEPT !.left = LeftAfter(w.left)]
    PROVE  LET v == LeaseTick(a, e)
           IN  v \in ClientType /\ Good(v) /\ Others(v) = Others(w)
  <1> DEFINE d == w.d
             used == IF d.t0_timeout > 0 THEN d.lease_used + 1 ELSE d.lease_used
             f == [d EXCEPT !.lease_used = used]
             f2 == [f EXCEPT !.t2_rebind_time = Down(d.t2_rebind_time)]
             f1 == [f2 EXCEPT !.t1_renew_time = Down(d.t1_renew_time)]
             aged == [a EXCEPT !.d = f]
             t2 == [a EXCEPT !.d = f2]
             t1 == [a EXCEPT !.d = f1]
             over == d.t0_timeout > 0 /\ used = d.t0_timeout
             v == LeaseTick(a, e)
  <1>1. /\ a.d = d /\ a.ip = w.ip /\ a.ref = w.ref /\ a.conflict = w.conflict
        /\ a.left = LeftAfter(w.left) /\ d \in struct_dhcp /\ w.left \in 0 .. Forever
    BY DEF ClientType
  <1>2. /\ d.t0_timeout \in 0 .. U16MAX /\ d.lease_used \in 0 .. U16MAX
        /\ d.t1_renew_time \in 0 .. U16MAX /\ d.t2_rebind_time \in 0 .. U16MAX
    BY <1>1 DEF struct_dhcp
  <1>3. used \in 0 .. U16MAX /\ (d.t0_timeout > 0 => used <= d.t0_timeout)
    BY <1>2, DhcpAssumption DEF Good, GoodOf, SoundOf, UsedOK
  <1>4. /\ Down(d.t1_renew_time) \in 0 .. U16MAX /\ Down(d.t2_rebind_time) \in 0 .. U16MAX
        /\ Down(d.t1_renew_time) > 0 => d.t1_renew_time > 0
        /\ Down(d.t2_rebind_time) > 0 => d.t2_rebind_time > 0
    BY <1>2, DhcpAssumption DEF Down
  <1>5. v = CASE over -> Restart(aged, e)
              [] ~over /\ d.t2_rebind_time = 1 -> dhcp_t2_timeout(t2, e)
              [] ~over /\ d.t2_rebind_time # 1 /\ d.t1_renew_time = 1 -> dhcp_t1_timeout(t1, e)
              [] OTHER -> t1
    <2> DEFINE g == [a EXCEPT !.d.lease_used = used]
               g2 == [g EXCEPT !.d.t2_rebind_time = Down(@)]
               g1 == [g2 EXCEPT !.d.t1_renew_time = Down(@)]
    <2>1. v = CASE over -> Restart(g, e)
                [] ~over /\ d.t2_rebind_time = 1 -> dhcp_t2_timeout(g2, e)
                [] ~over /\ d.t2_rebind_time # 1 /\ d.t1_renew_time = 1 -> dhcp_t1_timeout(g1, e)
                [] OTHER -> g1
      BY <1>1 DEF LeaseTick
    <2> HIDE DEF used
    <2>2. g = aged
      BY <1>1 DEF ClientType
    <2>3. g2 = t2
      BY <1>1, <2>2 DEF ClientType, struct_dhcp
    <2>4. g1 = t1
      BY <1>1, <2>3 DEF ClientType, struct_dhcp
    <2> HIDE DEF g, g1, g2, aged, t1, t2, v
    <2> QED BY <2>1, <2>2, <2>3, <2>4
  <1> HIDE DEF v
  <1>6. CASE over
    <2> HIDE DEF used
    <2>1. v = Restart(aged, e)
      BY <1>5, <1>6
    <2>2. f \in struct_dhcp /\ f.state = d.state /\ f.pcb_allocated = d.pcb_allocated
      BY <1>1, <1>3 DEF struct_dhcp
    <2> HIDE DEF f
    <2>3. aged \in ClientType /\ aged.d = f /\ aged.ref = w.ref
      BY <1>1, <2>2, WithD DEF ClientType
    <2> HIDE DEF aged
    <2>4. PcbOK(aged.d) /\ aged.d.state # "OFF" /\ Others(aged) = Others(w)
      BY <2>2, <2>3 DEF PcbOK, Others, Good, GoodOf, SoundOf
    <2>5. v \in ClientType /\ Good(v) /\ Others(v) = Others(aged)
      BY <2>1, <2>3, <2>4, Restarted
    <2> QED BY <2>4, <2>5 DEF v
  <1>7. CASE ~over
    <2>1. ASSUME InStep(d, w.left)
          PROVE  \/ LeftAfter(w.left) = Forever
                 \/ used < d.t0_timeout /\ LeftAfter(w.left) = d.t0_timeout - used
      BY <1>1, <1>2, <1>7, <2>1, DhcpAssumption DEF InStep, LeftAfter, Down, Forever
    <2>2. d.t0_timeout > 0 => used < d.t0_timeout
      BY <1>2, <1>3, <1>7
    <2> HIDE DEF used
    <2>3. /\ f2 \in struct_dhcp /\ f2.state = d.state /\ f2.tries = d.tries
          /\ f2.request_timeout = d.request_timeout /\ f2.pcb_allocated = d.pcb_allocated
          /\ f2.t0_timeout = d.t0_timeout /\ f2.lease_used = used
          /\ f2.t1_renew_time = d.t1_renew_time
          /\ f2.t2_rebind_time = Down(d.t2_rebind_time)
      BY <1>1, <1>3, <1>4 DEF struct_dhcp
    <2> HIDE DEF f2
    <2>4. /\ f1 \in struct_dhcp /\ f1.state = d.state /\ f1.tries = d.tries
          /\ f1.request_timeout = d.request_timeout /\ f1.pcb_allocated = d.pcb_allocated
          /\ f1.t0_timeout = d.t0_timeout /\ f1.lease_used = used
          /\ f1.t1_renew_time = Down(d.t1_renew_time)
          /\ f1.t2_rebind_time = Down(d.t2_rebind_time)
      BY <1>1, <1>4, <2>3 DEF struct_dhcp
    <2> HIDE DEF f1
    <2>5. /\ t2 \in ClientType /\ t2.d = f2 /\ t2.ip = w.ip /\ t2.ref = w.ref
          /\ t2.left = LeftAfter(w.left) /\ t2.conflict = w.conflict
      BY <1>1, <2>3, WithD DEF ClientType
    <2>6. /\ t1 \in ClientType /\ t1.d = f1 /\ t1.ip = w.ip /\ t1.ref = w.ref
          /\ t1.left = LeftAfter(w.left) /\ t1.conflict = w.conflict
      BY <1>1, <2>4, WithD DEF ClientType
    <2> HIDE DEF t1, t2
    <2>7. AgedFrom(t2, w)
      <3>1. UsedOK(t2.d)
        BY <2>2, <2>3, <2>5 DEF UsedOK
      <3>2. InStep(w.d, w.left) => InStep(t2.d, t2.left)
        BY <2>1, <2>3, <2>5 DEF InStep
      <3> QED BY <1>4, <2>3, <2>5, <3>1, <3>2 DEF AgedFrom
    <2>8. AgedFrom(t1, w)
      <3>1. UsedOK(t1.d)
        BY <2>2, <2>4, <2>6 DEF UsedOK
      <3>2. InStep(w.d, w.left) => InStep(t1.d, t1.left)
        BY <2>1, <2>4, <2>6 DEF InStep
      <3> QED BY <1>4, <2>4, <2>6, <3>1, <3>2 DEF AgedFrom
    <2>9. Good(t1) /\ Others(t1) = Others(w) /\ Good(t2) /\ Others(t2) = Others(w)
      BY <2>7, <2>8, AgedGood
    <2>10. CASE d.t2_rebind_time = 1
      <3>1. v = dhcp_t2_timeout(t2, e)
        BY <1>5, <1>7, <2>10
      <3>2. InStep(t2.d, t2.left)
        BY <2>7, <2>10 DEF Good, GoodOf, SoundOf, LeaseOK, AgedFrom
      <3>3. v \in ClientType /\ Good(v) /\ Others(v) = Others(t2)
        BY <2>5, <2>9, <3>1, <3>2, Rebound
      <3> QED BY <2>9, <3>3 DEF v
    <2>11. CASE d.t2_rebind_time # 1 /\ d.t1_renew_time = 1
      <3>1. v = dhcp_t1_timeout(t1, e)
        BY <1>5, <1>7, <2>11
      <3>2. InStep(t1.d, t1.left)
        BY <2>8, <2>11 DEF Good, GoodOf, SoundOf, LeaseOK, AgedFrom
      <3>3. v \in ClientType /\ Good(v) /\ Others(v) = Others(t1)
        BY <2>6, <2>9, <3>1, <3>2, Renewed
      <3> QED BY <2>9, <3>3 DEF v
    <2>12. CASE d.t2_rebind_time # 1 /\ d.t1_renew_time # 1
      <3>1. v = t1
        BY <1>5, <1>7, <2>12
      <3> QED BY <2>6, <2>9, <3>1 DEF v
    <2> QED BY <2>10, <2>11, <2>12
  <1> QED BY <1>6, <1>7

-----------------------------------------------------------------------------
(* The system                                                              *)

Holders == {n \in Netifs : dhcp[n].pcb_allocated}

\* The inductive invariant.
IInv ==
    /\ TypeOK
    /\ \A n \in Netifs : GoodOf(dhcp[n], lease_left[n], conflict[n])
    /\ dhcp_pcb_refcount = leaked + Cardinality(Holders)

\* What a function is entered with.
LEMMA ClientGood ==
    ASSUME IInv, NEW n \in Netifs
    PROVE  Client(n) \in ClientType /\ Good(Client(n))
  <1>1. Client(n) \in ClientType
    BY DEF IInv, TypeOK, Client, ClientType, Addr, XidOrNone
  <1>2. Good(Client(n))
    BY DEF IInv, Client, Good
  <1> QED BY <1>1, <1>2

\* A function that leaves a good client, and no more in the share of the others
\* in the count than has leaked in the step, preserves the invariant.
LEMMA BecomesOther ==
    ASSUME IInv, NEW n \in Netifs, NEW v \in ClientType, Good(v), Becomes(n, v),
           leaked' \in 0 .. MaxLeaked, Others(v) = Others(Client(n)) + (leaked' - leaked),
           up' \in [Netifs -> BOOLEAN], link_up' \in [Netifs -> BOOLEAN]
    PROVE  IInv'
  <1> DEFINE rest == {k \in Netifs \ {n} : dhcp[k].pcb_allocated}
             c == Cardinality(rest)
  <1>1. /\ dhcp \in [Netifs -> struct_dhcp] /\ ip_addr \in [Netifs -> Addr]
        /\ lease_left \in [Netifs -> 0 .. Forever] /\ conflict \in [Netifs -> Addr]
    BY DEF IInv, TypeOK, Addr
  <1>2. /\ v.d \in struct_dhcp /\ v.ip \in Addr /\ v.ref \in Int /\ v.xid \in XidOrNone
        /\ v.left \in 0 .. Forever /\ v.conflict \in Addr
    BY DEF ClientType
  <1>3. /\ dhcp' = [dhcp EXCEPT ![n] = v.d] /\ ip_addr' = [ip_addr EXCEPT ![n] = v.ip]
        /\ dhcp_pcb_refcount' = v.ref /\ xid' = v.xid
        /\ lease_left' = [lease_left EXCEPT ![n] = v.left]
        /\ conflict' = [conflict EXCEPT ![n] = v.conflict]
    BY DEF Becomes
  <1>4. IsFiniteSet(rest)
    BY DhcpAssumption, FS_Subset
  <1>5. c \in Nat
    BY <1>4, FS_CardinalityType
  <1>6. n \notin rest /\ Cardinality(rest \cup {n}) = c + 1
    BY <1>4, FS_AddElement
  <1>7. Cardinality(Holders) = c + (IF dhcp[n].pcb_allocated THEN 1 ELSE 0)
    <2>1. Holders = IF dhcp[n].pcb_allocated THEN rest \cup {n} ELSE rest
      BY DEF Holders
    <2> HIDE DEF rest
    <2> QED BY <1>5, <1>6, <2>1
  <1>8. Others(Client(n)) = dhcp_pcb_refcount - (IF dhcp[n].pcb_allocated THEN 1 ELSE 0)
    BY DEF Others, Client
  <1>9. leaked \in Nat /\ leaked' \in Nat /\ Others(v) = leaked' + c
    <2>1. leaked \in Nat /\ leaked' \in Nat
      BY DhcpAssumption DEF IInv, TypeOK
    <2> HIDE DEF c
    <2>2. Others(Client(n)) = leaked + c
      BY <1>5, <1>7, <1>8, <2>1 DEF IInv
    <2> QED BY <1>5, <2>1, <2>2
  <1>10. v.ref = leaked' + c + (IF v.d.pcb_allocated THEN 1 ELSE 0)
    <2> HIDE DEF c
    <2> QED BY <1>2, <1>5, <1>9 DEF Others
  <1>11. Cardinality(Holders') = c + (IF v.d.pcb_allocated THEN 1 ELSE 0)
    <2>1. Holders' = IF v.d.pcb_allocated THEN rest \cup {n} ELSE rest
      BY <1>1, <1>3 DEF Holders
    <2> HIDE DEF rest
    <2> QED BY <1>5, <1>6, <2>1
  <1>12. dhcp_pcb_refcount' = leaked' + Cardinality(Holders') /\ dhcp_pcb_refcount' \in Nat
    <2> DEFINE h == IF v.d.pcb_allocated THEN 1 ELSE 0
    <2>1. h \in Nat
      OBVIOUS
    <2>2. dhcp_pcb_refcount' = leaked' + c + h /\ Cardinality(Holders') = c + h
      BY <1>3, <1>10, <1>11
    <2> HIDE DEF c, h
    <2>3. leaked' + c + h = leaked' + (c + h) /\ leaked' + c + h \in Nat
      <3>1. \A i, j, k \in Nat : i + j + k = i + (j + k) /\ i + j + k \in Nat
        OBVIOUS
      <3> QED BY <1>5, <1>9, <2>1, <3>1, Zenon
    <2> QED BY <2>2, <2>3, Zenon
  <1>13. TypeOK'
    BY <1>1, <1>2, <1>3, <1>12 DEF TypeOK, Addr, XidOrNone
  <1>14. ASSUME NEW k \in Netifs
         PROVE  GoodOf(dhcp'[k], lease_left'[k], conflict'[k])
    <2>1. CASE k = n
      <3>1. dhcp'[k] = v.d /\ ip_addr'[k] = v.ip /\ lease_left'[k] = v.left /\ conflict'[k] = v.conflict
        BY <1>1, <1>3, <2>1
      <3> QED BY <3>1 DEF Good
    <2>2. CASE k # n
      <3>1. /\ dhcp'[k] = dhcp[k] /\ ip_addr'[k] = ip_addr[k]
            /\ lease_left'[k] = lease_left[k] /\ conflict'[k] = conflict[k]
        BY <1>1, <1>3, <2>2
      <3> QED BY <3>1 DEF IInv
    <2> QED BY <2>1, <2>2
  <1> QED BY <1>12, <1>13, <1>14 DEF IInv

\* Every function but dhcp_cleanup leaves the share of the others as it was.
LEMMA BecomesGood ==
    ASSUME IInv, NEW n \in Netifs, NEW v \in ClientType, Good(v), Becomes(n, v),
           Others(v) = Others(Client(n)), leaked' = leaked,
           up' \in [Netifs -> BOOLEAN], link_up' \in [Netifs -> BOOLEAN]
    PROVE  IInv'
  <1>1. leaked \in 0 .. MaxLeaked /\ leaked \in Int
    BY DhcpAssumption DEF IInv, TypeOK
  <1>2. Others(Client(n)) \in Int
    BY ClientGood DEF Others, ClientType
  <1>3. Others(v) = Others(Client(n)) + (leaked' - leaked)
    BY <1>1, <1>2
  <1> QED BY <1>1, <1>3, BecomesOther

\* The invariant holds before any client is started.
LEMMA InitIInv == Init => IInv
  <1> SUFFICES ASSUME Init PROVE IInv
    OBVIOUS
  <1>1. TypeOK
    <2>1. 0 \in 0 .. Forever
      BY DhcpAssumption DEF Forever
    <2>2. 0 \in 0 .. MaxLeaked
      BY DhcpAssumption
    <2> QED BY <2>1, <2>2, ZeroedType DEF Init, TypeOK
  <1>2. ASSUME NEW n \in Netifs
        PROVE  GoodOf(dhcp[n], lease_left[n], conflict[n])
    BY DEF Init, Zeroed, GoodOf, SoundOf, LeaseOK, UsedOK, PcbOK, OffOK, ConflictOK, TriesOK,
        TimerOK, Waiting, Supplying
  <1>3. dhcp_pcb_refcount = leaked + Cardinality(Holders)
    <2>1. Holders = {}
      BY DEF Init, Zeroed, Holders
    <2> QED BY <2>1, FS_EmptySet DEF Init
  <1> QED BY <1>1, <1>2, <1>3 DEF IInv

\* A step that changes neither the clients nor the count.
LEMMA SameClients ==
    ASSUME IInv, xid' \in XidOrNone,
           UNCHANGED <<dhcp, ip_addr, dhcp_pcb_refcount, lease_left, conflict, leaked>>,
           up' \in [Netifs -> BOOLEAN], link_up' \in [Netifs -> BOOLEAN]
    PROVE  IInv'
  <1>1. TypeOK'
    BY DEF IInv, TypeOK, XidOrNone
  <1>2. Holders' = Holders
    BY DEF Holders
  <1> QED BY <1>1, <1>2 DEF IInv

\* A request timeout.
LEMMA FineTmr ==
    ASSUME IInv, NEW n \in Netifs, NEW e \in Env, dhcp_fine_tmr(n, e)
    PROVE  IInv'
  <1> DEFINE c == Client(n)
             f == [c.d EXCEPT !.request_timeout = 0]
             w == [c EXCEPT !.d = f]
             v == dhcp_timeout(w, e)
  <1>1. c \in ClientType /\ Good(c)
    BY ClientGood
  <1>2. Becomes(n, dhcp_timeout([c EXCEPT !.d.request_timeout = 0], e))
    BY DEF dhcp_fine_tmr
  <1> HIDE DEF c
  <1>3. [c EXCEPT !.d.request_timeout = 0] = w
    BY <1>1 DEF ClientType
  <1>4. f \in struct_dhcp
    <2>1. c.d \in struct_dhcp /\ 0 \in 0 .. 1
      BY <1>1 DEF ClientType
    <2> QED BY <2>1 DEF struct_dhcp
  <1>5. w \in ClientType
    BY <1>1, <1>4, WithD
  <1>6. SameLease(w, c) /\ w.d.state = c.d.state /\ w.d.tries = c.d.tries
    BY <1>1 DEF SameLease, ClientType, struct_dhcp
  <1> HIDE DEF w
  <1>7. Sound(w)
    <2>1. LeaseOK(w.d, w.left) /\ UsedOK(w.d)
      BY <1>1, <1>6 DEF Good, GoodOf, SoundOf, LeaseOK, InStep, UsedOK, SameLease
    <2>2. PcbOK(w.d) /\ OffOK(w.d) /\ ConflictOK(w.d, w.conflict)
      BY <1>1, <1>6 DEF Good, GoodOf, SoundOf, PcbOK, OffOK, ConflictOK, SameLease
    <2> QED BY <2>1, <2>2 DEF Sound, SoundOf
  <1>8. TriesOK(w.d) /\ Others(w) = Others(c)
    BY <1>1, <1>6 DEF Good, GoodOf, TriesOK, Others, SameLease
  <1>9. v \in ClientType /\ Good(v) /\ Others(v) = Others(w)
    BY <1>5, <1>7, <1>8, TimedOut
  <1>10. Becomes(n, v)
    BY <1>2, <1>3
  <1> HIDE DEF v
  <1>11. up' \in [Netifs -> BOOLEAN] /\ link_up' \in [Netifs -> BOOLEAN] /\ leaked' = leaked
    BY DEF dhcp_fine_tmr, IInv, TypeOK
  <1> QED BY <1>8, <1>9, <1>10, <1>11, BecomesGood DEF c

\* A tick of the lease.
LEMMA CoarseTmr ==
    ASSUME IInv, NEW n \in Netifs, NEW e \in Env, dhcp_coarse_tmr(n, e)
    PROVE  IInv'
  <1> DEFINE c == Client(n)
             w == [c EXCEPT !.left = LeftAfter(c.left)]
             v == IF w.d.state = "OFF" THEN w ELSE LeaseTick(w, e)
  <1>1. c \in ClientType /\ Good(c)
    BY ClientGood
  <1>2. Becomes(n, LET a == [c EXCEPT !.left = IF @ = Forever THEN @ ELSE Down(@)]
                   IN  IF a.d.state = "OFF" THEN a ELSE LeaseTick(a, e))
    BY DEF dhcp_coarse_tmr
  <1> HIDE DEF c
  <1>3. [c EXCEPT !.left = IF @ = Forever THEN @ ELSE Down(@)] = w
    BY <1>1 DEF ClientType, LeftAfter
  <1>4. LeftAfter(c.left) \in 0 .. Forever
    BY <1>1, DhcpAssumption DEF LeftAfter, Down, ClientType, Forever
  <1>5. w \in ClientType /\ w.d = c.d /\ w.ref = c.ref /\ w.ip = c.ip /\ w.conflict = c.conflict
    <2> DEFINE l == LeftAfter(c.left)
    <2> HIDE DEF l
    <2>1. l \in 0 .. Forever
      BY <1>4 DEF l
    <2>2. w = [c EXCEPT !.left = l]
      BY DEF l
    <2> HIDE DEF w
    <2> QED BY <1>1, <2>1, <2>2 DEF ClientType
  <1>6. v \in ClientType /\ Good(v) /\ Others(v) = Others(c)
    <2>1. CASE w.d.state = "OFF"
      <3>1. v = w
        BY <2>1
      <3> HIDE DEF v, w
      <3>2. Good(w)
        BY <1>1, <1>5, <2>1 DEF Good, GoodOf, SoundOf, LeaseOK, OffOK, Supplying
      <3>3. Others(w) = Others(c)
        BY <1>5 DEF Others
      <3> QED BY <1>5, <3>1, <3>2, <3>3
    <2>2. CASE w.d.state # "OFF"
      <3>1. v = LeaseTick(w, e)
        BY <2>2
      <3>2. w = [c EXCEPT !.left = LeftAfter(c.left)]
        OBVIOUS
      <3> HIDE DEF v, w
      <3> QED BY <1>1, <1>5, <2>2, <3>1, <3>2, Ticked
    <2> QED BY <2>1, <2>2
  <1>7. Becomes(n, v)
    BY <1>2, <1>3
  <1> HIDE DEF v
  <1>8. up' \in [Netifs -> BOOLEAN] /\ link_up' \in [Netifs -> BOOLEAN] /\ leaked' = leaked
    BY DEF dhcp_coarse_tmr, IInv, TypeOK
  <1> QED BY <1>6, <1>7, <1>8, BecomesGood DEF c

\* A reply.
LEMMA Recv ==
    ASSUME IInv, NEW n \in Netifs, NEW e \in Env, NEW x, NEW m \in dhcp_msg,
           dhcp_recv(n, x, m, e)
    PROVE  IInv'
  <1> DEFINE w == Client(n)
             a == dhcp_handle_ack(w, m)
  <1>1. w \in ClientType /\ Good(w)
    BY ClientGood
  <1>2. up' \in [Netifs -> BOOLEAN] /\ link_up' \in [Netifs -> BOOLEAN] /\ leaked' = leaked
    BY DEF dhcp_recv, IInv, TypeOK
  <1>3. w.d.pcb_allocated
    BY DEF dhcp_recv
  <1>4. SUFFICES \E v \in ClientType : Good(v) /\ Others(v) = Others(w) /\ Becomes(n, v)
    BY <1>2, BecomesGood
  <1>5. \/ /\ m.type = "ACK" /\ w.d.state = "REQUESTING" /\ DHCP_DOES_ARP_CHECK
           /\ Becomes(n, dhcp_check(a))
        \/ /\ m.type = "ACK" /\ w.d.state \in {"REQUESTING", "REBOOTING", "REBINDING", "RENEWING"}
           /\ Becomes(n, dhcp_bind(a))
        \/ /\ m.type = "NAK" /\ w.d.state \in {"REBOOTING", "REQUESTING", "REBINDING", "RENEWING"}
           /\ Becomes(n, dhcp_handle_nak(w, e))
        \/ /\ m.type = "OFFER" /\ w.d.state = "SELECTING"
           /\ Becomes(n, dhcp_handle_offer(w, m, e))
    BY DEF dhcp_recv
  <1> HIDE DEF w
  <1>6. ASSUME m.type = "ACK"
        PROVE  /\ a \in ClientType /\ a.conflict = IP4_ADDR_ANY /\ a.d.state = w.d.state
               /\ a.d.pcb_allocated /\ Others(a) = Others(w)
               /\ UsedOK(a.d) /\ LeaseOK(a.d, a.left)
    <2> DEFINE o == [w EXCEPT !.conflict = IP4_ADDR_ANY]
    <2>1. /\ a \in ClientType /\ a.conflict = IP4_ADDR_ANY /\ a.d.state = w.d.state
          /\ SameLease(a, o)
      BY <1>1, <1>6, Ack
    <2>2. o.d = w.d /\ o.ref = w.ref /\ o.ip = w.ip /\ o.left = w.left
      BY <1>1 DEF ClientType
    <2> HIDE DEF a, o
    <2>3. a.d.pcb_allocated /\ Others(a) = Others(w)
      BY <1>3, <2>1, <2>2 DEF SameLease, Others
    <2>4. UsedOK(a.d)
      BY <1>1, <2>1, <2>2 DEF Good, GoodOf, SoundOf, UsedOK, SameLease
    <2>5. LeaseOK(a.d, a.left)
      BY <1>1, <2>1, <2>2 DEF Good, GoodOf, SoundOf, LeaseOK, InStep, SameLease
    <2> QED BY <2>1, <2>3, <2>4, <2>5
  <1> HIDE DEF a
  <1>7. CASE m.type = "ACK" /\ w.d.state = "REQUESTING" /\ Becomes(n, dhcp_check(a))
    <2>1. SentFrom(dhcp_check(a), a, "CHECKING")
      BY <1>6, <1>7, CheckSent
    <2>2. dhcp_check(a) \in ClientType /\ Good(dhcp_check(a)) /\ Others(dhcp_check(a)) = Others(a)
      BY <1>6, <1>7, <2>1, SentGood DEF Waiting, Supplying
    <2> QED BY <1>6, <1>7, <2>2
  <1>8. CASE m.type = "ACK" /\ Becomes(n, dhcp_bind(a))
    <2>1. dhcp_bind(a) \in ClientType /\ Good(dhcp_bind(a)) /\ Others(dhcp_bind(a)) = Others(a)
      BY <1>6, <1>8, BindGood
    <2> QED BY <1>6, <1>8, <2>1
  <1>9. CASE w.d.state # "OFF" /\ Becomes(n, dhcp_handle_nak(w, e))
    BY <1>1, <1>9, Refused
  <1>10. CASE m.type = "OFFER" /\ w.d.state = "SELECTING" /\ Becomes(n, dhcp_handle_offer(w, m, e))
    BY <1>1, <1>10, Offered
  <1> QED BY <1>5, <1>7, <1>8, <1>9, <1>10

\* The functions entered from outside, and an ARP reply.
LEMMA Called ==
    ASSUME IInv, NEW n \in Netifs, NEW e \in Env,
           \/ Start(n, e) \/ Stop(n, e) \/ Renew(n, e) \/ NetworkChanged(n, e)
           \/ netif_set_link_up(n, e) \/ \E ip \in Ips : dhcp_arp_reply(n, ip, e)
    PROVE  IInv'
  <1> DEFINE w == Client(n)
  <1>1. w \in ClientType /\ Good(w)
    BY ClientGood
  <1>2. up \in [Netifs -> BOOLEAN] /\ link_up \in [Netifs -> BOOLEAN]
    BY DEF IInv, TypeOK
  <1>3. SUFFICES /\ up' \in [Netifs -> BOOLEAN] /\ link_up' \in [Netifs -> BOOLEAN]
                 /\ leaked' = leaked
                 /\ \E v \in ClientType : Good(v) /\ Others(v) = Others(w) /\ Becomes(n, v)
    BY BecomesGood
  <1>4. CASE Start(n, e)
    <2>1. Becomes(n, dhcp_start(w, e)) /\ UNCHANGED <<up, link_up, leaked>>
      BY <1>4 DEF Start
    <2> HIDE DEF w
    <2> QED BY <1>1, <1>2, <2>1, Started
  <1>5. CASE Stop(n, e)
    <2>1. Becomes(n, dhcp_release_and_stop(w, e)) /\ UNCHANGED <<up, link_up, leaked>>
      BY <1>5 DEF Stop
    <2>2. PcbOK(w.d)
      BY <1>1 DEF Good, GoodOf, SoundOf
    <2> HIDE DEF w
    <2> QED BY <1>1, <1>2, <2>1, <2>2, Released
  <1>6. CASE Renew(n, e)
    <2>1. /\ w.d.state \in Supplying
          /\ Becomes(n, dhcp_renew(w, e)) /\ UNCHANGED <<up, link_up, leaked>>
      BY <1>6 DEF Renew, dhcp_supplied_address
    <2> HIDE DEF w
    <2>2. SentFrom(dhcp_renew(w, e), w, "RENEWING")
      <3>1. "RENEWING" \in dhcp_state
        BY DEF dhcp_state, Supplying
      <3> QED BY <1>1, <3>1, RequestSent DEF dhcp_renew
    <2>3. /\ w.d.pcb_allocated /\ UsedOK(w.d) /\ LeaseOK(w.d, w.left)
          /\ InStep(w.d, w.left)
      BY <1>1, <2>1 DEF Good, GoodOf, SoundOf, PcbOK, LeaseOK, Supplying
    <2> DEFINE v == dhcp_renew(w, e)
    <2> HIDE DEF v
    <2>4. SentFrom(v, w, "RENEWING")
      BY <2>2 DEF v
    <2>5. v \in ClientType /\ Good(v) /\ Others(v) = Others(w)
      BY <1>1, <2>3, <2>4, SentGood DEF Waiting, Supplying
    <2> QED BY <1>2, <2>1, <2>5 DEF v
  <1>7. CASE NetworkChanged(n, e)
    <2>1. Becomes(n, dhcp_network_changed(w, e)) /\ UNCHANGED <<up, link_up, leaked>>
      BY <1>7 DEF NetworkChanged
    <2> HIDE DEF w
    <2> QED BY <1>1, <1>2, <2>1, Changed
  <1>8. CASE netif_set_link_up(n, e)
    <2> DEFINE u == [w EXCEPT !.link = TRUE]
    <2>1. /\ Becomes(n, dhcp_network_changed(u, e))
          /\ up' = up /\ link_up' = [link_up EXCEPT ![n] = TRUE] /\ leaked' = leaked
      BY <1>8 DEF netif_set_link_up
    <2> HIDE DEF w
    <2>2. /\ u \in ClientType /\ u.d = w.d /\ u.ref = w.ref /\ u.ip = w.ip /\ u.left = w.left
          /\ u.conflict = w.conflict
      BY <1>1 DEF ClientType
    <2> HIDE DEF u
    <2>3. Good(u) /\ Others(u) = Others(w)
      BY <1>1, <2>2 DEF Good, Others
    <2>4. LET v == dhcp_network_changed(u, e)
          IN  v \in ClientType /\ Good(v) /\ Others(v) = Others(u)
      BY <2>2, <2>3, Changed
    <2>5. up' \in [Netifs -> BOOLEAN] /\ link_up' \in [Netifs -> BOOLEAN]
      BY <1>2, <2>1
    <2> QED BY <2>1, <2>3, <2>4, <2>5
  <1>9. CASE \E ip \in Ips : dhcp_arp_reply(n, ip, e)
    <2>1. w.d.state = "CHECKING" /\ Becomes(n, dhcp_decline(w, e)) /\ UNCHANGED <<up, link_up, leaked>>
      BY <1>9 DEF dhcp_arp_reply, Client
    <2> HIDE DEF w
    <2> QED BY <1>1, <1>2, <2>1, Declined
  <1> QED BY <1>4, <1>5, <1>6, <1>7, <1>8, <1>9

\* A client is freed: one that was not stopped leaves its reference behind.
LEMMA Cleanup ==
    ASSUME IInv, NEW n \in Netifs, dhcp_cleanup(n)
    PROVE  IInv'
  <1> DEFINE w == Client(n)
             v == [w EXCEPT !.d = Zeroed]
  <1>1. w \in ClientType /\ Good(w)
    BY ClientGood
  <1>2. /\ Becomes(n, v) /\ UNCHANGED <<up, link_up>>
        /\ w.d.pcb_allocated => leaked < MaxLeaked
        /\ leaked' = IF w.d.pcb_allocated THEN leaked + 1 ELSE leaked
    BY DEF dhcp_cleanup, Client
  <1> HIDE DEF w
  <1>3. v \in ClientType /\ v.d = Zeroed /\ v.ref = w.ref
    BY <1>1, ZeroedType DEF ClientType
  <1> HIDE DEF v
  <1>4. /\ Zeroed.state = "OFF" /\ ~Zeroed.pcb_allocated /\ Zeroed.t1_renew_time = 0
        /\ Zeroed.t2_rebind_time = 0 /\ Zeroed.t0_timeout = 0
    BY DEF Zeroed
  <1>5. Good(v)
    BY <1>3, <1>4, OffGood
  <1>6. leaked \in 0 .. MaxLeaked /\ w.ref \in Int
    BY <1>1 DEF IInv, TypeOK, ClientType
  <1>7. /\ leaked' \in 0 .. MaxLeaked
        /\ Others(v) = Others(w) + (leaked' - leaked)
    BY <1>2, <1>3, <1>4, <1>6, DhcpAssumption DEF Others
  <1>8. up' \in [Netifs -> BOOLEAN] /\ link_up' \in [Netifs -> BOOLEAN]
    BY <1>2 DEF IInv, TypeOK
  <1> QED BY <1>2, <1>3, <1>5, <1>7, <1>8, BecomesOther DEF w

\* Every step preserves the invariant.
LEMMA NextIInv == IInv /\ [Next]_vars => IInv'
  <1> SUFFICES ASSUME IInv, [Next]_vars PROVE IInv'
    OBVIOUS
  <1>1. up \in [Netifs -> BOOLEAN] /\ link_up \in [Netifs -> BOOLEAN] /\ xid \in XidOrNone
    BY DEF IInv, TypeOK, XidOrNone
  <1>2. CASE \E e \in Env, n \in Netifs : dhcp_fine_tmr(n, e)
    BY <1>2, FineTmr
  <1>3. CASE \E e \in Env, n \in Netifs : dhcp_coarse_tmr(n, e)
    BY <1>3, CoarseTmr
  <1>4. CASE \E e \in Env : dhcp_inform(e)
    <2>1. PICK e \in Env : dhcp_inform(e)
      BY <1>4
    <2>2. /\ xid' \in XidOrNone /\ up' = up /\ link_up' = link_up
          /\ UNCHANGED <<dhcp, ip_addr, dhcp_pcb_refcount, lease_left, conflict, leaked>>
      BY <1>1, <2>1 DEF dhcp_inform, Env, XidOrNone
    <2> QED BY <1>1, <2>2, SameClients
  <1>5. CASE \E e \in Env, n \in Netifs, x \in XidOrNone, m \in dhcp_msg : dhcp_recv(n, x, m, e)
    BY <1>5, Recv
  <1>6. CASE \E e \in Env, n \in Netifs :
               \/ Start(n, e) \/ Stop(n, e) \/ Renew(n, e) \/ NetworkChanged(n, e)
               \/ netif_set_link_up(n, e) \/ \E ip \in Ips : dhcp_arp_reply(n, ip, e)
    BY <1>6, Called
  <1>7. CASE \E n \in Netifs : dhcp_cleanup(n)
    BY <1>7, Cleanup
  <1>8. CASE \E n \in Netifs : netif_set_link_down(n)
    <2>1. /\ xid' = xid /\ up' = up /\ link_up' \in [Netifs -> BOOLEAN]
          /\ UNCHANGED <<dhcp, ip_addr, dhcp_pcb_refcount, lease_left, conflict, leaked>>
      BY <1>1, <1>8 DEF netif_set_link_down
    <2> QED BY <1>1, <2>1, SameClients
  <1>9. CASE \E n \in Netifs : netif_set_up_down(n)
    <2>1. /\ xid' = xid /\ up' \in [Netifs -> BOOLEAN] /\ link_up' = link_up
          /\ UNCHANGED <<dhcp, ip_addr, dhcp_pcb_refcount, lease_left, conflict, leaked>>
      BY <1>1, <1>9 DEF netif_set_up_down
    <2> QED BY <1>1, <2>1, SameClients
  <1>10. CASE UNCHANGED vars
    <2>1. /\ xid' = xid /\ up' = up /\ link_up' = link_up
          /\ UNCHANGED <<dhcp, ip_addr, dhcp_pcb_refcount, lease_left, conflict, leaked>>
      BY <1>10 DEF vars
    <2> QED BY <1>1, <2>1, SameClients
  <1> QED BY <1>2, <1>3, <1>4, <1>5, <1>6, <1>7, <1>8, <1>9, <1>10 DEF Next, XidOrNone

-----------------------------------------------------------------------------
(* Theorems                                                                *)

\* The invariant holds in every reachable state.
LEMMA Inductive == Spec => []IInv
  <1>1. Init => IInv
    BY InitIInv
  <1>2. IInv /\ [Next]_vars => IInv'
    BY NextIInv
  <1> QED BY <1>1, <1>2, PTL DEF Spec

\* Every field of struct dhcp keeps its width: neither the retry counter nor
\* a timer of the lease wraps around (dhcp.h:67-101).
THEOREM TypeCorrect == Spec => []TypeOK
  <1>1. IInv => TypeOK
    BY DEF IInv
  <1> QED BY <1>1, Inductive, PTL

\* dhcp_pcb_refcount counts the clients that are not off and those freed before
\* they were stopped, for any number of interfaces (dhcp_inc_pcb_refcount,
\* dhcp_dec_pcb_refcount, dhcp_cleanup).
THEOREM PcbCounted == Spec => []PcbConserved
  <1>1. IInv => PcbConserved
    BY DEF IInv, PcbConserved, Holders, GoodOf, SoundOf, PcbOK
  <1> QED BY <1>1, Inductive, PTL

\* No client waits without a timeout, and none whose last lease was finite is in
\* BOUND, RENEWING or REBINDING, with an address or without one, unless its expiry
\* timer will run out (dhcp_fine_tmr, dhcp_coarse_tmr).
THEOREM Progressing == Spec => []NeverStuck
  <1>1. IInv => NeverStuck
    <2> SUFFICES ASSUME IInv, NEW n \in Netifs
                 PROVE  /\ dhcp[n].state \in Waiting => dhcp[n].request_timeout = 1
                        /\ dhcp[n].state \in Supplying /\ lease_left[n] # Forever
                           => dhcp[n].lease_used < dhcp[n].t0_timeout
      BY DEF NeverStuck
    <2>1. GoodOf(dhcp[n], lease_left[n], conflict[n])
      BY DEF IInv
    <2> QED BY <2>1 DEF GoodOf, SoundOf, TimerOK, LeaseOK, InStep
  <1> QED BY <1>1, Inductive, PTL

\* An address the client vouches for has a lease that still runs, for every
\* lease time and every width of the timers (dhcp_supplied_address).
THEOREM LeaseHeld == Spec => []SuppliedLeased
  <1>1. IInv => SuppliedLeased
    <2> SUFFICES ASSUME IInv, NEW n \in Netifs,
                        dhcp[n].state \in Supplying
                 PROVE  lease_left[n] > 0
      BY DEF SuppliedLeased
    <2>1. InStep(dhcp[n], lease_left[n])
      BY DEF IInv, GoodOf, SoundOf, LeaseOK
    <2>2. dhcp[n].lease_used \in Nat /\ dhcp[n].t0_timeout \in Nat
      <3>1. dhcp[n] \in struct_dhcp
        BY DEF IInv, TypeOK
      <3> QED BY <3>1, DhcpAssumption DEF struct_dhcp
    <2> QED BY <2>1, <2>2, DhcpAssumption DEF InStep, Forever
  <1> QED BY <1>1, Inductive, PTL

\* Requests, probes and reboots are repeated a bounded number of times
\* (dhcp_timeout).
THEOREM TriesBounded == Spec => []RetriesBounded
  <1>1. IInv => RetriesBounded
    BY DEF IInv, RetriesBounded, GoodOf, TriesOK
  <1> QED BY <1>1, Inductive, PTL

\* An address in use by another host is not bound (dhcp_arp_reply).
THEOREM ConflictAvoided == Spec => []ConflictNotBound
  <1>1. IInv => ConflictNotBound
    BY DEF IInv, ConflictNotBound, GoodOf, SoundOf, ConflictOK
  <1> QED BY <1>1, Inductive, PTL

=============================================================================
