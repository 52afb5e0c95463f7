-------------------------------- MODULE Dhcp --------------------------------
(***************************************************************************)
(* The DHCPv4 client of lwIP (dhcp.c): one client per network interface,   *)
(* driven by the application, by received DHCP messages and ARP replies,   *)
(* by a fine timer (request timeouts), a coarse timer (the lease) and by   *)
(* link changes. The clients share one UDP control block, counted by       *)
(* dhcp_pcb_refcount, and one static transaction identifier.               *)
(*                                                                         *)
(* The functions of dhcp.c call each other, so each is an operator from    *)
(* the client it works on to the client it leaves (a record w, see         *)
(* Client); an action applies the function the program enters. The loops   *)
(* of the two timers take one step per interface.                          *)
(***************************************************************************)
EXTENDS Integers, FiniteSets

CONSTANTS
    Netifs,                 \* interfaces with a DHCP client
    Ips,                    \* addresses servers hand out
    IP4_ADDR_ANY,           \* no address
    Xids, NoXid,            \* transaction identifiers; NoXid is the initial 0
    DHCP_DOES_ARP_CHECK,    \* build option (and an Ethernet interface)
    TRIES_MAX,              \* bound of the retry counter (255)
    U32, U16MAX,            \* 2^32 and 0xffff, the widths of the lease times
    DHCP_COARSE_TIMER_SECS, \* seconds per coarse tick
    LeaseTimes,             \* what an ACK may say in its lease time option,
    RenewTimes,             \* its renewal time option
    RebindTimes,            \* and its rebinding time option: seconds or
    Absent,                 \* not there
    MaxLeaked               \* bound of the references dhcp_cleanup leaks (with the
                            \* interfaces, fewer than the 256 the counter holds)

INFINITE == U32 - 1         \* 0xffffffff seconds

REBOOT_TRIES == 2

ASSUME DhcpAssumption ==
    /\ IsFiniteSet(Netifs)
    /\ IP4_ADDR_ANY \notin Ips
    /\ NoXid \notin Xids
    /\ DHCP_DOES_ARP_CHECK \in BOOLEAN
    /\ TRIES_MAX \in Nat /\ TRIES_MAX > 5
    /\ U32 \in Nat /\ U32 > 0 /\ U16MAX \in Nat /\ U16MAX > 0
    /\ DHCP_COARSE_TIMER_SECS \in Nat /\ DHCP_COARSE_TIMER_SECS > 0
    /\ DHCP_COARSE_TIMER_SECS < U32
    /\ Absent \notin Int
    /\ LeaseTimes \subseteq (0 .. U32 - 1) \cup {Absent}
    /\ RenewTimes \subseteq (0 .. U32 - 1) \cup {Absent}
    /\ RebindTimes \subseteq (0 .. U32 - 1) \cup {Absent}
    /\ MaxLeaked \in Nat

VARIABLES
    dhcp,              \* struct dhcp of each interface
    ip_addr,           \* IPv4 address of each interface
    dhcp_pcb_refcount, \* users of the shared UDP control block
    xid,               \* the static of dhcp_create_msg, shared by all clients
    up, link_up,       \* NETIF_FLAG_UP and NETIF_FLAG_LINK_UP
    lease_left,        \* history: ticks left of the lease bound last
    conflict,          \* history: the address declined since the last ACK
    leaked             \* history: references to the PCB of clients freed with it

vars == <<dhcp, ip_addr, dhcp_pcb_refcount, xid, up, link_up, lease_left, conflict, leaked>>

-----------------------------------------------------------------------------
(* Types                                                                   *)

Supplying == {"BOUND", "RENEWING", "REBINDING"}

\* States in which the client waits for an answer or a pause to end.
Waiting == {"SELECTING", "REQUESTING", "CHECKING", "REBOOTING", "BACKING_OFF"}

dhcp_state == {"OFF", "INIT"} \cup Waiting \cup Supplying

Secs == 0 .. U32 - 1

\* request_timeout is 0 or the time of a pending timeout, abstracted to 1.
\* t1_timeout is only ever compared with t2_timeout in dhcp_bind, without
\* effect, and left out; so are the server's address, mask and gateway.
struct_dhcp ==
    [state : dhcp_state, tries : 0 .. TRIES_MAX, request_timeout : 0 .. 1,
     xid : Xids \cup {NoXid}, pcb_allocated : BOOLEAN,
     offered_ip_addr : Ips \cup {IP4_ADDR_ANY},
     offered_t0_lease : Secs, offered_t1_renew : Secs, offered_t2_rebind : Secs,
     t0_timeout : 0 .. U16MAX, t2_timeout : 0 .. U16MAX,
     t1_renew_time : 0 .. U16MAX, t2_rebind_time : 0 .. U16MAX,
     lease_used : 0 .. U16MAX]

Zeroed ==
    [state |-> "OFF", tries |-> 0, request_timeout |-> 0, xid |-> NoXid,
     pcb_allocated |-> FALSE, offered_ip_addr |-> IP4_ADDR_ANY,
     offered_t0_lease |-> 0, offered_t1_renew |-> 0, offered_t2_rebind |-> 0,
     t0_timeout |-> 0, t2_timeout |-> 0, t1_renew_time |-> 0,
     t2_rebind_time |-> 0, lease_used |-> 0]

\* A lease_left that never runs out.
Forever == U16MAX + 1

\* The answers of the allocators and of LWIP_RAND during one step: pbuf for the
\* message sent last, release for a RELEASE sent before it, pcb for the PCB.
Env == [pbuf : BOOLEAN, release : BOOLEAN, pcb : BOOLEAN, rand : Xids]

dhcp_msg ==
    [type : {"OFFER"}, yiaddr : Ips, server_id : BOOLEAN]
    \cup [type : {"ACK"}, yiaddr : Ips, lease : LeaseTimes, t1 : RenewTimes, t2 : RebindTimes]
    \cup [type : {"NAK"}]

Init ==
    /\ dhcp = [n \in Netifs |-> Zeroed]
    /\ ip_addr = [n \in Netifs |-> IP4_ADDR_ANY]
    /\ dhcp_pcb_refcount = 0
    /\ xid = NoXid
    /\ up = [n \in Netifs |-> TRUE]
    /\ link_up \in [Netifs -> BOOLEAN]
    /\ lease_left = [n \in Netifs |-> 0]
    /\ conflict = [n \in Netifs |-> IP4_ADDR_ANY]
    /\ leaked = 0

\* What a function of dhcp.c called for interface n reads and writes.
Client(n) ==
    [d |-> dhcp[n], ip |-> ip_addr[n], ref |-> dhcp_pcb_refcount, xid |-> xid,
     up |-> up[n], link |-> link_up[n], left |-> lease_left[n], conflict |-> conflict[n]]

\* The state once the function has returned w.
Becomes(n, w) ==
    /\ dhcp' = [dhcp EXCEPT ![n] = w.d]
    /\ ip_addr' = [ip_addr EXCEPT ![n] = w.ip]
    /\ dhcp_pcb_refcount' = w.ref
    /\ xid' = w.xid
    /\ lease_left' = [lease_left EXCEPT ![n] = w.left]
    /\ conflict' = [conflict EXCEPT ![n] = w.conflict]

-----------------------------------------------------------------------------
(* Helpers                                                                 *)

dhcp_supplied_address(w) == w.d.state \in Supplying

dhcp_set_state(w, s) ==
    IF w.d.state = s THEN w
    ELSE [w EXCEPT !.d.state = s, !.d.tries = 0, !.d.request_timeout = 0]

\* A REQUEST reuses the client's xid, every other message and the REQUEST of
\* REBOOTING take the shared one, renewed at the first try.
dhcp_create_msg(w, type, allocated, rand) ==
    LET x == IF w.d.tries = 0 THEN rand ELSE w.xid
    IN  IF ~allocated \/ (type = "REQUEST" /\ w.d.state # "REBOOTING") THEN w
        ELSE [w EXCEPT !.xid = x, !.d.xid = x]

\* Mutants: the retry counter is not capped; the try is not counted.
ArmedUncapped(w) == [w EXCEPT !.d.tries = @ + 1, !.d.request_timeout = 1]
ArmedUncounted(w) == [w EXCEPT !.d.request_timeout = 1]

\* The end of every function that sends: count the try, arm the timeout.
Armed(w) ==
    [w EXCEPT !.d.tries = IF @ < TRIES_MAX THEN @ + 1 ELSE @, !.d.request_timeout = 1]

Request(w, s, e) ==
    Armed(dhcp_create_msg(dhcp_set_state(w, s), "REQUEST", e.pbuf, e.rand))

dhcp_dec_pcb_refcount(w) == [w EXCEPT !.ref = @ - 1]

-----------------------------------------------------------------------------
(* The client state machine                                                *)

dhcp_discover(w, e) ==
    Armed(dhcp_create_msg(
        dhcp_set_state([w EXCEPT !.d.offered_ip_addr = IP4_ADDR_ANY], "SELECTING"),
        "DISCOVER", e.pbuf, e.rand))

dhcp_select(w, e) == Request(w, "REQUESTING", e)

dhcp_renew(w, e) == Request(w, "RENEWING", e)

dhcp_rebind(w, e) == Request(w, "REBINDING", e)

dhcp_reboot(w, e) == Request(w, "REBOOTING", e)

\* Mutant: no timeout is set for the probe.
CheckUnarmed(w) == dhcp_set_state(w, "CHECKING")

\* etharp_query sends the probe; nothing here depends on its result.
dhcp_check(w) == Armed(dhcp_set_state(w, "CHECKING"))

\* Mutant: the address is declined, and its check goes on.
DeclineKeepsChecking(w, e) ==
    [Armed(dhcp_create_msg(w, "DECLINE", e.pbuf, e.rand)) EXCEPT !.conflict = w.d.offered_ip_addr]

dhcp_decline(w, e) ==
    [Armed(dhcp_create_msg(dhcp_set_state(w, "BACKING_OFF"), "DECLINE", e.pbuf, e.rand))
        EXCEPT !.conflict = w.d.offered_ip_addr]

dhcp_handle_offer(w, m, e) ==
    IF m.server_id
    THEN dhcp_select([w EXCEPT !.d.request_timeout = 0, !.d.offered_ip_addr = m.yiaddr], e)
    ELSE w

dhcp_handle_ack(w, m) ==
    LET t0 == IF m.lease = Absent THEN w.d.offered_t0_lease ELSE m.lease
    IN  [w EXCEPT
            !.d.offered_t0_lease = t0,
            !.d.offered_t1_renew = IF m.t1 = Absent THEN t0 \div 2 ELSE m.t1,
            !.d.offered_t2_rebind = IF m.t2 = Absent THEN ((t0 * 7) % U32) \div 8 ELSE m.t2,
            !.d.offered_ip_addr = m.yiaddr,
            !.conflict = IP4_ADDR_ANY]

\* Mutant: the refused address is kept while a new one is looked for.
NakKeepsAddress(w, e) == dhcp_discover(dhcp_set_state(w, "BACKING_OFF"), e)

dhcp_handle_nak(w, e) ==
    dhcp_discover([dhcp_set_state(w, "BACKING_OFF") EXCEPT !.ip = IP4_ADDR_ANY], e)

\* Seconds to coarse ticks, as dhcp_bind converts them.
Ticks(secs) ==
    LET t == ((secs + DHCP_COARSE_TIMER_SECS \div 2) % U32) \div DHCP_COARSE_TIMER_SECS
    IN  CASE t = 0 -> 1
          [] t > U16MAX -> U16MAX
          [] OTHER -> t

\* Mutant: the lease is bound, the time used of the one before is kept.
BindKeepsUsed(w) ==
    LET t == Ticks(w.d.offered_t0_lease)
    IN  [dhcp_set_state([w EXCEPT !.d.t0_timeout = t], "BOUND")
            EXCEPT !.ip = w.d.offered_ip_addr, !.left = t]

\* An infinite time leaves the timer of the previous lease as it is.
dhcp_bind(w) ==
    LET t0 == w.d.offered_t0_lease
        t1 == w.d.offered_t1_renew
        t2 == w.d.offered_t2_rebind
    IN  [dhcp_set_state(
            [w EXCEPT
                !.d.lease_used = 0,
                !.d.t0_timeout = IF t0 = INFINITE THEN @ ELSE Ticks(t0),
                !.d.t1_renew_time = IF t1 = INFINITE THEN @ ELSE Ticks(t1),
                !.d.t2_timeout = IF t2 = INFINITE THEN @ ELSE Ticks(t2),
                !.d.t2_rebind_time = IF t2 = INFINITE THEN @ ELSE Ticks(t2)],
            "BOUND")
         EXCEPT !.ip = w.d.offered_ip_addr,
                !.left = IF t0 = INFINITE THEN Forever ELSE Ticks(t0)]

\* Mutant: a client without an address to release keeps its PCB.
StopForgetsPcb(w, e) ==
    IF dhcp_supplied_address(w)
    THEN [dhcp_dec_pcb_refcount(dhcp_set_state(w, "OFF")) EXCEPT
             !.d.pcb_allocated = FALSE, !.ip = IP4_ADDR_ANY]
    ELSE dhcp_set_state(w, "OFF")

dhcp_release_and_stop(w, e) ==
    LET cleared == [w EXCEPT
            !.d.offered_ip_addr = IP4_ADDR_ANY,
            !.d.offered_t0_lease = 0, !.d.offered_t1_renew = 0, !.d.offered_t2_rebind = 0,
            !.d.t1_renew_time = 0, !.d.t2_rebind_time = 0,
            !.d.lease_used = 0, !.d.t0_timeout = 0]
        off == dhcp_set_state(cleared, "OFF")
        released == IF dhcp_supplied_address(w)
                    THEN [dhcp_create_msg(off, "RELEASE", e.release, e.rand)
                            EXCEPT !.ip = IP4_ADDR_ANY]
                    ELSE off
    IN  CASE w.d.state = "OFF" -> w
          [] w.d.state # "OFF" /\ w.d.pcb_allocated ->
               [dhcp_dec_pcb_refcount(released) EXCEPT !.d.pcb_allocated = FALSE]
          [] OTHER -> released

\* The address of the interface is not touched.
dhcp_start(w, e) ==
    LET freed == IF w.d.pcb_allocated THEN dhcp_dec_pcb_refcount(w) ELSE w
        fresh == [freed EXCEPT !.d = Zeroed]
        ready == [fresh EXCEPT !.ref = @ + 1, !.d.pcb_allocated = TRUE]
    IN  CASE ~w.up -> w
          [] w.up /\ freed.ref = 0 /\ ~e.pcb -> fresh
          [] w.up /\ ~(freed.ref = 0 /\ ~e.pcb) /\ ~w.link -> dhcp_set_state(ready, "INIT")
          [] OTHER -> dhcp_discover(ready, e)

\* Mutant: the reboot goes on with the tries of the one before.
NetworkChangedKeepsTries(w, e) ==
    CASE w.d.state = "OFF" -> w
      [] w.d.state \in Supplying \cup {"REBOOTING"} -> dhcp_reboot(w, e)
      [] OTHER -> dhcp_discover(w, e)

dhcp_network_changed(w, e) ==
    LET again == [w EXCEPT !.d.tries = 0]
    IN  CASE w.d.state = "OFF" -> w
          [] w.d.state \in Supplying \cup {"REBOOTING"} -> dhcp_reboot(again, e)
          [] OTHER -> dhcp_discover(again, e)

Restart(w, e) == dhcp_start(dhcp_release_and_stop(w, e), e)

\* The request timeout of the client has run out.
dhcp_timeout(w, e) ==
    CASE w.d.state \in {"BACKING_OFF", "SELECTING"} -> dhcp_discover(w, e)
      [] w.d.state = "REQUESTING" ->
           IF w.d.tries <= 5 THEN dhcp_select(w, e) ELSE Restart(w, e)
      [] w.d.state = "CHECKING" ->
           IF w.d.tries <= 1 THEN dhcp_check(w) ELSE dhcp_bind(w)
      [] w.d.state = "REBOOTING" ->
           IF w.d.tries < REBOOT_TRIES THEN dhcp_reboot(w, e) ELSE dhcp_discover(w, e)
      [] OTHER -> w

\* Mutant: all of the time left is waited.
AgainAtEnd(limit, used, otherwise) == IF limit - used >= 1 THEN limit - used ELSE otherwise

\* The half of the time to limit after which to try again, if a tick or more.
Again(limit, used, otherwise) ==
    IF (limit - used) \div 2 >= 1 THEN (limit - used) \div 2 ELSE otherwise

dhcp_t1_timeout(w, e) ==
    IF w.d.state \in {"REQUESTING", "BOUND", "RENEWING"}
    THEN [dhcp_renew(w, e) EXCEPT
             !.d.t1_renew_time = Again(w.d.t2_timeout, w.d.lease_used, @)]
    ELSE w

dhcp_t2_timeout(w, e) ==
    IF w.d.state \in {"REQUESTING"} \cup Supplying
    THEN [dhcp_rebind(w, e) EXCEPT
             !.d.t2_rebind_time = Again(w.d.t0_timeout, w.d.lease_used, @)]
    ELSE w

Down(t) == IF t > 0 THEN t - 1 ELSE 0

\* One coarse tick of a client that is not off.
LeaseTick(w, e) ==
    LET d    == w.d
        used == IF d.t0_timeout > 0 THEN d.lease_used + 1 ELSE d.lease_used
        aged == [w EXCEPT !.d.lease_used = used]
        t2   == [aged EXCEPT !.d.t2_rebind_time = Down(@)]
        t1   == [t2 EXCEPT !.d.t1_renew_time = Down(@)]
    IN  CASE d.t0_timeout > 0 /\ used = d.t0_timeout -> Restart(aged, e)
          [] ~(d.t0_timeout > 0 /\ used = d.t0_timeout) /\ d.t2_rebind_time = 1 ->
               dhcp_t2_timeout(t2, e)
          [] ~(d.t0_timeout > 0 /\ used = d.t0_timeout) /\ d.t2_rebind_time # 1
             /\ d.t1_renew_time = 1 -> dhcp_t1_timeout(t1, e)
          [] OTHER -> t1

-----------------------------------------------------------------------------
(* The entry points                                                        *)

\* One iteration of dhcp_fine_tmr in which the timeout runs out.
dhcp_fine_tmr(n, e) ==
    /\ dhcp[n].request_timeout = 1
    /\ Becomes(n, dhcp_timeout([Client(n) EXCEPT !.d.request_timeout = 0], e))
    /\ UNCHANGED <<up, link_up, leaked>>

\* One iteration of dhcp_coarse_tmr. The lease runs whatever the client does.
dhcp_coarse_tmr(n, e) ==
    LET w == [Client(n) EXCEPT !.left = IF @ = Forever THEN @ ELSE Down(@)]
    IN  /\ Becomes(n, IF w.d.state = "OFF" THEN w ELSE LeaseTick(w, e))
        /\ UNCHANGED <<up, link_up, leaked>>

\* A well-formed reply m that carries transaction identifier x.
dhcp_recv(n, x, m, e) ==
    LET w == Client(n)
        a == dhcp_handle_ack(w, m)
    IN  /\ w.d.pcb_allocated /\ x = w.d.xid
        /\ \/ /\ m.type = "ACK" /\ w.d.state = "REQUESTING"
              /\ Becomes(n, IF DHCP_DOES_ARP_CHECK THEN dhcp_check(a) ELSE dhcp_bind(a))
           \/ /\ m.type = "ACK" /\ w.d.state \in {"REBOOTING", "REBINDING", "RENEWING"}
              /\ Becomes(n, dhcp_bind(a))
           \/ /\ m.type = "NAK"
              /\ w.d.state \in {"REBOOTING", "REQUESTING", "REBINDING", "RENEWING"}
              /\ Becomes(n, dhcp_handle_nak(w, e))
           \/ /\ m.type = "OFFER" /\ w.d.state = "SELECTING"
              /\ Becomes(n, dhcp_handle_offer(w, m, e))
        /\ UNCHANGED <<up, link_up, leaked>>

\* etharp_input reports an ARP reply from addr.
dhcp_arp_reply(n, addr, e) ==
    /\ DHCP_DOES_ARP_CHECK
    /\ dhcp[n].state = "CHECKING" /\ addr = dhcp[n].offered_ip_addr
    /\ Becomes(n, dhcp_decline(Client(n), e))
    /\ UNCHANGED <<up, link_up, leaked>>

\* dhcp_start, dhcp_release_and_stop, dhcp_network_changed called from outside.
Start(n, e) ==
    /\ Becomes(n, dhcp_start(Client(n), e))
    /\ UNCHANGED <<up, link_up, leaked>>

Stop(n, e) ==
    /\ Becomes(n, dhcp_release_and_stop(Client(n), e))
    /\ UNCHANGED <<up, link_up, leaked>>

NetworkChanged(n, e) ==
    /\ Becomes(n, dhcp_network_changed(Client(n), e))
    /\ UNCHANGED <<up, link_up, leaked>>

\* dhcp_renew, for an application that has a lease to renew.
Renew(n, e) ==
    /\ dhcp_supplied_address(Client(n))
    /\ Becomes(n, dhcp_renew(Client(n), e))
    /\ UNCHANGED <<up, link_up, leaked>>

\* dhcp_inform takes and drops the PCB; its message takes a new shared xid.
dhcp_inform(e) ==
    /\ dhcp_pcb_refcount > 0 \/ e.pcb
    /\ xid' = IF e.pbuf THEN e.rand ELSE xid
    /\ UNCHANGED <<dhcp, ip_addr, dhcp_pcb_refcount, up, link_up, lease_left, conflict, leaked>>

\* dhcp_cleanup frees the structure, whatever the client is doing: one that was
\* not stopped before leaves its reference to the PCB and its address behind.
dhcp_cleanup(n) ==
    /\ dhcp[n].pcb_allocated => leaked < MaxLeaked
    /\ leaked' = IF dhcp[n].pcb_allocated THEN leaked + 1 ELSE leaked
    /\ Becomes(n, [Client(n) EXCEPT !.d = Zeroed])
    /\ UNCHANGED <<up, link_up>>

netif_set_link_up(n, e) ==
    /\ ~link_up[n]
    /\ link_up' = [link_up EXCEPT ![n] = TRUE]
    /\ Becomes(n, dhcp_network_changed([Client(n) EXCEPT !.link = TRUE], e))
    /\ UNCHANGED <<up, leaked>>

netif_set_link_down(n) ==
    /\ link_up[n]
    /\ link_up' = [link_up EXCEPT ![n] = FALSE]
    /\ UNCHANGED <<dhcp, ip_addr, dhcp_pcb_refcount, xid, up, lease_left, conflict, leaked>>

\* netif_set_up and netif_set_down: the client is not told.
netif_set_up_down(n) ==
    /\ up' = [up EXCEPT ![n] = ~@]
    /\ UNCHANGED <<dhcp, ip_addr, dhcp_pcb_refcount, xid, link_up, lease_left, conflict, leaked>>

-----------------------------------------------------------------------------

\* LWIP_RAND returns an identifier no client uses.
Fresh(e) == e.rand # xid /\ \A n \in Netifs : e.rand # dhcp[n].xid

\* The steps that send at most one message and take no PCB leave the other two
\* answers of Env unused.
Next ==
    \/ \E e \in {f \in Env : Fresh(f)} :
        \/ \E n \in Netifs : dhcp_fine_tmr(n, e) \/ dhcp_coarse_tmr(n, e) \/ Start(n, e)
        \/ dhcp_inform(e)
    \/ \E e \in {f \in Env : Fresh(f) /\ f.pcb /\ f.release = f.pbuf}, n \in Netifs :
        \/ \E x \in Xids \cup {NoXid}, m \in dhcp_msg : dhcp_recv(n, x, m, e)
        \/ \E ip \in Ips : dhcp_arp_reply(n, ip, e)
        \/ Stop(n, e) \/ Renew(n, e) \/ NetworkChanged(n, e) \/ netif_set_link_up(n, e)
    \/ \E n \in Netifs : dhcp_cleanup(n) \/ netif_set_link_down(n) \/ netif_set_up_down(n)

Spec == Init /\ [][Next]_vars

\* The fine timer is cyclic (lwip_cyclic_timers): a pending timeout runs out.
FairSpec ==
    /\ Spec
    /\ \A n \in Netifs : WF_vars(\E e \in Env : Fresh(e) /\ dhcp_fine_tmr(n, e))

-----------------------------------------------------------------------------
(* Properties                                                              *)

\* Every variable stays within its type (struct dhcp, dhcp.h:67-101).
TypeOK ==
    /\ dhcp \in [Netifs -> struct_dhcp]
    /\ ip_addr \in [Netifs -> Ips \cup {IP4_ADDR_ANY}]
    /\ dhcp_pcb_refcount \in Nat
    /\ xid \in Xids \cup {NoXid}
    /\ up \in [Netifs -> BOOLEAN] /\ link_up \in [Netifs -> BOOLEAN]
    /\ lease_left \in [Netifs -> 0 .. Forever]
    /\ conflict \in [Netifs -> Ips \cup {IP4_ADDR_ANY}]
    /\ leaked \in 0 .. MaxLeaked

\* The shared PCB is counted once per client that is not off, whatever starts,
\* restarts, failures and stops there were: it is never removed while a client
\* still sends through it. When the last one has stopped it is removed, unless
\* dhcp_cleanup freed a client that was not stopped: only its reference leaks.
PcbConserved ==
    /\ dhcp_pcb_refcount = leaked + Cardinality({n \in Netifs : dhcp[n].pcb_allocated})
    /\ \A n \in Netifs : dhcp[n].pcb_allocated <=> dhcp[n].state # "OFF"

\* A client that waits for an answer has a timeout pending, and one in BOUND,
\* RENEWING or REBINDING has an expiry timer that will run out, with or without
\* an address on its interface: after a finite lease no sequence of lost replies,
\* NAKs, failed allocations and restarts leaves it waiting for nothing. After an
\* infinite lease, which sets no expiry timer, this is not so: a NAK takes the
\* address, the old rebinding timer then moves the new request on to REBINDING
\* (dhcp_t2_timeout), and there the client stays, without address and timer.
NeverStuck ==
    \A n \in Netifs :
        /\ dhcp[n].state \in Waiting => dhcp[n].request_timeout = 1
        /\ dhcp[n].state \in Supplying /\ lease_left[n] # Forever
           => dhcp[n].lease_used < dhcp[n].t0_timeout

\* dhcp_supplied_address never speaks for a finite lease that has run out:
\* the timers of renewal, rebinding and expiry, which keep running through
\* reboots and new negotiations, stay in step with the lease bound last.
SuppliedLeased ==
    \A n \in Netifs : dhcp[n].state \in Supplying => lease_left[n] > 0

\* A request is sent at most six times before the client restarts, a probe and
\* a reboot at most twice (dhcp_timeout).
RetriesBounded ==
    \A n \in Netifs :
        /\ dhcp[n].state = "REQUESTING" => dhcp[n].tries \in 1 .. 6
        /\ dhcp[n].state \in {"CHECKING", "REBOOTING"} => dhcp[n].tries \in 1 .. REBOOT_TRIES

\* An address that another host was found to use is not bound until a server
\* acknowledges it again (dhcp_arp_reply: "we will not accept the offered address").
ConflictNotBound ==
    \A n \in Netifs :
        dhcp[n].state = "BOUND" => conflict[n] = IP4_ADDR_ANY \/ ip_addr[n] # conflict[n]

GiveBackStep ==
    \A n \in Netifs :
        /\ dhcp[n].state \in Supplying
        /\ dhcp'[n].state \notin Supplying \cup {"REBOOTING"}
        => ip_addr'[n] = IP4_ADDR_ANY \/ dhcp_cleanup(n) \/ \E e \in Env : Start(n, e)

\* When the client gives up the address it supplies, because of a NAK, the end
\* of the lease or a stop, the interface loses it in the same step. The
\* exceptions keep it while the lease is verified, or are calls from outside: a
\* dhcp_start, which renegotiates, and a dhcp_cleanup without a stop.
AddressGivenBack == [][GiveBackStep]_vars

\* Every retry to rebind comes before the lease ends: t2_rebind_time, halved
\* at each retry, runs out before lease_used reaches t0_timeout.
RebindBeforeExpiry ==
    \A n \in Netifs :
        dhcp[n].state = "REBINDING" /\ dhcp[n].t0_timeout > 0
        => dhcp[n].lease_used + dhcp[n].t2_rebind_time < dhcp[n].t0_timeout

\* The renewal and rebinding times are the ones dhcp_handle_ack derives.
Derived(d) ==
    /\ d.offered_t1_renew = d.offered_t0_lease \div 2
    /\ d.offered_t2_rebind = ((d.offered_t0_lease * 7) % U32) \div 8

\* Renewal comes before rebinding and rebinding before the end of the lease.
TimesOrdered(d) ==
    d.t1_renew_time <= d.t2_rebind_time /\ d.lease_used + d.t2_rebind_time <= d.t0_timeout

\* Times that dhcp_handle_ack derives are in order if seven times the lease
\* fits into 32 bits.
DerivedTimesOrdered ==
    \A n \in Netifs :
        /\ dhcp[n].state = "BOUND" /\ Derived(dhcp[n])
        /\ dhcp[n].offered_t0_lease # INFINITE /\ dhcp[n].offered_t0_lease * 7 < U32
        => TimesOrdered(dhcp[n])

\* The timers of a lease run out in their order, whatever is rounded, cut to
\* 16 bits, raised to one tick or halved on the way (dhcp_t1_timeout,
\* dhcp_t2_timeout, dhcp_bind).
TimersOrdered == RebindBeforeExpiry /\ DerivedTimesOrdered

\* "T1 <= T2 <= T0 ... holds by itself when T1 = T0/2 and T2 = T0*7/8 are
\* derived" (dhcp/protocol.md:184), in the ticks of the running timers that
\* dhcp_bind sets. For a lease of more than 2^32/7 seconds it does not: the
\* product of dhcp_handle_ack wraps, and rebinding comes first.
LeaseMonotone ==
    \A n \in Netifs :
        dhcp[n].state = "BOUND" /\ Derived(dhcp[n]) /\ dhcp[n].offered_t0_lease # INFINITE
        => TimesOrdered(dhcp[n])

\* No phase of a negotiation lasts for ever: retries are bounded and lead on
\* to the next phase, to a restart or to discovery. (A reboot may be begun
\* again by every change of the network: there, no try lasts for ever.)
PhasesEnd ==
    \A n \in Netifs :
        /\ \A s \in {"REQUESTING", "CHECKING", "BACKING_OFF"} :
             dhcp[n].state = s ~> dhcp[n].state # s
        /\ \A k \in 1 .. REBOOT_TRIES :
             dhcp[n].state = "REBOOTING" /\ dhcp[n].tries = k
             ~> ~(dhcp[n].state = "REBOOTING" /\ dhcp[n].tries = k)
=============================================================================
