---------------------------- MODULE DhcpStepProof ----------------------------
(***************************************************************************)
(* More proofs about Dhcp: the timers of a lease run out in their order,   *)
(* and an address that is given up leaves the interface in the same step.  *)
(* Both follow the clients through the functions of dhcp.c, on top of the  *)
(* invariant of DhcpProof.                                                 *)
(***************************************************************************)
EXTENDS DhcpProof

\* A client that rebinds does so again before its lease ends.
RebindOK(d) ==
    d.state = "REBINDING" /\ d.t0_timeout > 0 => d.lease_used + d.t2_rebind_time < d.t0_timeout

\* Times derived without a wrap-around are in order while the client is bound.
DerivedOK(d) ==
    d.state = "BOUND" /\ Derived(d) /\ d.offered_t0_lease # INFINITE
    /\ d.offered_t0_lease * 7 < U32 => TimesOrdered(d)

Timed(d) == RebindOK(d) /\ DerivedOK(d)

\* A client v that stops supplying the address w supplied has given it back.
GivesBack(v, w) ==
    w.d.state \in Supplying /\ v.d.state \notin Supplying \cup {"REBOOTING"}
    => v.ip = IP4_ADDR_ANY

-----------------------------------------------------------------------------
(* Times in ticks                                                          *)

\* Division is monotone.
LEMMA DivMonotone ==
    ASSUME NEW a \in Nat, NEW b \in Nat, a <= b, NEW c \in Nat, c > 0
    PROVE  a \div c <= b \div c
  <1> DEFINE p == a \div c
             q == b \div c
  <1>1. p \in Nat /\ p * c <= a
    OBVIOUS
  <1>2. q \in Nat /\ b < (q + 1) * c
    OBVIOUS
  <1> HIDE DEF p, q
  <1>3. SUFFICES ASSUME q + 1 <= p PROVE FALSE
    BY <1>1, <1>2 DEF p, q
  <1>4. PICK k \in Nat : p = (q + 1) + k
    <2>1. p - (q + 1) \in Nat /\ p = (q + 1) + (p - (q + 1))
      BY <1>1, <1>2, <1>3
    <2> QED BY <2>1
  <1>5. p * c = (q + 1) * c + k * c
    BY <1>1, <1>2, <1>4
  <1>6. k * c >= 0
    OBVIOUS
  <1>7. p * c \in Int /\ (q + 1) * c \in Int /\ k * c \in Int
    BY <1>1, <1>2
  <1> DEFINE x == p * c
             y == (q + 1) * c
             z == k * c
  <1>8. x \in Int /\ y \in Int /\ z \in Int /\ x = y + z /\ z >= 0 /\ x <= a /\ b < y
    BY <1>1, <1>2, <1>5, <1>6, <1>7
  <1> HIDE DEF x, y, z
  <1> QED BY <1>8

\* A longer time is as many ticks or more, unless rounding it wraps around.
LEMMA TicksMonotone ==
    ASSUME NEW a \in Secs, NEW b \in Secs, a <= b, b * 7 < U32
    PROVE  Ticks(a) <= Ticks(b)
  <1> DEFINE h == DHCP_COARSE_TIMER_SECS \div 2
             p == (a + h) \div DHCP_COARSE_TIMER_SECS
             q == (b + h) \div DHCP_COARSE_TIMER_SECS
  <1>1. a \in Nat /\ b \in Nat /\ h \in Nat /\ b + h < U32 /\ a + h <= b + h
    BY DhcpAssumption DEF Secs
  <1> HIDE DEF h
  <1>2. (a + h) % U32 = a + h /\ (b + h) % U32 = b + h
    <2>1. ASSUME NEW x \in Nat, x < U32 PROVE x % U32 = x
      BY <2>1, DhcpAssumption
    <2> QED BY <1>1, <2>1, DhcpAssumption
  <1>3. p <= q
    BY <1>1, DivMonotone, DhcpAssumption
  <1>4. p \in Nat /\ q \in Nat
    <2>1. ASSUME NEW x \in Nat PROVE x \div DHCP_COARSE_TIMER_SECS \in Nat
      BY DhcpAssumption
    <2> QED BY <1>1, <2>1
  <1> HIDE DEF p, q
  <1>5. /\ Ticks(a) = CASE p = 0 -> 1 [] p > U16MAX -> U16MAX [] OTHER -> p
        /\ Ticks(b) = CASE q = 0 -> 1 [] q > U16MAX -> U16MAX [] OTHER -> q
    BY <1>2 DEF Ticks, p, q, h
  <1>6. ASSUME NEW x \in Nat
        PROVE  (CASE x = 0 -> 1 [] x > U16MAX -> U16MAX [] OTHER -> x)
               = IF x = 0 THEN 1 ELSE IF x > U16MAX THEN U16MAX ELSE x
    BY DhcpAssumption
  <1> QED BY <1>3, <1>4, <1>5, <1>6, DhcpAssumption

\* The times that dhcp_handle_ack derives, in ticks.
LEMMA DerivedTicks ==
    ASSUME NEW t \in Secs, t * 7 < U32, t # INFINITE
    PROVE  LET t1 == t \div 2
               t2 == ((t * 7) % U32) \div 8
           IN  /\ t1 # INFINITE /\ t2 # INFINITE
               /\ Ticks(t1) <= Ticks(t2) /\ Ticks(t2) <= Ticks(t)
  <1> DEFINE t1 == t \div 2
             t2 == (t * 7) \div 8
  <1>1. (t * 7) % U32 = t * 7
    <2> DEFINE s == t * 7
    <2>1. s \in Nat /\ s < U32
      BY DhcpAssumption DEF Secs
    <2> HIDE DEF s
    <2>2. s % U32 = s
      BY <2>1, DhcpAssumption
    <2> QED BY <2>2 DEF s
  <1>2. /\ t1 \in Nat /\ t2 \in Nat /\ t1 <= t2 /\ t2 <= t /\ t < INFINITE /\ t2 * 7 < U32
        /\ t \in Nat
    BY DhcpAssumption DEF Secs, INFINITE
  <1> HIDE DEF t1, t2
  <1>3. t1 \in Secs /\ t2 \in Secs /\ t1 # INFINITE /\ t2 # INFINITE
    BY <1>2, DhcpAssumption DEF Secs, INFINITE
  <1>4. Ticks(t1) <= Ticks(t2) /\ Ticks(t2) <= Ticks(t)
    BY <1>2, <1>3, TicksMonotone
  <1> QED BY <1>1, <1>3, <1>4 DEF t1, t2

-----------------------------------------------------------------------------
(* The functions                                                           *)

\* A client in another state has no order to keep.
LEMMA ElsewhereTimed ==
    ASSUME NEW d, d.state \notin {"BOUND", "REBINDING"}
    PROVE  Timed(d)
  BY DEF Timed, RebindOK, DerivedOK

\* dhcp_bind sets the timers of a lease in their order.
LEMMA BindTimed ==
    ASSUME NEW w \in ClientType
    PROVE  Timed(dhcp_bind(w).d) /\ dhcp_bind(w).d.state = "BOUND"
  <1> DEFINE t0 == w.d.offered_t0_lease
             t1 == w.d.offered_t1_renew
             t2 == w.d.offered_t2_rebind
             b == dhcp_bind(w)
  <1>1. w.d \in struct_dhcp
    BY DEF ClientType
  <1>2. /\ b.d.state = "BOUND" /\ b.d.lease_used = 0
        /\ b.d.offered_t0_lease = t0 /\ b.d.offered_t1_renew = t1 /\ b.d.offered_t2_rebind = t2
        /\ t0 # INFINITE => b.d.t0_timeout = Ticks(t0)
        /\ t1 # INFINITE => b.d.t1_renew_time = Ticks(t1)
        /\ t2 # INFINITE => b.d.t2_rebind_time = Ticks(t2)
    <2> DEFINE k0 == IF t0 = INFINITE THEN w.d.t0_timeout ELSE Ticks(t0)
               k1 == IF t1 = INFINITE THEN w.d.t1_renew_time ELSE Ticks(t1)
               k2 == IF t2 = INFINITE THEN w.d.t2_timeout ELSE Ticks(t2)
               r2 == IF t2 = INFINITE THEN w.d.t2_rebind_time ELSE Ticks(t2)
               left == IF t0 = INFINITE THEN Forever ELSE Ticks(t0)
               f == [w.d EXCEPT !.lease_used = 0, !.t0_timeout = k0, !.t1_renew_time = k1,
                                !.t2_timeout = k2, !.t2_rebind_time = r2]
               u == [w EXCEPT !.d = f]
               g == [f EXCEPT !.state = "BOUND", !.tries = 0, !.request_timeout = 0]
    <2>1. b = [dhcp_set_state(u, "BOUND") EXCEPT !.ip = w.d.offered_ip_addr, !.left = left]
      <3>1. u = [w EXCEPT
                  !.d.lease_used = 0,
                  !.d.t0_timeout = IF t0 = INFINITE THEN @ ELSE Ticks(t0),
                  !.d.t1_renew_time = IF t1 = INFINITE THEN @ ELSE Ticks(t1),
                  !.d.t2_timeout = IF t2 = INFINITE THEN @ ELSE Ticks(t2),
                  !.d.t2_rebind_time = IF t2 = INFINITE THEN @ ELSE Ticks(t2)]
        BY <1>1 DEF ClientType, struct_dhcp
      <3> HIDE DEF u
      <3> QED BY <3>1 DEF dhcp_bind
    <2> HIDE DEF k0, k1, k2, r2, left, b
    <2>2. /\ f.state = w.d.state /\ f.lease_used = 0
          /\ f.offered_t0_lease = t0 /\ f.offered_t1_renew = t1 /\ f.offered_t2_rebind = t2
          /\ f.t0_timeout = k0 /\ f.t1_renew_time = k1 /\ f.t2_rebind_time = r2
      BY <1>1 DEF struct_dhcp
    <2>3. /\ g.state = "BOUND" /\ g.lease_used = 0
          /\ g.offered_t0_lease = t0 /\ g.offered_t1_renew = t1 /\ g.offered_t2_rebind = t2
          /\ g.t0_timeout = k0 /\ g.t1_renew_time = k1 /\ g.t2_rebind_time = r2
      BY <1>1, <2>2 DEF struct_dhcp
    <2>4. b.d = IF f.state = "BOUND" THEN f ELSE g
      <3> HIDE DEF f
      <3>1. u.d = f
        BY DEF ClientType
      <3>2. CASE f.state = "BOUND"
        BY <2>1, <3>1, <3>2 DEF dhcp_set_state, ClientType
      <3>3. CASE f.state # "BOUND"
        BY <2>1, <3>1, <3>3 DEF dhcp_set_state, ClientType
      <3> QED BY <3>2, <3>3
    <2> HIDE DEF f, g
    <2> QED BY <2>2, <2>3, <2>4 DEF k0, k1, r2
  <1>3. t0 \in Secs
    BY <1>1 DEF struct_dhcp
  <1> HIDE DEF b
  <1>4. DerivedOK(b.d)
    <2> SUFFICES ASSUME Derived(b.d), t0 # INFINITE, t0 * 7 < U32
                 PROVE  TimesOrdered(b.d)
      BY <1>2 DEF DerivedOK
    <2>1. t1 = t0 \div 2 /\ t2 = ((t0 * 7) % U32) \div 8
      BY <1>2 DEF Derived
    <2>2. t1 # INFINITE /\ t2 # INFINITE /\ Ticks(t1) <= Ticks(t2) /\ Ticks(t2) <= Ticks(t0)
      BY <1>3, <2>1, DerivedTicks
    <2>3. t2 \in Secs /\ Ticks(t2) \in Int
      <3>1. t2 \in Secs
        BY <1>1 DEF struct_dhcp
      <3> QED BY <3>1, TicksType
    <2> QED BY <1>2, <2>2, <2>3 DEF TimesOrdered
  <1>5. RebindOK(b.d)
    BY <1>2 DEF RebindOK
  <1> QED BY <1>2, <1>4, <1>5 DEF Timed, b

\* dhcp_release_and_stop leaves a client off, its address given back.
LEMMA ReleasedOff ==
    ASSUME NEW w \in ClientType, NEW e \in Env
    PROVE  LET v == dhcp_release_and_stop(w, e)
           IN  v.d.state = "OFF" /\ (w.d.state \in Supplying => v.ip = IP4_ADDR_ANY)
  <1> DEFINE f == [w.d EXCEPT
                    !.offered_ip_addr = IP4_ADDR_ANY,
                    !.offered_t0_lease = 0, !.offered_t1_renew = 0, !.offered_t2_rebind = 0,
                    !.t1_renew_time = 0, !.t2_rebind_time = 0,
                    !.lease_used = 0, !.t0_timeout = 0]
             u == [w EXCEPT !.d = f]
             off == dhcp_set_state(u, "OFF")
             sent == dhcp_create_msg(off, "RELEASE", e.release, e.rand)
             r == IF dhcp_supplied_address(w) THEN [sent EXCEPT !.ip = IP4_ADDR_ANY] ELSE off
             q == [dhcp_dec_pcb_refcount(r) EXCEPT !.d.pcb_allocated = FALSE]
             v == dhcp_release_and_stop(w, e)
  <1>1. w.d \in struct_dhcp
    BY DEF ClientType
  <1>2. f \in struct_dhcp
    <2>1. 0 \in Secs /\ 0 \in 0 .. U16MAX
      BY DhcpAssumption DEF Secs
    <2> QED BY <1>1, <2>1 DEF struct_dhcp
  <1>3. u \in ClientType
    BY <1>2, WithD
  <1>4. u = [w EXCEPT
              !.d.offered_ip_addr = IP4_ADDR_ANY,
              !.d.offered_t0_lease = 0, !.d.offered_t1_renew = 0, !.d.offered_t2_rebind = 0,
              !.d.t1_renew_time = 0, !.d.t2_rebind_time = 0,
              !.d.lease_used = 0, !.d.t0_timeout = 0]
    BY DEF ClientType
  <1> HIDE DEF u
  <1>5. off \in ClientType /\ off.d.state = "OFF"
    <2>1. "OFF" \in dhcp_state
      BY DEF dhcp_state
    <2> QED BY <1>3, <2>1, SetState
  <1>6. v = CASE w.d.state = "OFF" -> w
              [] w.d.state # "OFF" /\ w.d.pcb_allocated -> q
              [] OTHER -> r
    BY <1>4 DEF dhcp_release_and_stop
  <1> HIDE DEF off, v
  <1>7. sent \in ClientType /\ sent.d.state = "OFF"
    <2>1. e.release \in BOOLEAN /\ e.rand \in Xids
      BY DEF Env
    <2> QED BY <1>5, <2>1, CreateMsg
  <1> HIDE DEF sent
  <1>8. /\ r \in ClientType /\ r.d.state = "OFF"
        /\ w.d.state \in Supplying => r.ip = IP4_ADDR_ANY
    BY <1>5, <1>7 DEF ClientType, Addr, dhcp_supplied_address
  <1> HIDE DEF r
  <1>9. q.d.state = "OFF" /\ q.ip = r.ip
    BY <1>8 DEF dhcp_dec_pcb_refcount, ClientType, struct_dhcp
  <1> HIDE DEF q
  <1>10. CASE v = w /\ w.d.state = "OFF"
    BY <1>10 DEF v, Supplying
  <1>11. CASE v = q
    BY <1>8, <1>9, <1>11 DEF v
  <1>12. CASE v = r
    BY <1>8, <1>12 DEF v
  <1> QED BY <1>6, <1>10, <1>11, <1>12

\* dhcp_start does nothing or begins anew; it never touches the address.
LEMMA StartedAnew ==
    ASSUME NEW w \in ClientType, NEW e \in Env
    PROVE  LET v == dhcp_start(w, e)
           IN  v.ip = w.ip /\ (v = w \/ v.d.state \in {"OFF", "INIT", "SELECTING"})
  <1> DEFINE freed == IF w.d.pcb_allocated THEN dhcp_dec_pcb_refcount(w) ELSE w
             fresh == [freed EXCEPT !.d = Zeroed]
             z == [Zeroed EXCEPT !.pcb_allocated = TRUE]
             ready == [fresh EXCEPT !.ref = @ + 1, !.d = z]
             v == dhcp_start(w, e)
  <1>1. freed \in ClientType /\ freed.ip = w.ip
    BY DEF dhcp_dec_pcb_refcount, ClientType
  <1>2. v = CASE ~w.up -> w
              [] w.up /\ freed.ref = 0 /\ ~e.pcb -> fresh
              [] w.up /\ ~(freed.ref = 0 /\ ~e.pcb) /\ ~w.link ->
                   dhcp_set_state([fresh EXCEPT !.ref = @ + 1, !.d.pcb_allocated = TRUE], "INIT")
              [] OTHER -> dhcp_discover([fresh EXCEPT !.ref = @ + 1, !.d.pcb_allocated = TRUE], e)
    BY DEF dhcp_start
  <1> HIDE DEF freed, v
  <1>3. fresh \in ClientType /\ fresh.d = Zeroed /\ fresh.ip = w.ip
    BY <1>1, ZeroedType DEF ClientType
  <1>4. [fresh EXCEPT !.ref = @ + 1, !.d.pcb_allocated = TRUE] = ready
    BY <1>3 DEF ClientType
  <1> HIDE DEF fresh
  <1>5. z \in struct_dhcp
    BY ZeroedType DEF struct_dhcp
  <1> HIDE DEF z
  <1>6. ready \in ClientType /\ ready.ip = w.ip
    <2> DEFINE k == fresh.ref + 1
    <2>1. k \in Int
      BY <1>3 DEF ClientType
    <2>2. ready = [fresh EXCEPT !.ref = k, !.d = z]
      BY <1>3 DEF ClientType
    <2> HIDE DEF k
    <2> QED BY <1>3, <1>5, <2>1, <2>2 DEF ClientType
  <1> HIDE DEF ready
  <1>7. CASE v = w
    BY <1>7 DEF v
  <1>8. CASE v = fresh
    BY <1>3, <1>8 DEF v, Zeroed
  <1>9. CASE v = dhcp_set_state(ready, "INIT")
    <2>1. "INIT" \in dhcp_state
      BY DEF dhcp_state
    <2>2. SameLease(v, ready) /\ v.d.state = "INIT"
      BY <1>6, <1>9, <2>1, SetState
    <2> QED BY <1>6, <2>2 DEF v, SameLease
  <1>10. CASE v = dhcp_discover(ready, e)
    <2>1. SentFrom(v, ready, "SELECTING")
      BY <1>6, <1>10, DiscoverSent
    <2> QED BY <1>6, <2>1 DEF v, SentFrom, SameLease
  <1> QED BY <1>2, <1>4, <1>7, <1>8, <1>9, <1>10

\* A restart leaves nothing of the lease.
LEMMA RestartedAnew ==
    ASSUME NEW w \in ClientType, NEW e \in Env, PcbOK(w.d), w.d.state = "OFF" => Good(w)
    PROVE  LET v == Restart(w, e)
           IN  /\ v.d.state \in {"OFF", "INIT", "SELECTING"}
               /\ w.d.state \in Supplying => v.ip = IP4_ADDR_ANY
  <1> DEFINE u == dhcp_release_and_stop(w, e)
  <1>1. /\ u \in ClientType /\ u.d.state = "OFF"
        /\ w.d.state \in Supplying => u.ip = IP4_ADDR_ANY
    BY Released, ReleasedOff
  <1> HIDE DEF u
  <1>2. LET v == dhcp_start(u, e)
        IN  v.ip = u.ip /\ (v = u \/ v.d.state \in {"OFF", "INIT", "SELECTING"})
    BY <1>1, StartedAnew
  <1> QED BY <1>1, <1>2 DEF Restart, u

\* A message of state s leaves no order to keep and no address behind.
LEMMA SentTimed ==
    ASSUME NEW v, NEW w, NEW s, s \notin {"BOUND", "REBINDING"}, SentFrom(v, w, s),
           \/ w.d.state \notin Supplying
           \/ s \in {"RENEWING", "REBOOTING"}
           \/ w.ip = IP4_ADDR_ANY
    PROVE  Timed(v.d) /\ GivesBack(v, w)
  <1>1. v.d.state = s /\ v.ip = w.ip
    BY DEF SentFrom, SameLease
  <1>2. Timed(v.d)
    BY <1>1, ElsewhereTimed
  <1>3. GivesBack(v, w)
    BY <1>1 DEF GivesBack, Supplying
  <1> QED BY <1>2, <1>3

\* dhcp_timeout binds a checked address or has no order to keep.
LEMMA TimeoutTimed ==
    ASSUME NEW w \in ClientType, NEW e \in Env, Sound(w), Timed(w.d)
    PROVE  LET v == dhcp_timeout(w, e)
           IN  Timed(v.d) /\ GivesBack(v, w)
  <1> DEFINE v == dhcp_timeout(w, e)
  <1>1. {"SELECTING", "REQUESTING", "CHECKING", "REBOOTING", "BACKING_OFF"} \subseteq dhcp_state
    BY DEF dhcp_state, Waiting
  <1>2. CASE w.d.state \notin Waiting
    <2>1. v = w
      BY <1>2 DEF dhcp_timeout, Waiting
    <2> QED BY <2>1 DEF GivesBack
  <1>3. CASE w.d.state \in Waiting
    <2>1. w.d.state \notin Supplying /\ w.d.state # "OFF" /\ PcbOK(w.d)
      BY <1>3 DEF Waiting, Supplying, Sound, SoundOf
    <2>2. \/ v = dhcp_discover(w, e)
          \/ v = dhcp_select(w, e)
          \/ v = dhcp_check(w)
          \/ v = dhcp_reboot(w, e)
          \/ v = Restart(w, e)
          \/ v = dhcp_bind(w)
      BY <1>3 DEF dhcp_timeout, Waiting
    <2> HIDE DEF v
    <2>3. CASE v = dhcp_discover(w, e)
      <3>1. SentFrom(v, w, "SELECTING")
        BY <2>3, DiscoverSent
      <3> QED BY <2>1, <3>1, SentTimed DEF v
    <2>4. CASE v = dhcp_select(w, e)
      <3>1. SentFrom(v, w, "REQUESTING")
        BY <1>1, <2>4, RequestSent DEF dhcp_select
      <3> QED BY <2>1, <3>1, SentTimed DEF v
    <2>5. CASE v = dhcp_check(w)
      <3>1. SentFrom(v, w, "CHECKING")
        BY <2>5, CheckSent
      <3> QED BY <2>1, <3>1, SentTimed DEF v
    <2>6. CASE v = dhcp_reboot(w, e)
      <3>1. SentFrom(v, w, "REBOOTING")
        BY <1>1, <2>6, RequestSent DEF dhcp_reboot
      <3> QED BY <2>1, <3>1, SentTimed DEF v
    <2>7. CASE v = Restart(w, e)
      <3>1. v.d.state \in {"OFF", "INIT", "SELECTING"}
        BY <2>1, <2>7, RestartedAnew
      <3> QED BY <2>1, <3>1, ElsewhereTimed DEF v, GivesBack
    <2>8. CASE v = dhcp_bind(w)
      BY <2>1, <2>8, BindTimed DEF v, GivesBack
    <2> QED BY <2>2, <2>3, <2>4, <2>5, <2>6, <2>7, <2>8
  <1> QED BY <1>2, <1>3

\* dhcp_network_changed keeps an address it verifies.
LEMMA ChangedTimed ==
    ASSUME NEW w \in ClientType, NEW e \in Env, Timed(w.d)
    PROVE  LET v == dhcp_network_changed(w, e)
           IN  Timed(v.d) /\ GivesBack(v, w)
  <1> DEFINE f == [w.d EXCEPT !.tries = 0]
             u == [w EXCEPT !.d = f]
             v == dhcp_network_changed(w, e)
  <1>1. w.d \in struct_dhcp
    BY DEF ClientType
  <1>2. f \in struct_dhcp
    <2>1. 0 \in 0 .. TRIES_MAX
      BY DhcpAssumption
    <2> QED BY <1>1, <2>1 DEF struct_dhcp
  <1>3. u \in ClientType
    BY <1>2, WithD
  <1>4. u.d.state = w.d.state
    BY <1>1 DEF ClientType, struct_dhcp
  <1>5. \/ v = w
        \/ v = dhcp_reboot(u, e)
        \/ w.d.state \notin Supplying /\ v = dhcp_discover(u, e)
    <2>1. u = [w EXCEPT !.d.tries = 0]
      BY DEF ClientType
    <2> HIDE DEF u
    <2> QED BY <2>1 DEF dhcp_network_changed
  <1> HIDE DEF u, v
  <1>6. CASE v = w
    BY <1>6 DEF v, GivesBack
  <1>7. CASE v = dhcp_reboot(u, e)
    <2>1. "REBOOTING" \in dhcp_state
      BY DEF dhcp_state, Waiting
    <2>2. SentFrom(v, u, "REBOOTING")
      BY <1>3, <1>7, <2>1, RequestSent DEF dhcp_reboot
    <2>3. Timed(v.d) /\ GivesBack(v, u)
      BY <2>2, SentTimed
    <2> QED BY <1>4, <2>3 DEF v, GivesBack
  <1>8. CASE w.d.state \notin Supplying /\ v = dhcp_discover(u, e)
    <2>1. SentFrom(v, u, "SELECTING")
      BY <1>3, <1>8, DiscoverSent
    <2>2. Timed(v.d)
      BY <1>4, <1>8, <2>1, SentTimed
    <2> QED BY <1>8, <2>2 DEF v, GivesBack
  <1> QED BY <1>5, <1>6, <1>7, <1>8

\* A tick of the lease that has not ended keeps the timers in order: the time
\* used grows as the time to the next retry shrinks, and a new retry is set to
\* half of what is left.
LEMMA TickTimed ==
    ASSUME NEW w \in ClientType, NEW e \in Env, Good(w), w.d.state # "OFF", Timed(w.d),
           NEW a \in ClientType, a.d = w.d
    PROVE  LET v == LeaseTick(a, e)
           IN  Timed(v.d) /\ GivesBack(v, w)
  <1> DEFINE d == w.d
             used == IF d.t0_timeout > 0 THEN d.lease_used + 1 ELSE d.lease_used
             f == [d EXCEPT !.lease_used = used]
             f2 == [f EXCEPT !.t2_rebind_time = Down(d.t2_rebind_time)]
             f1 == [f2 EXCEPT !.t1_renew_time = Down(d.t1_renew_time)]
             aged == [a EXCEPT !.d = f]
             t2 == [a EXCEPT !.d = f2]
             t1 == [a EXCEPT !.d = f1]
             over == d.t0_timeout > 0 /\ used = d.t0_timeout
             v == LeaseTick(a, e)
  <1>1. d \in struct_dhcp
    BY DEF ClientType
  <1>2. /\ d.t0_timeout \in 0 .. U16MAX /\ d.lease_used \in 0 .. U16MAX
        /\ d.t1_renew_time \in 0 .. U16MAX /\ d.t2_rebind_time \in 0 .. U16MAX
    BY <1>1 DEF struct_dhcp
  <1>3. used \in 0 .. U16MAX /\ (d.t0_timeout > 0 => used <= d.t0_timeout)
    BY <1>2, DhcpAssumption DEF Good, GoodOf, SoundOf, UsedOK
  <1>4. Down(d.t1_renew_time) \in 0 .. U16MAX /\ Down(d.t2_rebind_time) \in 0 .. U16MAX
    BY <1>2, DhcpAssumption DEF Down
  <1>5. v = CASE over -> Restart(aged, e)
              [] ~over /\ d.t2_rebind_time = 1 -> dhcp_t2_timeout(t2, e)
              [] ~over /\ d.t2_rebind_time # 1 /\ d.t1_renew_time = 1 -> dhcp_t1_timeout(t1, e)
              [] OTHER -> t1
    <2> DEFINE g == [a EXCEPT !.d.lease_used = used]
               g2 == [g EXCEPT !.d.t2_rebind_time = Down(@)]
               g1 == [g2 EXCEPT !.d.t1_renew_time = Down(@)]
    <2>1. v = CASE over -> Restart(g, e)
                [] ~over /\ d.t2_rebind_time = 1 -> dhcp_t2_timeout(g2, e)
                [] ~over /\ d.t2_rebind_time # 1 /\ d.t1_renew_time = 1 -> dhcp_t1_timeout(g1, e)
                [] OTHER -> g1
      BY DEF LeaseTick
    <2> HIDE DEF used
    <2>2. g = aged
      BY <1>1 DEF ClientType
    <2>3. g2 = t2
      BY <1>1, <2>2 DEF ClientType, struct_dhcp
    <2>4. g1 = t1
      BY <1>1, <2>3 DEF ClientType, struct_dhcp
    <2> HIDE DEF g, g1, g2, aged, t1, t2, v
    <2> QED BY <2>1, <2>2, <2>3, <2>4
  <1> HIDE DEF v
  <1>6. CASE over
    <2> HIDE DEF used
    <2>1. v = Restart(aged, e)
      BY <1>5, <1>6
    <2>2. f \in struct_dhcp /\ f.state = d.state /\ f.pcb_allocated = d.pcb_allocated
      BY <1>1, <1>3 DEF struct_dhcp
    <2> HIDE DEF f
    <2>3. aged \in ClientType /\ aged.d = f
      BY <2>2, WithD DEF ClientType
    <2> HIDE DEF aged
    <2>4. PcbOK(aged.d) /\ aged.d.state = w.d.state
      BY <2>2, <2>3 DEF PcbOK, Good, GoodOf, SoundOf
    <2>5. /\ v.d.state \in {"OFF", "INIT", "SELECTING"}
          /\ w.d.state \in Supplying => v.ip = IP4_ADDR_ANY
      BY <2>1, <2>3, <2>4, RestartedAnew
    <2> QED BY <2>5, ElsewhereTimed DEF v, GivesBack
  <1>7. CASE ~over
    <2>1. d.t0_timeout > 0 => used = d.lease_used + 1 /\ used < d.t0_timeout
      BY <1>2, <1>3, <1>7
    <2>2. d.t0_timeout = 0 => used = d.lease_used
      OBVIOUS
    <2> HIDE DEF used
    <2>3. /\ f2 \in struct_dhcp /\ f2.state = d.state /\ f2.t0_timeout = d.t0_timeout
          /\ f2.lease_used = used /\ f2.t1_renew_time = d.t1_renew_time
          /\ f2.t2_rebind_time = Down(d.t2_rebind_time)
          /\ f2.offered_t0_lease = d.offered_t0_lease
          /\ f2.offered_t1_renew = d.offered_t1_renew
          /\ f2.offered_t2_rebind = d.offered_t2_rebind
      BY <1>1, <1>3, <1>4 DEF struct_dhcp
    <2> HIDE DEF f2
    <2>4. /\ f1 \in struct_dhcp /\ f1.state = d.state /\ f1.t0_timeout = d.t0_timeout
          /\ f1.lease_used = used /\ f1.t1_renew_time = Down(d.t1_renew_time)
          /\ f1.t2_rebind_time = Down(d.t2_rebind_time)
          /\ f1.offered_t0_lease = d.offered_t0_lease
          /\ f1.offered_t1_renew = d.offered_t1_renew
          /\ f1.offered_t2_rebind = d.offered_t2_rebind
      BY <1>1, <1>4, <2>3 DEF struct_dhcp
    <2> HIDE DEF f1
    <2>5. t2 \in ClientType /\ t2.d = f2 /\ t1 \in ClientType /\ t1.d = f1
      BY <2>3, <2>4, WithD DEF ClientType
    <2> HIDE DEF t1, t2
    <2>6. Timed(f1)
      <3>1. RebindOK(f1)
        BY <1>2, <2>1, <2>4 DEF Timed, RebindOK, Down
      <3>2. ASSUME TimesOrdered(d) PROVE TimesOrdered(f1)
        <4>1. CASE d.t0_timeout = 0
          BY <1>2, <2>2, <2>4, <3>2, <4>1 DEF TimesOrdered, Down
        <4>2. CASE d.t0_timeout > 0
          BY <1>2, <2>1, <2>4, <3>2, <4>2 DEF TimesOrdered, Down
        <4> QED BY <1>2, <4>1, <4>2
      <3>3. Derived(f1) => Derived(d)
        BY <2>4 DEF Derived
      <3>4. DerivedOK(f1)
        BY <2>4, <3>2, <3>3 DEF Timed, DerivedOK
      <3> QED BY <3>1, <3>4 DEF Timed
    <2>7. CASE d.t2_rebind_time = 1
      <3> DEFINE r == dhcp_rebind(t2, e)
                 k == Again(t2.d.t0_timeout, t2.d.lease_used, r.d.t2_rebind_time)
                 x == [r EXCEPT !.d.t2_rebind_time = k]
      <3>1. v = dhcp_t2_timeout(t2, e)
        BY <1>5, <1>7, <2>7
      <3>2. SentFrom(r, t2, "REBINDING")
        <4>1. "REBINDING" \in dhcp_state
          BY DEF dhcp_state, Supplying
        <4> QED BY <2>5, <4>1, RequestSent DEF dhcp_rebind
      <3>3. /\ r \in ClientType /\ r.d.state = "REBINDING"
            /\ r.d.t0_timeout = d.t0_timeout /\ r.d.lease_used = used /\ r.d.t2_rebind_time = 0
        BY <2>3, <2>5, <2>7, <3>2 DEF SentFrom, SameLease, Down
      <3>4. r.d \in struct_dhcp
        BY <3>3 DEF ClientType
      <3>5. \/ v = x
            \/ t2.d.state \notin {"REQUESTING"} \cup Supplying /\ v = t2
        <4> HIDE DEF t2
        <4> QED BY <3>1, <3>3, <3>4 DEF dhcp_t2_timeout, ClientType, struct_dhcp
      <3>6. k = IF (d.t0_timeout - used) \div 2 >= 1 THEN (d.t0_timeout - used) \div 2 ELSE 0
        BY <2>3, <2>5, <3>3 DEF Again
      <3> HIDE DEF r, k
      <3>7. CASE v = x
        <4>1. /\ x.d.state = "REBINDING" /\ x.d.t0_timeout = d.t0_timeout
              /\ x.d.lease_used = used /\ x.d.t2_rebind_time = k
          BY <3>3, <3>4 DEF ClientType, struct_dhcp
        <4> HIDE DEF x
        <4>2. d.t0_timeout > 0 => used + k < d.t0_timeout
          BY <1>2, <1>3, <2>1, <3>6
        <4>3. Timed(x.d)
          BY <4>1, <4>2 DEF Timed, RebindOK, DerivedOK
        <4>4. GivesBack(x, w)
          BY <4>1 DEF GivesBack, Supplying
        <4> QED BY <3>7, <4>3, <4>4 DEF v
      <3>8. CASE t2.d.state \notin {"REQUESTING"} \cup Supplying /\ v = t2
        <4>1. v.d.state \notin Supplying /\ w.d.state \notin Supplying
          BY <2>3, <2>5, <3>8
        <4> QED BY <4>1, ElsewhereTimed DEF v, GivesBack, Supplying
      <3> QED BY <3>5, <3>7, <3>8
    <2>8. CASE d.t2_rebind_time # 1 /\ d.t1_renew_time = 1
      <3> DEFINE r == dhcp_renew(t1, e)
                 k == Again(t1.d.t2_timeout, t1.d.lease_used, r.d.t1_renew_time)
                 x == [r EXCEPT !.d.t1_renew_time = k]
      <3>1. v = dhcp_t1_timeout(t1, e)
        BY <1>5, <1>7, <2>8
      <3>2. SentFrom(r, t1, "RENEWING")
        <4>1. "RENEWING" \in dhcp_state
          BY DEF dhcp_state, Supplying
        <4> QED BY <2>5, <4>1, RequestSent DEF dhcp_renew
      <3>3. r \in ClientType /\ r.d.state = "RENEWING" /\ r.d \in struct_dhcp
        BY <3>2 DEF SentFrom, ClientType
      <3>4. v = x \/ v = t1
        <4> HIDE DEF t1
        <4> QED BY <3>1, <3>3 DEF dhcp_t1_timeout, ClientType, struct_dhcp
      <3> HIDE DEF r, k
      <3>5. CASE v = x
        <4>1. x.d.state = "RENEWING"
          BY <3>3 DEF ClientType, struct_dhcp
        <4> HIDE DEF x
        <4> QED BY <3>5, <4>1, ElsewhereTimed DEF v, GivesBack, Supplying
      <3>6. CASE v = t1
        BY <2>4, <2>5, <2>6, <3>6 DEF v, GivesBack
      <3> QED BY <3>4, <3>5, <3>6
    <2>9. CASE d.t2_rebind_time # 1 /\ d.t1_renew_time # 1
      <3>1. v = t1
        BY <1>5, <1>7, <2>9
      <3> QED BY <2>4, <2>5, <2>6, <3>1 DEF v, GivesBack
    <2> QED BY <2>7, <2>8, <2>9
  <1> QED BY <1>6, <1>7

-----------------------------------------------------------------------------
(* The system                                                              *)

AllTimed == \A n \in Netifs : Timed(dhcp[n])

StepInv == IInv /\ AllTimed

\* What a step has to show.
Follows == AllTimed' /\ GiveBackStep

\* A function that leaves client n as v leaves the others alone.
LEMMA BecomesTimed ==
    ASSUME StepInv, NEW n \in Netifs, NEW v, Becomes(n, v), Timed(v.d),
           GivesBack(v, Client(n)) \/ dhcp_cleanup(n) \/ \E e \in Env : Start(n, e)
    PROVE  Follows
  <1>1. dhcp \in [Netifs -> struct_dhcp] /\ ip_addr \in [Netifs -> Addr]
    BY DEF StepInv, IInv, TypeOK, Addr
  <1>2. dhcp' = [dhcp EXCEPT ![n] = v.d] /\ ip_addr' = [ip_addr EXCEPT ![n] = v.ip]
    BY DEF Becomes
  <1>3. dhcp'[n] = v.d /\ ip_addr'[n] = v.ip
    BY <1>1, <1>2
  <1>4. \A k \in Netifs \ {n} : dhcp'[k] = dhcp[k]
    BY <1>1, <1>2
  <1>5. AllTimed'
    BY <1>3, <1>4 DEF StepInv, AllTimed
  <1>6. Client(n).d = dhcp[n]
    BY DEF Client
  <1>7. GiveBackStep
    <2> SUFFICES ASSUME NEW k \in Netifs, dhcp[k].state \in Supplying,
                        dhcp'[k].state \notin Supplying \cup {"REBOOTING"}
                 PROVE  ip_addr'[k] = IP4_ADDR_ANY \/ dhcp_cleanup(k) \/ \E e \in Env : Start(k, e)
      BY DEF GiveBackStep
    <2>1. k = n
      BY <1>4
    <2> QED BY <1>3, <1>6, <2>1 DEF GivesBack
  <1> QED BY <1>5, <1>7 DEF Follows

\* The timers.
LEMMA TimersFollow ==
    ASSUME StepInv, NEW n \in Netifs, NEW e \in Env,
           dhcp_fine_tmr(n, e) \/ dhcp_coarse_tmr(n, e)
    PROVE  Follows
  <1> DEFINE c == Client(n)
  <1>1. c \in ClientType /\ Good(c)
    BY ClientGood DEF StepInv
  <1>2. Timed(c.d)
    BY DEF StepInv, AllTimed, Client
  <1>3. SUFFICES ASSUME ~Follows PROVE FALSE
    OBVIOUS
  <1>4. CASE dhcp_fine_tmr(n, e)
    <2> DEFINE f == [c.d EXCEPT !.request_timeout = 0]
               w == [c EXCEPT !.d = f]
               v == dhcp_timeout(w, e)
    <2>1. Becomes(n, dhcp_timeout([c EXCEPT !.d.request_timeout = 0], e))
      BY <1>4 DEF dhcp_fine_tmr
    <2> HIDE DEF c
    <2>2. [c EXCEPT !.d.request_timeout = 0] = w
      BY <1>1 DEF ClientType
    <2>3. f \in struct_dhcp
      <3>1. c.d \in struct_dhcp /\ 0 \in 0 .. 1
        BY <1>1 DEF ClientType
      <3> QED BY <3>1 DEF struct_dhcp
    <2>4. w \in ClientType /\ w.d = f
      BY <1>1, <2>3, WithD DEF ClientType
    <2>5. SameLease(w, c) /\ w.d.state = c.d.state
      BY <1>1 DEF SameLease, ClientType, struct_dhcp
    <2>6. /\ f.state = c.d.state /\ f.t0_timeout = c.d.t0_timeout
          /\ f.lease_used = c.d.lease_used /\ f.t1_renew_time = c.d.t1_renew_time
          /\ f.t2_rebind_time = c.d.t2_rebind_time
          /\ f.offered_t0_lease = c.d.offered_t0_lease
          /\ f.offered_t1_renew = c.d.offered_t1_renew
          /\ f.offered_t2_rebind = c.d.offered_t2_rebind
      BY <1>1 DEF ClientType, struct_dhcp
    <2> HIDE DEF w, f
    <2>7. Sound(w)
      <3>1. LeaseOK(w.d, w.left) /\ UsedOK(w.d)
        BY <1>1, <2>5 DEF Good, GoodOf, SoundOf, LeaseOK, InStep, UsedOK, SameLease
      <3>2. PcbOK(w.d) /\ OffOK(w.d) /\ ConflictOK(w.d, w.conflict)
        BY <1>1, <2>5 DEF Good, GoodOf, SoundOf, PcbOK, OffOK, ConflictOK, SameLease
      <3> QED BY <3>1, <3>2 DEF Sound, SoundOf
    <2>8. Timed(w.d)
      BY <1>2, <2>4, <2>6 DEF Timed, RebindOK, DerivedOK, Derived, TimesOrdered
    <2>9. Timed(v.d) /\ GivesBack(v, w)
      BY <2>4, <2>7, <2>8, TimeoutTimed
    <2>10. Becomes(n, v)
      BY <2>1, <2>2
    <2> HIDE DEF v
    <2>11. GivesBack(v, c)
      BY <2>5, <2>9 DEF GivesBack
    <2> QED BY <1>3, <2>9, <2>10, <2>11, BecomesTimed DEF c
  <1>5. CASE dhcp_coarse_tmr(n, e)
    <2> DEFINE l == IF c.left = Forever THEN c.left ELSE Down(c.left)
               w == [c EXCEPT !.left = l]
               v == IF w.d.state = "OFF" THEN w ELSE LeaseTick(w, e)
    <2>1. Becomes(n, LET a == [c EXCEPT !.left = IF @ = Forever THEN @ ELSE Down(@)]
                     IN  IF a.d.state = "OFF" THEN a ELSE LeaseTick(a, e))
      BY <1>5 DEF dhcp_coarse_tmr
    <2> HIDE DEF c
    <2>2. [c EXCEPT !.left = IF @ = Forever THEN @ ELSE Down(@)] = w
      BY <1>1 DEF ClientType
    <2>3. Becomes(n, v)
      BY <2>1, <2>2
    <2>4. l \in 0 .. Forever
      BY <1>1, DhcpAssumption DEF Down, ClientType, Forever
    <2> HIDE DEF l
    <2>5. w \in ClientType /\ w.d = c.d
      BY <1>1, <2>4 DEF ClientType
    <2> HIDE DEF w
    <2>6. Timed(v.d) /\ GivesBack(v, c)
      <3>1. CASE w.d.state = "OFF"
        BY <1>2, <2>5, <3>1 DEF GivesBack, Supplying
      <3>2. CASE w.d.state # "OFF"
        BY <1>1, <1>2, <2>5, <3>2, TickTimed
      <3> QED BY <3>1, <3>2
    <2> HIDE DEF v
    <2> QED BY <1>3, <2>3, <2>6, BecomesTimed DEF c
  <1> QED BY <1>4, <1>5

\* A reply.
LEMMA RecvFollows ==
    ASSUME StepInv, NEW n \in Netifs, NEW e \in Env, NEW x, NEW m \in dhcp_msg,
           dhcp_recv(n, x, m, e)
    PROVE  Follows
  <1> DEFINE w == Client(n)
             a == dhcp_handle_ack(w, m)
  <1>1. w \in ClientType
    BY ClientGood DEF StepInv
  <1>2. Timed(w.d)
    BY DEF StepInv, AllTimed, Client
  <1>3. SUFFICES \E v : Timed(v.d) /\ GivesBack(v, w) /\ Becomes(n, v)
    BY BecomesTimed
  <1>4. \/ m.type = "ACK" /\ w.d.state = "REQUESTING" /\ Becomes(n, dhcp_check(a))
        \/ m.type = "ACK" /\ Becomes(n, dhcp_bind(a))
        \/ m.type = "NAK" /\ Becomes(n, dhcp_handle_nak(w, e))
        \/ /\ m.type = "OFFER" /\ w.d.state = "SELECTING"
           /\ Becomes(n, dhcp_handle_offer(w, m, e))
    BY DEF dhcp_recv
  <1> HIDE DEF w
  <1>5. m.type = "ACK" => a \in ClientType /\ a.d.state = w.d.state
    BY <1>1, Ack
  <1> HIDE DEF a
  <1>6. CASE m.type = "ACK" /\ w.d.state = "REQUESTING" /\ Becomes(n, dhcp_check(a))
    <2>1. SentFrom(dhcp_check(a), a, "CHECKING")
      BY <1>5, <1>6, CheckSent
    <2>2. Timed(dhcp_check(a).d)
      BY <1>5, <1>6, <2>1, SentTimed DEF Supplying
    <2>3. GivesBack(dhcp_check(a), w)
      BY <1>6 DEF GivesBack, Supplying
    <2> QED BY <1>6, <2>2, <2>3
  <1>7. CASE m.type = "ACK" /\ Becomes(n, dhcp_bind(a))
    <2>1. Timed(dhcp_bind(a).d) /\ dhcp_bind(a).d.state = "BOUND"
      BY <1>5, <1>7, BindTimed
    <2>2. GivesBack(dhcp_bind(a), w)
      BY <2>1 DEF GivesBack, Supplying
    <2> QED BY <1>7, <2>1, <2>2
  <1>8. CASE m.type = "NAK" /\ Becomes(n, dhcp_handle_nak(w, e))
    <2> DEFINE b == dhcp_set_state(w, "BACKING_OFF")
               u == [b EXCEPT !.ip = IP4_ADDR_ANY]
               v == dhcp_discover(u, e)
    <2>1. b \in ClientType
      <3>1. "BACKING_OFF" \in dhcp_state
        BY DEF dhcp_state, Waiting
      <3> QED BY <1>1, <3>1, SetState
    <2>2. v = dhcp_handle_nak(w, e)
      BY DEF dhcp_handle_nak
    <2> HIDE DEF b
    <2>3. u \in ClientType /\ u.ip = IP4_ADDR_ANY
      BY <2>1 DEF ClientType, Addr
    <2> HIDE DEF u
    <2>4. SentFrom(v, u, "SELECTING")
      BY <2>3, DiscoverSent
    <2> HIDE DEF v
    <2>5. Timed(v.d) /\ v.ip = IP4_ADDR_ANY
      BY <2>3, <2>4, SentTimed DEF SentFrom, SameLease
    <2> QED BY <1>8, <2>2, <2>5 DEF GivesBack
  <1>9. CASE m.type = "OFFER" /\ w.d.state = "SELECTING" /\ Becomes(n, dhcp_handle_offer(w, m, e))
    <2> DEFINE f == [w.d EXCEPT !.request_timeout = 0, !.offered_ip_addr = m.yiaddr]
               u == [w EXCEPT !.d = f]
    <2>1. f \in struct_dhcp
      <3>1. 0 \in 0 .. 1 /\ m.yiaddr \in Ips /\ w.d \in struct_dhcp
        BY <1>1, <1>9 DEF dhcp_msg, ClientType
      <3> QED BY <3>1 DEF struct_dhcp
    <2>2. u \in ClientType
      BY <1>1, <2>1, WithD
    <2>3. u.d.state = w.d.state
      BY <1>1 DEF ClientType, struct_dhcp
    <2>4. dhcp_handle_offer(w, m, e) = IF m.server_id THEN dhcp_select(u, e) ELSE w
      <3>1. u = [w EXCEPT !.d.request_timeout = 0, !.d.offered_ip_addr = m.yiaddr]
        BY <1>1 DEF ClientType
      <3> HIDE DEF u
      <3> QED BY <3>1 DEF dhcp_handle_offer
    <2> HIDE DEF u
    <2>5. Timed(dhcp_select(u, e).d)
      <3>1. "REQUESTING" \in dhcp_state
        BY DEF dhcp_state, Waiting
      <3>2. SentFrom(dhcp_select(u, e), u, "REQUESTING")
        BY <2>2, <3>1, RequestSent DEF dhcp_select
      <3> QED BY <1>9, <2>3, <3>2, SentTimed DEF Supplying
    <2>6. \A v : GivesBack(v, w)
      BY <1>9 DEF GivesBack, Supplying
    <2> QED BY <1>2, <1>9, <2>4, <2>5, <2>6
  <1> QED BY <1>4, <1>6, <1>7, <1>8, <1>9

\* The functions entered from outside, and an ARP reply.
LEMMA CalledFollows ==
    ASSUME StepInv, NEW n \in Netifs, NEW e \in Env,
           \/ Start(n, e) \/ Stop(n, e) \/ Renew(n, e) \/ NetworkChanged(n, e)
           \/ netif_set_link_up(n, e) \/ \E ip \in Ips : dhcp_arp_reply(n, ip, e)
    PROVE  Follows
  <1> DEFINE w == Client(n)
  <1>1. w \in ClientType
    BY ClientGood DEF StepInv
  <1>2. Timed(w.d)
    BY DEF StepInv, AllTimed, Client
  <1>3. SUFFICES \E v : /\ Timed(v.d) /\ Becomes(n, v)
                        /\ GivesBack(v, w) \/ \E f \in Env : Start(n, f)
    BY BecomesTimed
  <1>4. CASE Start(n, e)
    <2>1. Becomes(n, dhcp_start(w, e))
      BY <1>4 DEF Start
    <2> HIDE DEF w
    <2>2. Timed(dhcp_start(w, e).d)
      BY <1>1, <1>2, StartedAnew, ElsewhereTimed
    <2> QED BY <1>4, <2>1, <2>2
  <1>5. CASE Stop(n, e)
    <2>1. Becomes(n, dhcp_release_and_stop(w, e))
      BY <1>5 DEF Stop
    <2> HIDE DEF w
    <2>2. /\ Timed(dhcp_release_and_stop(w, e).d)
          /\ GivesBack(dhcp_release_and_stop(w, e), w)
      BY <1>1, ReleasedOff, ElsewhereTimed DEF GivesBack
    <2> QED BY <2>1, <2>2
  <1>6. CASE Renew(n, e)
    <2>1. Becomes(n, dhcp_renew(w, e))
      BY <1>6 DEF Renew
    <2> HIDE DEF w
    <2>2. SentFrom(dhcp_renew(w, e), w, "RENEWING")
      <3>1. "RENEWING" \in dhcp_state
        BY DEF dhcp_state, Supplying
      <3> QED BY <1>1, <3>1, RequestSent DEF dhcp_renew
    <2>3. Timed(dhcp_renew(w, e).d) /\ GivesBack(dhcp_renew(w, e), w)
      BY <2>2, SentTimed
    <2> QED BY <2>1, <2>3
  <1>7. CASE NetworkChanged(n, e)
    <2>1. Becomes(n, dhcp_network_changed(w, e))
      BY <1>7 DEF NetworkChanged
    <2> HIDE DEF w
    <2> QED BY <1>1, <1>2, <2>1, ChangedTimed
  <1>8. CASE netif_set_link_up(n, e)
    <2> DEFINE u == [w EXCEPT !.link = TRUE]
    <2>1. Becomes(n, dhcp_network_changed(u, e))
      BY <1>8 DEF netif_set_link_up
    <2> HIDE DEF w
    <2>2. u \in ClientType /\ u.d = w.d
      BY <1>1 DEF ClientType
    <2> HIDE DEF u
    <2>3. LET v == dhcp_network_changed(u, e)
          IN  Timed(v.d) /\ GivesBack(v, u)
      BY <1>2, <2>2, ChangedTimed
    <2> QED BY <2>1, <2>2, <2>3 DEF GivesBack
  <1>9. CASE \E ip \in Ips : dhcp_arp_reply(n, ip, e)
    <2> DEFINE s == Armed(dhcp_create_msg(dhcp_set_state(w, "BACKING_OFF"), "DECLINE",
                                          e.pbuf, e.rand))
               v == [s EXCEPT !.conflict = w.d.offered_ip_addr]
    <2>1. w.d.state = "CHECKING" /\ Becomes(n, v)
      BY <1>9 DEF dhcp_arp_reply, dhcp_decline, Client
    <2> HIDE DEF w
    <2>2. SentFrom(s, w, "BACKING_OFF")
      <3>1. "BACKING_OFF" \in dhcp_state /\ e.pbuf \in BOOLEAN /\ e.rand \in Xids
        BY DEF dhcp_state, Waiting, Env
      <3> QED BY <1>1, <3>1, Send
    <2> HIDE DEF s
    <2>3. v.d.state = "BACKING_OFF"
      BY <2>2 DEF SentFrom, ClientType
    <2> HIDE DEF v
    <2> QED BY <2>1, <2>3, ElsewhereTimed DEF GivesBack, Supplying
  <1> QED BY <1>4, <1>5, <1>6, <1>7, <1>8, <1>9

\* A client is freed, whatever it does.
LEMMA CleanupFollows ==
    ASSUME StepInv, NEW n \in Netifs, dhcp_cleanup(n)
    PROVE  Follows
  <1> DEFINE w == Client(n)
             v == [w EXCEPT !.d = Zeroed]
  <1>1. w \in ClientType
    BY ClientGood DEF StepInv
  <1>2. Becomes(n, v)
    BY DEF dhcp_cleanup
  <1> HIDE DEF w
  <1>3. v.d.state = "OFF"
    BY <1>1 DEF ClientType, Zeroed
  <1> HIDE DEF v
  <1>4. Timed(v.d)
    BY <1>3, ElsewhereTimed
  <1> QED BY <1>2, <1>4, BecomesTimed

\* Every step keeps the timers in order and gives back what it gives up.
LEMMA NextFollows == StepInv /\ [Next]_vars => Follows
  <1> SUFFICES ASSUME StepInv, [Next]_vars PROVE Follows
    OBVIOUS
  <1>1. CASE UNCHANGED dhcp
    BY <1>1 DEF StepInv, AllTimed, Follows, GiveBackStep
  <1>2. CASE \E e \in Env, n \in Netifs : dhcp_fine_tmr(n, e) \/ dhcp_coarse_tmr(n, e)
    BY <1>2, TimersFollow
  <1>3. CASE \E e \in Env, n \in Netifs, x \in XidOrNone, m \in dhcp_msg : dhcp_recv(n, x, m, e)
    BY <1>3, RecvFollows
  <1>4. CASE \E e \in Env, n \in Netifs :
               \/ Start(n, e) \/ Stop(n, e) \/ Renew(n, e) \/ NetworkChanged(n, e)
               \/ netif_set_link_up(n, e) \/ \E ip \in Ips : dhcp_arp_reply(n, ip, e)
    BY <1>4, CalledFollows
  <1>5. CASE \E n \in Netifs : dhcp_cleanup(n)
    BY <1>5, CleanupFollows
  <1>6. ASSUME \/ \E e \in Env : dhcp_inform(e)
               \/ \E n \in Netifs : netif_set_link_down(n) \/ netif_set_up_down(n)
               \/ UNCHANGED vars
        PROVE  UNCHANGED dhcp
    BY <1>6 DEF dhcp_inform, netif_set_link_down, netif_set_up_down, vars
  <1> QED BY <1>1, <1>2, <1>3, <1>4, <1>5, <1>6 DEF Next, XidOrNone

-----------------------------------------------------------------------------
(* Theorems                                                                *)

\* The invariant holds in every reachable state.
LEMMA StepInductive == Spec => []StepInv
  <1>1. Init => AllTimed
    BY ElsewhereTimed DEF Init, AllTimed, Zeroed
  <1>2. StepInv /\ [Next]_vars => AllTimed'
    BY NextFollows DEF Follows
  <1>3. IInv /\ AllTimed <=> StepInv
    BY DEF StepInv
  <1> QED BY <1>1, <1>2, <1>3, Inductive, PTL DEF Spec

\* Retries to rebind come before the lease ends, and derived times of a bound
\* lease are in order, for every width and every lease whose sevenfold fits
\* (dhcp_bind, dhcp_t2_timeout, dhcp_coarse_tmr).
THEOREM TimersInOrder == Spec => []TimersOrdered
  <1>1. StepInv => TimersOrdered
    BY DEF StepInv, AllTimed, Timed, RebindOK, DerivedOK, TimersOrdered, RebindBeforeExpiry,
        DerivedTimesOrdered
  <1> QED BY <1>1, StepInductive, PTL

\* The interface loses an address in the step in which the client gives it up,
\* unless dhcp_start or dhcp_cleanup was called (dhcp_handle_nak,
\* dhcp_release_and_stop, dhcp_coarse_tmr).
THEOREM AddressReturned == Spec => AddressGivenBack
  <1>1. StepInv /\ [Next]_vars => [GiveBackStep]_vars
    BY NextFollows DEF Follows
  <1> QED BY <1>1, StepInductive, PTL DEF Spec, AddressGivenBack

=============================================================================
