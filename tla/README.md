# Verification of the protocol sources in `network-protocol`

The repository is a course on network protocols: one directory per topic, each
with notes in Markdown and a copy of the upstream source the notes explain
(lwIP, FRR, nghttp2, quiche, BoringSSL, nginx, gRPC, rdma-core, unbound,
liburing, Open vSwitch, Redis). This directory holds TLA+ models of the
stateful cores of that source, TLC configurations that check them on small
instances, and TLAPS proofs. Models are translated from the C code; the notes
and comments are used only as claims to compare the code with.

## Inventory

| Component | State it keeps | Operations | What is hard |
| --- | --- | --- | --- |
| ARP cache, `arp-ndp/.../ipv4/etharp.c` | table of entries (state, key, hardware address, age, packet queue), cached index | received ARP message, output, query, timer, static entries, interface down | recycling under load, packets referenced exactly once, stale cached index, ageing |
| Interfaces, `ethernet/.../netif.c` | up and link flags, addresses | up, down, link up/down, set address | other components learn of changes one call at a time |
| DHCPv4 client, `dhcp/.../ipv4/dhcp.c` | state, tries, request timer, four lease timers, offered times, transaction id, shared PCB count | start, stop, renew, inform, message and ARP reply, fine and coarse timers, network change | two independent timers, lost and late replies, failed allocations, restarts at any moment, integer widths |
| TCP, `tcp/.../tcp{,_in,_out}.c` | control blocks, queues, windows, timers | segments, application calls, timers | interleaving of both ends, loss, reordering, wrapping sequence numbers |
| ND6, `arp-ndp/.../nd6.c` | neighbour, destination, prefix and router tables | received ND messages, timer, next hop | reachability states, recycling, DAD |
| DNS client, `dhcp/.../core/dns.c` | name table, request table, server index | query, response, timer | retries over servers, table reuse while a callback is pending |
| DHCPv6 client, `dhcp/.../dhcp6.c` | three states, retransmission | enable, reply, timer | retries |
| UDP, ICMP, IP, `udp`, `icmp`, `ipv4-ipv6` | control block list; otherwise none | input, output | demultiplexing; mostly stateless |
| BGP, `routing/.../bgp_fsm.c` | peer state, timers | connection events, messages, timers | collision, hold timer races, graceful restart |
| OSPF and zebra, `routing/` | LSDB, retransmission lists, RIB | flooding, ageing | distributed, dependent on code outside the repository |
| HTTP/2, `http2/.../nghttp2_session.c` | streams, windows, outbound queues, prepared frame, settings in flight | application calls, send, receive | frames prepared but not written, crossing resets and GOAWAYs, limits in force at different times, two-level flow control |
| QUIC, `quic-http3/.../stream.rs` | stream buffers, flow control | send, receive, acknowledge | reordered and overlapping data, final size |
| liburing, `high-performance/.../queue.c` | ring indices | get, submit, reap | wrapping indices, memory order |
| TLS, HTTP/1.1, RPC, RDMA, unbound, Open vSwitch, RESP, site | see `PROJECT.json` | | not modelled, with reasons in `PROJECT.json` |

Interactions: netif events call into etharp (`etharp_cleanup_netif`,
gratuitous requests) and dhcp (`dhcp_network_changed`); etharp reports ARP
replies to dhcp (`dhcp_arp_reply`), and dhcp asks etharp to probe an address
(`etharp_query`) and sets the interface's address. lwIP runs all of this in one
thread under the core lock, so each entry point is atomic; timers, packets and
calls interleave between entry points. The two ends of a TCP connection or of an
HTTP/2 session meet only in the segments and frames on their way.

## Modules

| Module | Models | Checked by | Proved in |
| --- | --- | --- | --- |
| `Etharp` | `etharp.c` and the part of `netif.c` that acts on it | `MCEtharp` | `EtharpProof` |
| `Dhcp` | `dhcp.c` and the part of `netif.c` that acts on it | `MCDhcp` | `DhcpProof`, `DhcpStepProof` |
| `Stream` | what a TCP connection promises its applications (abstract) | through `Tcp` | |
| `TcpOut`, `TcpIn` | the functions of `tcp_out.c`, `tcp_in.c` and `tcp.c` on one host | through `Tcp` | `TcpProof` |
| `Tcp` | two hosts, their applications and timers, and the network | `MCTcp` | `TcpProof` |
| `Http2Session` | the functions of `nghttp2_session.c` on one session | through `Http2` | |
| `Http2` | a client's and a server's session, their applications and the connection | `MCHttp2` | `Http2Proof`, `Http2RefusedProof`, `Http2EndProof` |
| `FoldFacts` | nothing: induction for the folds the models use | | itself |

`TcpIn` extends `TcpOut` and `Tcp` extends `TcpIn`; `Tcp` instantiates `Stream`
with a refinement mapping. `Http2` extends `Http2Session`. Operators whose
comment calls them a mutant are plausible mistakes in the definition that
follows them; `PROJECT.json` names the property each breaks.

### Etharp

`arp_table` is the array of the code; an entry has its state, key, hardware
address, `ctime` and queue `q`. `held` is the set of packets etharp has a
reference to (`pbuf_ref`, `pbuf_clone` and the free calls add and remove).
`out` and `arp` are the frames the last step gave to `ethernet_output`;
`quiet` is a history variable used by one property. Every exported function
and the timer is an action, with allocation failures as nondeterminism. The
search of `etharp_find_entry` is split into `Match` (an entry for the key) and
`Victim` (what to recycle), and claiming an entry is `Claimed`.

Abstractions: an address that is not unicast is `IPADDR_ANY`, every destination
behind the gateway is `OffLink`. The two build options that change behaviour
(`ARP_QUEUEING`, `ETHARP_TABLE_MATCH_NETIF`) are constants. The re-request ages
are given as their distance from `ARP_MAXAGE`. Left out: ACD hooks, hardware
address hints, multicast mapping, the link flag, and the check of frame sizes.

### Dhcp

`dhcp` is the `struct dhcp` of each interface. The functions of `dhcp.c` call
each other, so each is an operator from a record `w` of what it reads and
writes (`Client(n)`) to the record it leaves; an action applies the function
that is entered (`Becomes`). `Env` holds the outcome of each allocation and the
number drawn in a step. `lease_left`, `conflict` and `leaked` are history
variables: the true remaining lease, the address last found in use by another
host, and the number of references to the PCB that `dhcp_cleanup` left behind.

Abstractions: `request_timeout` is pending or not, its length does not matter to
the properties; the timers' loops over interfaces take one step per interface;
a message is its type, address and the options that matter. A structure that
has not been allocated is one that is zeroed and off. `Renew` is called only
while there is a lease; `dhcp_cleanup` in any state, since the code asks for
none (`MaxLeaked` bounds how often of a client that runs). The minute between retries is one coarse period, as it is in the
code. Left out: mask, gateway, server address, DNS, NTP and boot options,
AutoIP, the MTU check.

The widths are constants (`U32`, `U16MAX`) because TLC's integers have 32 bits:
instances scale them and the period down together, so that capping, rounding
and wrapping all happen.

### Tcp

The functions of the three files call each other, so each is an operator on a
work record `w`: the control block `w.p`, the application `w.a`, the segments
sent `w.out`, whether memory is left, and the assertions that failed. `TcpOut`
has the output side (writing, segmentation, `tcp_output` with window and Nagle,
FIN, retransmission, probes), `TcpIn` the input side (the state machine of
`tcp_process`, acknowledgements, reassembly in `ooseq` with trimming, refused
data, listening, RST and the end of a connection). `Tcp` has one action per
entry point: the application's calls, a received segment, the slow and the fast
timer. lwIP runs them under the core lock, so each is atomic.

Host A connects, host B listens. The network is a set of segments per
direction: it reorders, drops what does not fit `NetCap`, loses or duplicates up
to a bound, and allocations fail up to a bound. The slow timer's action takes
the set of deadlines that have passed, so a retransmission timeout may come at
any moment, early or late. Sequence numbers are taken modulo `SeqSpace` and the
window field modulo `WndSpace`; the client's initial number is chosen so that
it wraps in mid-connection. A failed `LWIP_ASSERT` is recorded in `asserts` and
the code goes on, as it does in a build without assertions.

`StreamSpec` is the refinement: bytes written and received, the calls that end
writing and the reports of the end of the stream, as `Stream` orders them.

Left out: keepalive, the backlog, ports and `tcp_bind`, the congestion window's
growth and round-trip estimates, window scaling, timestamps and SACK, counting
pbufs (`snd_queuelen`), output errors of the driver, urgent data, and freeing
memory by killing other connections in `tcp_alloc`, and `tcp_shutdown` of the
receiving side (TF_RXCLOSED and freeing refused data), which these applications
do not call.

### Http2

`Http2Session` is one session as a record: the queues `ob_urgent`, `ob_reg` and
`ob_syn`, the prepared frame `aob`, the stream map, both levels of flow control
in both directions, settings in flight, the GOAWAY flags and the number of
streams. Its operators have the names of the source's functions.
`Http2` has the application's calls (request, response, reset, settings, GOAWAY
and shutdown notice, termination, consuming data), `Pop` (the next item is
taken from a queue and prepared, in the order of
`nghttp2_session_pop_next_ob_item`), `Sent` (its last byte is written and its
effects are applied) and `Recv`. Between `Pop` and `Sent` the socket may block,
and everything else may happen: that is where the code is delicate.

The grain is one frame; a payload is its length; stream k has identifier 2k-1.
The connection delivers in order and holds `SockBuf` frames per direction. The
functions of other files that the session calls (`nghttp2_submit_*`, the window
update rule of `nghttp2_helper.c`, the rate limiter of resets) are modelled from
their use; the limiter has no refill. Each call of `nghttp2_session_mem_recv` is
given one frame; with several frames in one call the code asks
`nghttp2_session_want_read` only before the first. Read callbacks always have
data: their results DEFERRED, PAUSE and TEMPORAL_CALLBACK_FAILURE do not happen.
`before_frame_send_callback` cancels no frame and no header block exceeds the
frame size. `stranded` is a history variable: a request waited in `ob_syn` when a
GOAWAY had been written. Left out: server push, trailers, PRIORITY, PING, ALTSVC,
ORIGIN, padding, HPACK, HTTP message checks, and frames no nghttp2 peer would
send.

## Runs

| Run | Instance | Shows |
| --- | --- | --- |
| `etharp` | two entries, two hosts, queues of two, pool of three, four packets | types and ages; each packet in one queue and within its bound; a flush sends each packet once and in order; re-requests are two ticks apart |
| `etharp_netifs` | two interfaces with two hosts each: four keys for two entries, no `ARP_QUEUEING` | keys unique, packets stay with host and interface and on pending entries, frames follow the table although the cached index may be stale; entries with packets are recycled last and oldest first, static entries never |
| `etharp_live` | `FairSpec` | no packet waits for ever |
| `dhcp` | one client, one address, leases of 12 s, of 40 s (seven times which wraps) and infinite, in ticks of 4 s with timers of at most 3 ticks, ARP check, one `dhcp_cleanup` of a running client; 153,664 states | types; the PCB count; no waiting without a timeout, nor without an expiry timer after a finite lease; no expired lease vouched for; retries bounded; a declined address is not bound; an address is given back with its lease; retries to rebind come before the end of the lease, and derived times stay ordered after rounding and capping |
| `dhcp_lease` | a lease whose seconds times seven do not fit the width | finding |
| `dhcp_live` | `FairSpec` | every phase of a negotiation ends |
| `tcp` | four bytes in segments of two, links of two segments, one timeout, close and abort at both ends, a listener that closes; 269,012 states | the pair of streams; nothing forgotten before it is acknowledged; queues sorted; both ends on the same connection; in-order data fits the window |
| `tcp_faults` | three bytes written and read at once, half-close, one failed allocation, refused data, also with a FIN, dropped `ooseq`; 100,318 states | the pair of streams; acknowledged bytes have arrived, except where TIME_WAIT purges refused data; the send buffer is accounted exactly |
| `tcp_live` | three bytes through a window of two, one byte read at a time, one loss and one duplicate, timers without bound, `FairSpec` | every byte is delivered or the writer is told; sequence numbers and the announced window never go back; persist and retransmission timers exclude each other |
| `tcp_split` | five bytes, window of four, one probe | finding |
| `http2` | two requests, limit of one stream, windows of two and three for responses of three octets, one reset, shrink, GOAWAY by either end or termination, `FairSpec`; 153,932 states | windows conserved at both levels; no connection error; streams counted; refused requests not answered; clean ends complete; both ends agree on the open streams; every request ends |
| `http2_window` | one upload of five octets, automatic window updates, a server that shrinks its window | finding |

Bounds. Two table entries suffice for recycling to have a choice, and four keys
for the table to be full; ages are small but keep the order of the real limits.
For DHCP, six tries cover every comparison the code makes with `tries`; three
identifiers leave a fresh one when the client and the shared static differ. One
address suffices, since a client compares addresses only with the one it was
offered, and one leaked reference makes the count differ from the clients for
the rest of a behaviour. One client is enough for TLC: clients meet only in the PCB count, which is proved
for any number, and in the shared identifier, which `dhcp_inform` also changes.
Interfaces, identifiers, addresses, packets and hardware addresses are
interchangeable and used for symmetry, except in the liveness runs.
`etharp_netifs` has a `VIEW` without `arp` and `quiet`: no step and no property
of that run depends on them.

For TCP, in run `tcp`, two segments of data and a FIN overlap, fill and overrun a window of
two segments, and two segments on a link are enough to reorder and drop;
acknowledgements, the FIN and retransmissions compete with them. In `tcp_faults` the
three bytes leave one number of the window for the FIN, so that it arrives while
data is refused and both ends close. One retransmission per timer is the limit after which a connection is given up, so
the giving up is reached as well. For HTTP/2, the second request waits for the
first, responses exceed both windows, and one call at any moment puts a reset,
a smaller window or a GOAWAY between any two steps of the other frames. A
second such call multiplies the states beyond what TLC finishes in minutes.
`ResetBurst` is 0, so that the rate limiter acts on the first reset. In that run
requests have no body and windows are updated by hand; see Disagreements.

Deadlock is not checked for TCP and HTTP/2: a connection that is over has
nothing left to do.

Fairness. `etharp_tmr` and `dhcp_fine_tmr` are called from lwIP's cyclic timers
for as long as the stack runs, so their actions are weakly fair. Nothing is
assumed of the network, of servers or of the application, except in
`HeldReleased`, which assumes that probes without a packet stop: each such
probe restarts the entry's clock in the code.

TCP's timers are cyclic as well. A segment the link keeps arrives; losses are
bounded, and a retransmission that exceeds the limit ends the connection and
tells the writer. The server's application reads what it was given. These are
weak fairness conditions written with their enabling conditions (`Fairness` in
`Tcp`). For HTTP/2 both event loops keep calling `nghttp2_session_send` and
`nghttp2_session_recv` while the session wants to, the server answers what it
was handed and applications consume their data; nobody has to submit, reset or
change anything.

## Findings

Each is a run with `expect: violation`; `PROJECT.json` quotes the comment that
says otherwise.

- `dhcp_lease`: without a rebinding time option the client computes
  `lease * 7 / 8` in 32 bits. For a finite lease of more than 2^32 / 7 seconds
  (19 years) the product wraps and the rebinding timer may run out long before
  the renewal timer: the client broadcasts at once and never renews. The notes
  say that derived times are always in order.
- `tcp_split`: `tcp_split_unsent_seg` means to move FIN to the second half, but
  `TCPH_SET_FLAG` only ORs flags in, so the first half keeps its FIN. A reader
  whose window has reopened takes it for the end of the stream and loses the
  bytes behind it.
- `http2_window`: after a stream's WINDOW_UPDATE was written, the received
  amount is compared with the local window although nothing was received. If
  the window was shrunk meanwhile, the stream is reset with FLOW_CONTROL_ERROR
  although its peer kept to every limit.

## Disagreements

Points where the code and a comment, assertion or document differ that were met
while modelling. They have no run: the models contain the behaviour, and the
properties are stated so that they hold with it.

ARP and DHCP:

- ARP messages received while an interface is down create entries.
- After a NAK the old renewal timer moves a new request to RENEWING, so
  `dhcp_supplied_address` is true without an address on the interface.
- A lease that ends in REBOOTING leaves the address in place.
- An infinite lease keeps the expiry timer of a finite one before it. Without one,
  a NAK that is followed by a new offer can leave the client in REBINDING, with no
  address and no timer that will ever run out: the old T2 fires in REQUESTING
  (`dhcp.c:583`). `dhcp/state-machine.md:116` says that REBINDING ends with the
  lease. `NeverStuck` speaks of finite leases for this reason.
- `dhcp_cleanup` frees a client in any state. One that was not stopped leaves its
  address on the interface and its reference in the count, so that the PCB is
  never removed; `dhcp/src/README.md:80` names it, beside `dhcp_stop`, as a way to end.
- A DISCOVER sent again carries the identifier another sender has drawn since.
- `dhcp/state-machine.md:80` says that `dhcp_start` with a remembered address
  enters REBOOTING; the code always discovers.
- A packet for an address that is already pending is queued without a new
  request (`etharp.c:906`), and a change of the network in SELECTING draws a new
  identifier (`dhcp.c:884`).

TCP:

- The assertion "ooseq tcplen > rcv_wnd" (`tcp_in.c:1580`) can fail when data
  that fills the window was queued out of order together with its FIN.
- An end in FIN_WAIT_1 whose application refuses data that comes with a FIN goes to
  CLOSING; the acknowledgement of its own FIN then moves it to TIME_WAIT, and
  `tcp_pcb_purge` frees the refused bytes, which were acknowledged
  (`tcp_in.c:1021`). From FIN_WAIT_2 the FIN itself does so. The reader is not told
  of the end of the stream. `AckedArrived` excepts a TIME_WAIT without it.
- The assertion that the persist timer does not tick with an empty send buffer
  (`tcp.c`) can fail when the byte of a probe was accepted.

HTTP/2:

- Two GOAWAYs queued one after the other may increase the last stream
  identifier, since `nghttp2_session_add_goaway` compares with a number that is
  updated when the first is prepared; the peer takes that for a connection
  error. The comment before it says the identifier must not be increased. An
  application submits one GOAWAY in the model.
- A client that sent a GOAWAY and has no stream open does not want to read any
  more, although a request may still wait in `ob_syn`
  (`nghttp2_session_want_read` does not look there). What arrives in this moment is
  dropped, also the first SETTINGS or a WINDOW_UPDATE; when the request is then
  sent, the session reads again and takes the next frame for a connection error,
  or has lost a part of its window. The server ignores a request behind the
  client's GOAWAY, so the application never hears of it. Run `http2` reaches this;
  its properties except the behaviours in which a request waited past the GOAWAY
  (`stranded`).
- Resetting a request twice while it waits in `ob_syn` sends RST_STREAM for an
  idle stream. In the model a stream is reset once.
- A server that resets a stream while its last DATA is being written ignores
  the client's END_STREAM and keeps the stream counted; at the limit of streams
  the client's next request is then answered with a connection error. This
  needs requests with a body, which run `http2` does not have.
- An end that has received a GOAWAY drops the RST_STREAMs it has queued when its
  last stream ends (`session_is_closing`). Where a request's body ends the last
  stream of the server after a GOAWAY of the client, this leaves a stream open at
  the client. This and the item before are `CutShort`, the second exception of
  `NoConnectionError` and `StreamsAgree`.

## Proofs

`EtharpProof` proves, for every table size, age limit, queue length and finite
or infinite set of hosts, interfaces and packets that satisfies
`EtharpAssumption`:

- `TypeCorrect`: `TypeOK`, which includes the age limits;
- `KeysUnique`: `UniqueKey`; `PacketsForEntry`: `QueuedForEntry`;
- `PacketsHeldOnce`: `HeldInOneQueue`;
- `FramesFollowTable`: `SentToMapping`.

The inductive invariant is `IInv`: a part about the table and `held` alone
(`TableOK`: types, ages, unique keys, queues only on pending entries and for
their key, the queues hold exactly `held` without repetition) and a part about
the other variables. It is needed because a flush sends what is queued (so
`SentToMapping` rests on `QueuedForEntry`), recycling frees what is queued (so
`HeldInOneQueue` rests on queues being disjoint), and an update finds the entry
it should replace only if keys are unique. Each of these parts is also checked
by TLC in the runs above.

Its second part adds what a step may never do, and the bounds:

- `QueuesBounded`: `QueueBounded`, each queue and the shared pool;
- `FlushedOnce`: `FlushExactlyOnce`; `LastResort`: `RecycledLast`;
- `StaticKept`: `StaticPersists`; `RequestsSpaced`: `ReRequestSpacing`.

`GoodStep` is the conjunction of the four action formulas; one lemma per
handler derives it and keeps `StepInv`, which is `IInv` with three additions:
every packet held is accounted for in the pool (`PoolOK`), no queue is longer
than its limit, and `QuietOK`, which ties the state and age of an entry to the
ticks since it was last asked about. The last is what spacing needs: a second
request is possible only from a state that a tick must have reached.

`DhcpProof` proves, for every finite set of interfaces, all lease, renewal and
rebinding times, all widths and periods and both settings of the ARP check that
satisfy `DhcpAssumption`:

- `TypeCorrect`: `TypeOK`; `PcbCounted`: `PcbConserved`;
- `Progressing`: `NeverStuck`; `LeaseHeld`: `SuppliedLeased`;
- `TriesBounded`: `RetriesBounded`; `ConflictAvoided`: `ConflictNotBound`.

`Progressing` and `LeaseHeld` cover clients in BOUND, RENEWING and REBINDING without
an address too, which a NAK and an old timer lead to. The one case `NeverStuck`
excepts is an infinite lease, where the code does leave a client stuck (see
Disagreements). `PcbCounted` counts beside the clients the references that
`dhcp_cleanup` left behind, for any number of them.

The inductive invariant is `GoodOf` for every client and the exact PCB count.
Its centre is `LeaseOK`: `t0_timeout - lease_used` is what is left of the lease,
if it is finite, not only in these three states, but for as long as a renewal or
rebinding timer runs, because in REQUESTING such a timer leads back to one of
them, whether or not there is an address. `UsedOK` (the end of a lease is never skipped) carries it over
a tick, `OffOK` (no timer runs on a stopped client) over a stop and a start, and
`ConflictOK` (a client that checks or has bound an address has seen an ACK since
the last conflict) gives `ConflictNotBound`. One lemma per function of `dhcp.c`
shows that it leaves a good client and that `Others`, the count without the
client's own share, stays as it was; `BecomesGood` turns this into the invariant
of the whole system.

`DhcpStepProof` adds, under the same assumption:

- `TimersInOrder`: `TimersOrdered`. `RebindOK` says of a client that rebinds that
  its next retry comes before its lease ends; it is kept because each retry
  halves the rest. `DerivedOK` says of derived times that T1, T2 and the lease
  are in order in ticks as long as the product does not wrap: division and the
  cut to 16 bits are monotone (`DivMonotone`, `TicksMonotone`), which carries the
  order of the seconds over to the ticks.
- `AddressReturned`: `AddressGivenBack`, from a relation between a client before
  and after each function (`GivesBack`).

`DhcpAssumption` asks that the coarse period is shorter than what the lease's
width can hold (60 s against 2^32): otherwise rounding up would wrap.

`FoldFacts` makes the folds of the community modules provable. A fold is a
recursion over the subsets of a finite set along a choice, for `FoldSet` that of
a `CHOOSE`, for the folds of sequences the last index; the lemmas state it as a
function on these subsets (`IsFoldBy`, `IsFold`), show that it exists
(`FoldByExists`, `FoldExists`) and give the induction (`PickInduction`), with sets
in the place of the operator parameters the provers cannot instantiate.

`TcpProof` proves, for all sequence and window widths, segment sizes, windows and
buffers, all lengths written and read, all deadlines and any number of losses,
duplicates, timeouts and failed allocations that satisfy `TcpOutAssumption` and
`TcpAssumption`:

- `PersistInFlightAlways`: `PersistInFlight`;
- `SendBufferExactAlways`: `SendBufferExact`;
- `FlightTimedAlways`: while a segment is in flight the retransmission timer
  runs and the persist timer does not. No run has this one as a property.

The inductive invariant is `BlockInv`: both control blocks are `Sound`, and
control blocks, applications and segments on their way have their types. `Sound`
has the three properties for one block, and two things that make them inductive.
In TIME_WAIT the count of the send buffer is given up, because `tcp_pcb_purge`
empties the queues and leaves `snd_buf`. In SYN_SENT `SynFirst` is added: when the
SYN|ACK arrives, `tcp_process` takes the first segment off `unacked`, or off
`unsent` after a timeout, and gives nothing back to `snd_buf`; this is right only
if that segment is the SYN. It is, because data written before the connection
opens has sequence numbers after `lastack`, so no retransmission, insertion in
order or split puts it first; for this `SynFirst` also ties `snd_lbb` to
`snd_buf`, and the assumption that the send buffer is smaller than half the
sequence space is used. `BytesConcat` (bytes on a joined queue, from `FlattenSeq`)
and `InsertedBytes` (the sorted insertion of `tcp_output`) count the bytes. Each
function of `tcp_in.c`, `tcp_out.c` and `tcp.c` has one lemma, with `Light` as the
common case: it changes nothing `Sound` speaks of.

`Http2Proof` proves `StreamsCountedAlways`: `StreamsCounted`, for every number of
streams, all windows, limits, settings and bounds that satisfy `SessionConstants`
and `Http2Constants`. Its invariant is `Inv1`: `SessionInv` of both sessions, and
the types of the frames on their way and of the applications. `SessionInv` has
the count and what keeps it right: open streams have identifiers that were used,
the queue of kept streams holds closed ones only (or trimming it would destroy a
stream that is counted), and the requests in `ob_syn` have increasing, unused
identifiers (or opening one could replace a stream). Some thirty functions of
`nghttp2_session.c` change a session, and nearly all of them have the same
effect as far as this is concerned: the relation `Follows(s, t, R)`. It says that
no stream is opened, no frame is prepared, identifiers and the last GOAWAY stay,
only harmless frames are queued, and only streams in `R` end as refused. It is
transitive, so that each function's lemma follows from those of the functions it
calls. What is left are four relations for the steps that do more: `Receives`,
`Pops` (with `Prepared` and `Requested`), `Sends` and `Opens`.

`Http2RefusedProof` proves `RefusedNotAnsweredAlways`: `RefusedNotAnswered`, for the
same constants and however many GOAWAYs, resets and refusals there are. Its
invariant `Inv2` rests on `Doom`, the streams to which no response went out and
none ever will: not open at the server, not being answered, and either the
server takes no new request any more, or it has seen this one, or the client
gave it up. No step takes a stream out of `Doom`, and whatever tells the client
that a stream was refused (`Truth`: an RST_STREAM or GOAWAY, queued, prepared or
on its way, and the reasons already reported) tells it of a stream in `Doom`.
The work is in `ServerPart`. A GOAWAY refuses streams when it is written, but its
`last_stream_id` is fixed when it is queued: responses that wait before it must
not be for streams beyond it unless they will be dropped (`GoawayQueued`), while
it is being written the streams beyond it are open and still must not be
answered (`Closing`), and a request that arrives in this moment is opened.
`Http2Proof`'s relations are reused as they are, so each action is one lemma
about `Conn`.

`Http2EndProof` proves `CleanEndIsCompleteAlways`: `CleanEndIsComplete`, for the same
constants, all body lengths and however data is cut into frames. The invariant is
`Inv3`, on top of `Inv1` and `Inv2`. For the half of a stream that an end sends it says
little: the last frame is prepared when nothing of the body is left (`Writing`). The
half it receives needs `Account`, which runs along the frames on their way: octets
handed over, on their way, being written and left add up to the body, and at a frame
with END_STREAM none is missing. This holds only while the end takes the payload
(`Receiving`), because DATA for a stream that is being reset is dropped. Then an
END_STREAM that arrives later is believed although octets are missing; `Half` and
`Excused` say why it is still not reported as a clean end: an RST_STREAM for the
stream is queued or the session terminates, and the end's own half does not end
before that. `Ordered` says that a frame for a stream never arrives before the
request that opens it, or its DATA would be dropped with no reset. As in
`Http2Proof`, the functions of a session are summed up by relations: `Calm` (halves
stay as they are, what starts closing has its RST_STREAM queued, and a clean end is
reported only after both halves ended), `Adds` (a stream is opened), `Passes` (frames
enter and leave the queues) and `Narrows` (nothing is taken that was not before).

## Only model-checked

Liveness under fairness (`HeldReleased`, `PhasesEnd`, `DeliveredOrTold`,
`RequestsEnd`) is out of the prover's reach.

Of `Tcp`, everything that is left is about both ends:

- the refinement of `Stream`, `InStep`, `AckedArrived` and `InOrderFits` need the
  agreement of both ends about every segment on its way;
- `NothingForgotten` looks local and is not. `tcp_write` fills up the last segment of
  `unsent`; after a fast retransmit that is an old one, and it is gone from there
  before the next write only because it still fits the window, that is, because
  the peer never takes back a window it announced;
- `TypeOK` and the last part of `SequenceForward` need that same fact about the
  right edge of the window, `QueuesSorted` needs it for `ooseq`;
- `QueuesSorted` does not hold for all constants: where `tcp_split_unsent_seg` cuts a
  segment with a FIN (run `tcp_split`), the two halves overlap. In run `tcp` no
  segment with a FIN is cut.

Of `Http2`, `NoConnectionError`, `WindowsConserved` and `StreamsAgree` name the
behaviours they except: a request that waited past the client's own GOAWAY
(`stranded`) and, for the first and the last, request bodies cut short by a reset of
the server or a GOAWAY of the client (`CutShort`). With these exceptions TLC also
finds no violation in two larger instances with request bodies: of one octet with a
client that shrinks its window (3,415,302 states), and of three octets with a server
that does (9,468,393 states). They are not among the runs, which are kept to
minutes. A proof would need an invariant that counts both windows along the frames
between the ends as `Account` counts the octets of a body.
`TypeOK` has bounds of the windows that follow only from `WindowsConserved`.
`StreamsCounted`, `RefusedNotAnswered` and `CleanEndIsComplete` are proved without
such an exception.

## Not modelled

- IP, ICMP and UDP of lwIP: almost without state; each handler turns a packet
  into at most one other. What `Etharp` needs of routing is in `Etharp`.
- ND6, DHCPv6 and the DNS client of lwIP, BGP's peer state machine, QUIC's stream
  buffers, liburing's rings: can be modelled, and are next in the plan.
- OSPF, zebra, Open vSwitch, gRPC, unbound's iterator: the directories hold a few
  files of a large program, and the functions that carry the state these depend
  on are not in the repository.
- TLS, protobuf, nginx's HTTP/1.1 parser, RESP: cryptography or byte-level
  parsing, whose interest lies in contents a model abstracts from.
- rdma-core: wrappers around a state machine of the kernel.
- The documentation site: a static file server.

## Plan

1. Done: `Etharp` and `Dhcp`, with runs and proofs; `Tcp` as an implementation of
   `Stream`; `Http2`.
2. Proofs: done for all safety properties of `Etharp` and `Dhcp` and for
   `StreamsCounted`, `RefusedNotAnswered` and `CleanEndIsComplete` of `Http2`,
   `PersistInFlight` and `SendBufferExact` of `Tcp`. Next: for `Tcp`, that the right edge of
   the window never moves back, which `NothingForgotten` rests on; for `Http2`,
   `WindowsConserved`.
3. `DhcpArp`: DHCP's address check composed with the ARP cache.
4. `Nd6` (neighbour cache and DAD), the DNS client, DHCPv6.
5. `Bgp` (peer state machine), the QUIC receive buffer, the rings of liburing.
6. HTTP/2 with request bodies and several calls, and TCP with a backlog and
   simultaneous opens.
