-------------------------------- MODULE Tcp ---------------------------------
(***************************************************************************)
(* One TCP connection of lwIP between a client "A", which connects, and a  *)
(* server "B", which listens (tcp.c, with tcp_in.c and tcp_out.c): the     *)
(* calls of both applications, the two timers, and a network that loses,   *)
(* duplicates and reorders segments. A host runs one call at a time (the   *)
(* core lock), so every call is one step. Ticks are not counted: a timer   *)
(* step takes the set of deadlines that have passed.                       *)
(***************************************************************************)
EXTENDS TcpIn

CONSTANTS
    TCP_MAXRTX,
    TCP_WND_UPDATE_THRESHOLD,
    Iss, IssStep,         \* initial sequence numbers: the first, and how far the
                          \* next one is (tcp_next_iss adds the ticks)
    ToWrite,              \* bytes each application writes at most
    WriteLens, ReadLens,  \* lengths it passes to tcp_write and tcp_recved
    Refusals,             \* what the recv callback may refuse
    Calls,                \* further calls the applications make
    Deadlines,            \* deadlines that may pass
    MaxTimeouts,          \* expiries of the first, or Unlimited
    Unlimited,
    NetCap,               \* segments a link holds; it drops what comes then
    MaxLoss, MaxDup,      \* segments the network loses and duplicates
    MaxNoMem              \* times a host runs out of memory

Ends == {"A", "B"}
Peer(e) == IF e = "A" THEN "B" ELSE "A"

ASSUME TcpAssumption ==
    /\ Iss \in [Ends -> 0 .. SeqSpace - 1] /\ IssStep \in Nat
    /\ WriteLens \subseteq Nat /\ ReadLens \subseteq Nat

VARIABLES
    pcb,        \* the control block of each end
    app,        \* the application of each end
    net,        \* segments on their way to each end
    iss,        \* the static of tcp_next_iss on each host
    listening,  \* the listening block of "B" is open
    mem,        \* hosts that can allocate memory
    faults,     \* how often the network and the hosts have failed
    asserts     \* LWIP_ASSERTs that have failed

vars == <<pcb, app, net, iss, listening, mem, faults, asserts>>

-----------------------------------------------------------------------------
(* Steps of one host                                                       *)

\* The endpoint a call starts from.
Endpoint(e) ==
    [p |-> pcb[e], a |-> app[e], out |-> {}, mem |-> mem[e], asserts |-> asserts,
     listening |-> e = "B" /\ listening, iss |-> iss[e], fresh |-> FALSE,
     recv_data |-> <<>>, recv_flags |-> {}, recv_acked |-> 0]

\* A full link drops what is sent.
Link(q, out) == IF Cardinality(q \cup out) <= NetCap THEN q \cup out ELSE q

Commit(e, w, q) ==
    /\ pcb' = [pcb EXCEPT ![e] = w.p]
    /\ app' = [app EXCEPT ![e] = w.a]
    /\ net' = [q EXCEPT ![Peer(e)] = Link(@, w.out)]
    /\ iss' = IF w.fresh THEN [iss EXCEPT ![e] = Plus(@, IssStep)] ELSE iss
    /\ asserts' = w.asserts
    /\ UNCHANGED <<listening, mem>>

Host(e, w) == Commit(e, w, net) /\ UNCHANGED faults

\* The application may use its control block: it was handed over, and neither
\* closed nor freed before an error callback.
Held(e) == /\ ~app[e].closed /\ app[e].err = ""
           /\ pcb[e].state \notin {"CLOSED", "SYN_RCVD"}

-----------------------------------------------------------------------------
(* Calls of the applications                                               *)

tcp_connect ==
    LET n == iss["A"]
        p == [tcp_alloc EXCEPT !.state = "SYN_SENT", !.snd_nxt = n,
                !.lastack = Plus(n, SeqSpace - 1), !.snd_wl2 = Plus(n, SeqSpace - 1),
                !.snd_lbb = Plus(n, SeqSpace - 1), !.snd_wnd = TCP_WND]
        w == [Endpoint("A") EXCEPT !.p = p, !.a.opened = TRUE, !.fresh = TRUE]
    IN  /\ ~app["A"].opened /\ mem["A"]
        /\ Host("A", tcp_output(tcp_enqueue_flags(w, TRUE, FALSE)))

\* tcp_write then tcp_output. Without room or memory the flag is all that
\* changes.
WriteBytes(e, n) ==
    LET w     == Endpoint(e)
        bytes == [i \in 1 .. n |-> app[e].wr + i]
        ok    == w.mem /\ n <= w.p.snd_buf
    IN  /\ Held(e) /\ ~app[e].fin /\ app[e].wr + n <= ToWrite[e]
        /\ pcb[e].state \in {"ESTABLISHED", "CLOSE_WAIT", "SYN_SENT"}
        /\ IF ok THEN Host(e, tcp_output([tcp_write(w, bytes) EXCEPT !.a.wr = @ + n]))
           ELSE Host(e, SetFlags(w, {"NAGLEMEMERR"}))

\* tcp_recved for n bytes; a large enough change is announced at once.
tcp_recved(e, n) ==
    LET w  == Endpoint(e)
        w1 == [w EXCEPT !.p.rcv_wnd = AtMost(@ + n, TCP_WND), !.a.unread = @ - n]
        w2 == tcp_update_rcv_ann_wnd(w1)
    IN  /\ Held(e) /\ n \in 1 .. app[e].unread
        /\ Host(e, IF WindowInflation(w1.p) >= TCP_WND_UPDATE_THRESHOLD
                   THEN tcp_output(tcp_ack_now(w2)) ELSE w2)

\* tcp_close_shutdown_fin: queue the FIN, or leave it to tcp_fasttmr.
tcp_close_shutdown_fin(w) ==
    LET st == IF w.p.state = "CLOSE_WAIT" THEN "LAST_ACK" ELSE "FIN_WAIT_1"
    IN  IF w.p.state \notin {"SYN_RCVD", "ESTABLISHED", "CLOSE_WAIT"} THEN w
        ELSE IF CanSendFin(w) THEN tcp_output([tcp_send_fin(w) EXCEPT !.p.state = st])
        ELSE SetFlags(w, {"NAGLEMEMERR", "CLOSEPEND"})

\* tcp_close: a RST if not all data was received by the application.
tcp_close(e) ==
    LET w == [SetFlags(Endpoint(e), {"RXCLOSED"}) EXCEPT
                !.a.closed = TRUE, !.a.fin = TRUE]
        unread == w.p.refused # NoData \/ w.p.rcv_wnd # TCP_WND
    IN  /\ Held(e)
        /\ Host(e,
            CASE w.p.state \in {"ESTABLISHED", "CLOSE_WAIT"} /\ unread ->
                    [tcp_rst(w, w.p.snd_nxt, w.p.rcv_nxt) EXCEPT !.p = tcp_alloc]
              [] w.p.state = "SYN_SENT" -> tcp_pcb_remove(w, FALSE)
              [] OTHER -> tcp_close_shutdown_fin(w))

\* tcp_shutdown of the sending side only. (Of both sides it is tcp_close; that of
\* the receiving side, which sets TF_RXCLOSED and frees refused_data, is no call
\* of these applications.)
tcp_shutdown(e) ==
    /\ "shutdown" \in Calls /\ Held(e) /\ ~app[e].fin
    /\ pcb[e].state \in {"ESTABLISHED", "CLOSE_WAIT"}
    /\ Host(e, tcp_close_shutdown_fin([Endpoint(e) EXCEPT !.a.fin = TRUE]))

tcp_abort_call(e) ==
    /\ "abort" \in Calls /\ Held(e)
    /\ Host(e, tcp_abort([Endpoint(e) EXCEPT !.a.closed = TRUE], FALSE))

\* tcp_close of the listening block: connections not yet accepted lose it.
tcp_listen_closed ==
    /\ "listen_close" \in Calls /\ listening
    /\ listening' = FALSE
    /\ UNCHANGED <<pcb, app, net, iss, mem, faults, asserts>>

-----------------------------------------------------------------------------
(* Timers                                                                  *)

\* The persist timer has expired: probe a closed window, or send the part
\* of the next segment that fits.
Persist(w) ==
    IF w.p.snd_wnd = 0 THEN tcp_zero_window_probe(w)
    ELSE IF w.p.unsent = <<>> \/ (~w.mem /\ Len(w.p.unsent[1].data) > w.p.snd_wnd)
    THEN w
    ELSE tcp_output(tcp_split_unsent_seg(w, w.p.snd_wnd))

\* The retransmission timer has expired.
RetransmitTimeout(w) ==
    LET w1 == IF w.p.unacked # <<>> THEN tcp_rexmit_rto_prepare(w) ELSE w
    IN  IF w.p.unacked = <<>> /\ w.p.unsent = <<>> THEN w
        ELSE tcp_rexmit_rto_commit(
                [w1 EXCEPT !.p.rtime = TRUE, !.p.ssthresh = HalfWindow(w.p),
                           !.p.cwnd = TCP_MSS, !.p.bytes_acked = 0])

MaxRetries(p) == \/ p.state = "SYN_SENT" /\ p.nrtx >= TCP_SYNMAXRTX
                 \/ p.nrtx >= TCP_MAXRTX

MaxProbes(p) == p.persist /\ p.persist_probe >= TCP_MAXRTX

\* tcp_slowtmr for one control block, the poll and its tcp_output included.
\* The deadlines of a tick: "timer", the retransmission or persist timer,
\* "idle", the inactivity timer, and "ooseq", the one of the ooseq queue.
tcp_slowtmr(e, due) ==
    LET w0   == Endpoint(e)
        p    == w0.p
        runs == "timer" \in due /\ (p.persist \/ p.rtime)
        w1   == Assert2(Assert2(w0, "persist in-flight", p.unacked = <<>>),
                        "persist empty", p.unsent # <<>>)
        tick == CASE MaxRetries(p) -> w0
                  [] ~MaxRetries(p) /\ p.persist ->
                        IF runs /\ ~MaxProbes(p) THEN Persist(w1) ELSE w1
                  [] OTHER -> IF runs THEN RetransmitTimeout(w0) ELSE w0
        idle == /\ "idle" \in due
                /\ \/ p.state = "FIN_WAIT_2" /\ "RXCLOSED" \in p.flags
                   \/ p.state \in {"SYN_RCVD", "LAST_ACK"}
        w2   == IF "ooseq" \in due THEN [tick EXCEPT !.p.ooseq = <<>>] ELSE tick
    IN  /\ p.state # "CLOSED"
        /\ runs /\ MaxTimeouts # Unlimited => faults.timeouts < MaxTimeouts
        /\ faults' = IF runs /\ MaxTimeouts # Unlimited
                     THEN [faults EXCEPT !.timeouts = @ + 1] ELSE faults
        /\ Commit(e,
            IF p.state = "TIME_WAIT"
            THEN IF "idle" \in due THEN [w0 EXCEPT !.p = tcp_alloc] ELSE w0
            ELSE IF MaxRetries(p) \/ MaxProbes(p) \/ idle
            THEN TCP_EVENT_ERR([w2 EXCEPT !.p = tcp_alloc], p.state, "ABRT")
            ELSE tcp_output(w2), net)

\* tcp_fasttmr for one control block: delayed ACKs, pending FINs and refused
\* data.
tcp_fasttmr(e, refuse) ==
    LET w  == Endpoint(e)
        w1 == IF "ACK_DELAY" \in w.p.flags
              THEN ClearFlags(tcp_output(tcp_ack_now(w)), {"ACK_DELAY", "ACK_NOW"})
              ELSE w
        w2 == IF "CLOSEPEND" \in w.p.flags
              THEN tcp_close_shutdown_fin(ClearFlags(w1, {"CLOSEPEND"})) ELSE w1
    IN  /\ pcb[e].state \notin {"CLOSED", "TIME_WAIT"}
        /\ Host(e, tcp_process_refused_data(w2, "old" \in refuse))

-----------------------------------------------------------------------------
(* The network, and memory (external)                                      *)

\* A segment arrives, and may stay in the network to arrive again.
Receive(e, s, refuse) ==
    \E stay \in BOOLEAN :
        /\ stay => faults.dup < MaxDup
        /\ Commit(e, tcp_input(Endpoint(e), s, refuse),
                  IF stay THEN net ELSE [net EXCEPT ![e] = @ \ {s}])
        /\ faults' = IF stay THEN [faults EXCEPT !.dup = @ + 1] ELSE faults

Lose(e, s) ==
    /\ faults.loss < MaxLoss
    /\ net' = [net EXCEPT ![e] = @ \ {s}]
    /\ faults' = [faults EXCEPT !.loss = @ + 1]
    /\ UNCHANGED <<pcb, app, iss, listening, mem, asserts>>

OutOfMemory(e) ==
    /\ mem[e] /\ faults.mem < MaxNoMem
    /\ mem' = [mem EXCEPT ![e] = FALSE]
    /\ faults' = [faults EXCEPT !.mem = @ + 1]
    /\ UNCHANGED <<pcb, app, net, iss, listening, asserts>>

MemoryBack(e) ==
    /\ ~mem[e]
    /\ mem' = [mem EXCEPT ![e] = TRUE]
    /\ UNCHANGED <<pcb, app, net, iss, listening, faults, asserts>>

-----------------------------------------------------------------------------

Init ==
    /\ pcb = [e \in Ends |-> tcp_alloc]
    /\ app = [e \in Ends |-> [opened |-> e = "B", wr |-> 0, rx |-> <<>>, unread |-> 0,
                              acked |-> 0, eof |-> FALSE, fin |-> FALSE,
                              closed |-> FALSE, accepted |-> 0, err |-> ""]]
    /\ net = [e \in Ends |-> {}]
    /\ iss = Iss
    /\ listening = TRUE
    /\ mem = [e \in Ends |-> TRUE]
    /\ faults = [loss |-> 0, dup |-> 0, mem |-> 0, timeouts |-> 0]
    /\ asserts = {}

AppCall(e) == \/ \E n \in WriteLens : WriteBytes(e, n)
              \/ \E n \in ReadLens : tcp_recved(e, n)
              \/ "close" \in Calls /\ tcp_close(e)
              \/ tcp_shutdown(e)
              \/ tcp_abort_call(e)

Network(e) == \/ \E s \in net[e], r \in Refusals : Receive(e, s, r)
              \/ \E s \in net[e] : Lose(e, s)

Timers(e) == \/ \E due \in SUBSET Deadlines : tcp_slowtmr(e, due)
             \/ \E r \in Refusals : tcp_fasttmr(e, r)

Next == \/ tcp_connect \/ tcp_listen_closed
        \/ \E e \in Ends : \/ AppCall(e) \/ Network(e) \/ Timers(e)
                           \/ OutOfMemory(e) \/ MemoryBack(e)

Spec == Init /\ [][Next]_vars

\* The timers of the TCP thread go on, what a link keeps arrives, memory
\* comes back, and an application that has unread bytes reads some. This is
\* weak fairness with the enabling conditions written out: a step that
\* changes something is possible exactly when the first part is false.
TimerRuns(p) == IF p.persist THEN p.unsent # <<>> ELSE p.rtime

FastTimerWork(p) == "ACK_DELAY" \in p.flags \/ p.refused # NoData

CanRead(e) == Held(e) /\ \E n \in ReadLens : n <= app[e].unread

Fairness ==
    \A e \in Ends :
        /\ \/ []<>(net[e] = {})
           \/ []<><<\E s \in net[e], r \in Refusals : Receive(e, s, r)>>_vars
        /\ []<>~TimerRuns(pcb[e]) \/ []<><<tcp_slowtmr(e, {"timer"})>>_vars
        /\ []<>~FastTimerWork(pcb[e]) \/ []<><<tcp_fasttmr(e, {})>>_vars
        /\ []<>~CanRead(e) \/ []<><<\E n \in ReadLens : tcp_recved(e, n)>>_vars
        /\ []<>mem[e] \/ []<><<MemoryBack(e)>>_vars

FairSpec == Spec /\ Fairness

-----------------------------------------------------------------------------
(* Properties                                                              *)

Segments == [seqno : 0 .. SeqSpace - 1, data : Seq(Nat), syn : BOOLEAN, fin : BOOLEAN,
             rst : BOOLEAN, ack : BOOLEAN, ackno : 0 .. SeqSpace - 1,
             wnd : 0 .. WndSpace - 1]

\* Sequence numbers and windows keep their width, and blocks their states.
TypeOK ==
    /\ \A e \in Ends : net[e] \subseteq Segments
    /\ \A e \in Ends : pcb[e].state \in {"CLOSED", "SYN_SENT", "SYN_RCVD",
            "ESTABLISHED", "FIN_WAIT_1", "FIN_WAIT_2", "CLOSE_WAIT", "CLOSING",
            "LAST_ACK", "TIME_WAIT"}

STREAM == INSTANCE Stream
    WITH written   <- [e \in Ends |-> app[e].wr],
         closed    <- [e \in Ends |-> app[e].fin],
         delivered <- [e \in Ends |-> app[e].rx],
         eof       <- [e \in Ends |-> app[e].eof]

\* The connection is a pair of streams: whatever is lost, duplicated or
\* reordered, the recv callbacks see the bytes tcp_write was given, in order
\* and once, and the closed callback comes after all of them.
StreamSpec == STREAM!Spec

\* In the states of an open or closing connection.
Synchronized(e) == pcb[e].state \notin {"CLOSED", "SYN_SENT", "SYN_RCVD"}

\* Nothing is forgotten: every sequence number from lastack to snd_nxt, and
\* every byte written and not acknowledged, is in a segment of unacked or
\* unsent until it is acknowledged, so it can be sent again. Segments move
\* between the queues on timeouts and fast retransmits, and a probe may be
\* acknowledged in the middle of a segment.
Queued(p, n) == \E q \in {p.unacked, p.unsent} : \E i \in 1 .. Len(q) :
                    (n - q[i].seqno) % SeqSpace < TCP_TCPLEN(q[i])

NothingForgotten ==
    \A e \in Ends : LET p == pcb[e] IN
        p.state \in {"SYN_SENT", "SYN_RCVD", "ESTABLISHED", "FIN_WAIT_1",
                     "CLOSE_WAIT", "CLOSING", "LAST_ACK"} =>
            /\ \A k \in 0 .. SeqDiff(p.snd_nxt, p.lastack) - 1 :
                    Queued(p, Plus(p.lastack, k))
            /\ \A k \in 0 .. SeqDiff(p.snd_lbb, p.lastack) - 1 :
                    Queued(p, Plus(p.lastack, k))

\* The queues of a block are sorted and no sequence number is on them twice;
\* out-of-order data lies beyond rcv_nxt, with a gap before it.
Sorted(q) == \A i \in 1 .. Len(q) - 1 : TCP_SEQ_LEQ(SegEnd(q[i]), q[i + 1].seqno)

QueuesSorted ==
    \A e \in Ends : LET p == pcb[e] IN
        /\ Sorted(p.unacked) /\ Sorted(p.unsent) /\ Sorted(p.ooseq)
        /\ \A i \in 1 .. Len(p.unacked), j \in 1 .. Len(p.unsent) :
                \/ TCP_SEQ_LEQ(SegEnd(p.unacked[i]), p.unsent[j].seqno)
                \/ TCP_SEQ_LEQ(SegEnd(p.unsent[j]), p.unacked[i].seqno)
        /\ p.ooseq # <<>> => TCP_SEQ_GT(p.ooseq[1].seqno, p.rcv_nxt)

\* An acknowledged byte has arrived: what the sent callback reports to the
\* writer has been given to the reader's application, or is held back as
\* refused data, unless that connection is gone. The one exception is a reader
\* that has closed its own side and enters TIME_WAIT: what it had refused is
\* freed (tcp_pcb_purge), and the application, which will not see those bytes,
\* is not told of the end of the stream either.
AckedArrived ==
    \A e \in Ends :
        Synchronized(Peer(e)) /\ (pcb[Peer(e)].state = "TIME_WAIT" => app[Peer(e)].eof) =>
            app[e].acked <= Len(app[Peer(e)].rx) + Len(pcb[Peer(e)].refused.data)

\* A connection that both ends take for open is the same one: each end waits
\* for a sequence number that the other has sent or will send next. A repeated
\* SYN never opens a second one: the application is asked to accept at most once.
InStep ==
    /\ app["B"].accepted <= 1
    /\ (\A e \in Ends : pcb[e].state = "ESTABLISHED") =>
          \A e \in Ends : TCP_SEQ_BETWEEN(pcb[e].rcv_nxt, pcb[Peer(e)].lastack,
                                          pcb[Peer(e)].snd_nxt)

\* Free space of the send buffer: what is left of TCP_SND_BUF by the bytes on
\* the queues, so tcp_write fails exactly when the queues are full.
SendBufferExact ==
    \A e \in Ends : Synchronized(e) /\ pcb[e].state # "TIME_WAIT" =>
        pcb[e].snd_buf + Len(QueuedData(pcb[e].unacked \o pcb[e].unsent)) = TCP_SND_BUF

\* The end of the stream is not reported early: the closed callback comes
\* when every byte the peer wrote has reached this application.
EofComplete ==
    \A e \in Ends : app[e].eof => Len(app[e].rx) = app[Peer(e)].wr

\* Sequence numbers never go back (protocol.md): lastack, snd_nxt, rcv_nxt,
\* and the right edge of the window that was announced. Timeouts, trimmed
\* segments, probes and reads move all of them in different places.
SequenceForward ==
    [][\A e \in Ends :
        Synchronized(e) /\ pcb'[e].state \notin {"CLOSED", "SYN_RCVD"} =>
            /\ TCP_SEQ_GEQ(pcb'[e].lastack, pcb[e].lastack)
            /\ TCP_SEQ_GEQ(pcb'[e].snd_nxt, pcb[e].snd_nxt)
            /\ TCP_SEQ_GEQ(pcb'[e].rcv_nxt, pcb[e].rcv_nxt)
            /\ TCP_SEQ_GEQ(pcb'[e].rcv_ann_right_edge, pcb[e].rcv_ann_right_edge)]_vars

\* No byte is stuck: what the client has written reaches the server's
\* application, or the client's err callback tells it that the connection is
\* gone. Lost segments, lost acknowledgements, a window that closes and the
\* loss of the segment that reopens it must all be survived.
DeliveredOrTold ==
    \A n \in 1 .. ToWrite["A"] :
        app["A"].wr >= n ~> Len(app["B"].rx) >= n \/ app["A"].err # ""

\* LWIP_ASSERT "tcp_receive: tcplen > rcv_wnd" (tcp_in.c): what is taken from
\* an in-order segment fits the window, however it was trimmed. (What is then
\* taken from ooseq is guarded by an assertion of its own.)
InOrderFits == "tcplen > rcv_wnd" \notin asserts

\* LWIP_ASSERT "persist ticking with in-flight data" (tcp.c): the persist
\* timer and the retransmission timer never have work at the same time.
PersistInFlight == "persist in-flight" \notin asserts
=============================================================================
