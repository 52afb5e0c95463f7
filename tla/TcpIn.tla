------------------------------- MODULE TcpIn --------------------------------
(***************************************************************************)
(* The receiving half of lwIP's TCP (tcp_in.c): acknowledgements, windows, *)
(* in-order and out-of-order data, the connection state machine, and the   *)
(* demultiplexing of tcp_input. A segment s is handled by one call of      *)
(* tcp_input, with all the calls it makes, the closing tcp_output included.*)
(***************************************************************************)
EXTENDS TcpOut

CONSTANTS TCP_SYNMAXRTX

\* A failed LWIP_ASSERT is recorded; the code goes on (LWIP_NOASSERT).
Assert2(w, what, holds) ==
    IF holds THEN w ELSE [w EXCEPT !.asserts = @ \cup {what}]

-----------------------------------------------------------------------------
(* The end of a connection (tcp.c)                                         *)

\* tcp_pcb_purge
tcp_pcb_purge(w) ==
    [w EXCEPT !.p.refused = NoData, !.p.unsent = <<>>, !.p.unacked = <<>>,
              !.p.ooseq = <<>>, !.p.rtime = FALSE]

\* tcp_pcb_remove and tcp_free: a pending delayed acknowledgement is sent
\* first, unless the block is in TIME_WAIT or being handled by tcp_input.
tcp_pcb_remove(w, in_input) ==
    LET w1 == tcp_pcb_purge(w)
        w2 == IF "ACK_DELAY" \in w.p.flags /\ w.p.state # "TIME_WAIT" /\ ~in_input
              THEN tcp_output(tcp_ack_now(w1)) ELSE w1
    IN  [w2 EXCEPT !.p = tcp_alloc]

\* The err callback: the application loses its control block. A block that
\* was not accepted yet, here in SYN_RCVD, has no callbacks.
TCP_EVENT_ERR(w, last_state, err) ==
    IF last_state = "SYN_RCVD" THEN w ELSE [w EXCEPT !.a.err = err]

\* tcp_abandon(pcb, 1), that is tcp_abort.
tcp_abort(w, in_input) ==
    IF w.p.state = "TIME_WAIT" THEN tcp_pcb_remove(w, in_input)
    ELSE TCP_EVENT_ERR(
            tcp_rst(tcp_pcb_remove(w, in_input), w.p.snd_nxt, w.p.rcv_nxt),
            w.p.state, "ABRT")

-----------------------------------------------------------------------------
(* The receive window (tcp.c)                                              *)

WindowInflation(p) ==
    LET edge == Plus(p.rcv_nxt, p.rcv_wnd)
        step == AtMost(TCP_WND \div 2, TCP_MSS)
    IN  IF TCP_SEQ_GEQ(edge, Plus(p.rcv_ann_right_edge, step))
        THEN (edge - p.rcv_ann_right_edge) % SeqSpace ELSE 0

\* tcp_update_rcv_ann_wnd: the window announced grows by whole steps, and
\* keeps its right edge otherwise; the mutant announces nothing then.
AnnounceStepOrZero(w) ==
    [w EXCEPT !.p.rcv_ann_wnd = IF WindowInflation(w.p) > 0 THEN w.p.rcv_wnd ELSE 0]

tcp_update_rcv_ann_wnd(w) ==
    LET p == w.p
    IN  [w EXCEPT !.p.rcv_ann_wnd =
            IF WindowInflation(p) > 0 THEN p.rcv_wnd
            ELSE IF TCP_SEQ_GT(p.rcv_nxt, p.rcv_ann_right_edge) THEN 0
            ELSE (p.rcv_ann_right_edge - p.rcv_nxt) % SeqSpace]

\* The FIN's sequence number is given back, then the closed callback.
GiveBackFin(w) ==
    [w EXCEPT !.p.rcv_wnd = IF @ # TCP_WND THEN (@ + 1) % WndSpace ELSE @,
              !.a.eof = TRUE]

\* TCP_EVENT_RECV, the application taking the data.
Deliver(w, data) ==
    [w EXCEPT !.a.rx = @ \o data, !.a.unread = @ + Len(data)]

\* tcp_process_refused_data; the mutant drops what is refused again.
RefusedForgotten(w, refuse) ==
    IF refuse THEN [w EXCEPT !.p.refused = NoData]
    ELSE Deliver([w EXCEPT !.p.refused = NoData], w.p.refused.data)

tcp_process_refused_data(w, refuse) ==
    LET w1 == Deliver([w EXCEPT !.p.refused = NoData], w.p.refused.data)
    IN  IF w.p.refused = NoData \/ refuse THEN w
        ELSE IF w.p.refused.fin THEN GiveBackFin(w1) ELSE w1

-----------------------------------------------------------------------------
(* tcp_receive: the acknowledgement                                        *)

\* The window is updated by a newer segment only (snd_wl1, snd_wl2).
UpdateWindow(w, s) ==
    LET p == w.p
    IN  IF \/ TCP_SEQ_LT(p.snd_wl1, s.seqno)
           \/ p.snd_wl1 = s.seqno /\ TCP_SEQ_LT(p.snd_wl2, s.ackno)
           \/ p.snd_wl2 = s.ackno /\ s.wnd > p.snd_wnd
        THEN [w EXCEPT !.p.snd_wnd = s.wnd, !.p.snd_wl1 = s.seqno,
                       !.p.snd_wl2 = s.ackno]
        ELSE w

\* The ACK repeats lastack; old is the block before the window update. The
\* third duplicate retransmits (the count is capped where it stops mattering).
DuplicateAck(w, s, old) ==
    LET p   == w.p
        dup == /\ TCP_TCPLEN(s) = 0
               /\ Plus(p.snd_wl2, p.snd_wnd) = Plus(old.snd_wl2, old.snd_wnd)
               /\ p.rtime /\ p.lastack = s.ackno
        w1  == [w EXCEPT !.p.dupacks = AtMost(@ + 1, 4),
                         !.p.cwnd = IF p.dupacks >= 3 THEN TCP_WND_INC(@, TCP_MSS)
                                    ELSE @]
    IN  IF ~dup THEN [w EXCEPT !.p.dupacks = 0]
        ELSE IF w1.p.dupacks >= 3 THEN tcp_rexmit_fast(w1) ELSE w1

\* Slow start and congestion avoidance after n new bytes.
Congestion(p, n) ==
    LET q == IF "INFR" \in p.flags THEN [p EXCEPT !.cwnd = p.ssthresh, !.bytes_acked = 0]
             ELSE p
        segs == IF "RTO" \in p.flags THEN 1 ELSE 2
        sum  == TCP_WND_INC(q.bytes_acked, n)
    IN  IF q.cwnd < q.ssthresh
        THEN [q EXCEPT !.cwnd = TCP_WND_INC(@, AtMost(n, segs * TCP_MSS))]
        ELSE IF sum >= q.cwnd
        THEN [q EXCEPT !.bytes_acked = sum - q.cwnd, !.cwnd = TCP_WND_INC(@, TCP_MSS)]
        ELSE [q EXCEPT !.bytes_acked = sum]

\* What acknowledged segments give back to snd_buf: their bytes. The faulty
\* variant counts the sequence numbers of SYN and FIN too.
FreedSeqs(q) == QueuedLen(q)

Freed(q) == Len(QueuedData(q))

\* The ACK acknowledges new sequence numbers: whole segments are freed from
\* unacked, then from unsent (where a retransmission has put them back).
NewAck(w, s) ==
    LET acked(seg) == TCP_SEQ_LEQ(SegEnd(seg), s.ackno)
        p  == Congestion(w.p, (s.ackno - w.p.lastack) % SeqSpace)
        k  == HeadRun(p.unacked, acked)
        m  == HeadRun(p.unsent, acked)
        una == Skip(p.unacked, k)
        uns == Skip(p.unsent, m)
        n  == Freed(SubSeq(p.unacked, 1, k) \o SubSeq(p.unsent, 1, m))
        rto_over == CASE una # <<>> -> TCP_SEQ_LEQ(p.rto_end, Head(una).seqno)
                      [] una = <<>> /\ uns # <<>> -> TCP_SEQ_LEQ(p.rto_end, Head(uns).seqno)
                      [] OTHER -> TRUE
    IN  [w EXCEPT
            !.p = [p EXCEPT !.lastack = s.ackno, !.dupacks = 0, !.nrtx = 0,
                            !.unacked = una, !.unsent = uns,
                            !.rtime = una # <<>>,
                            !.snd_buf = @ + n,
                            !.flags = @ \ ({"INFR"} \cup
                                (IF rto_over THEN {"RTO"} ELSE {}))],
            !.recv_acked = @ + n]

ReceiveAck(w, s) ==
    LET w1  == UpdateWindow(w, s)
        old == TCP_SEQ_LEQ(s.ackno, w.p.lastack)
    IN  CASE old -> DuplicateAck(w1, s, w.p)
          [] ~old /\ TCP_SEQ_BETWEEN(s.ackno, Plus(w.p.lastack, 1), w.p.snd_nxt) ->
                NewAck(w1, s)
          [] OTHER -> tcp_send_empty_ack(w1)

-----------------------------------------------------------------------------
(* tcp_receive: the data                                                   *)

\* A segment without its first n, or with only its first n, bytes.
TrimLeft(s, n)  == [s EXCEPT !.seqno = Plus(@, n), !.data = Skip(@, n)]
TrimRight(s, n) == [s EXCEPT !.data = SubSeq(@, 1, AtMost(n, Len(@)))]

DataEnd(s) == Plus(s.seqno, Len(s.data))

\* tcp_oos_insert_segment: c takes the place of what it covers of next.
tcp_oos_insert_segment(c, next) ==
    LET k    == HeadRun(next, LAMBDA x : TCP_SEQ_GEQ(DataEnd(c), DataEnd(x)))
        c1   == [c EXCEPT !.fin = \E i \in 1 .. k : next[i].fin]
        rest == Skip(next, k)
        c2   == IF rest # <<>> /\ TCP_SEQ_GT(DataEnd(c), rest[1].seqno)
                THEN TrimRight(c1, SeqDiff(rest[1].seqno, c.seqno)) ELSE c1
    IN  IF c.fin THEN <<c>> ELSE <<c2>> \o rest

\* Where an out-of-order segment goes on the ooseq queue.
OoseqInsert(p, s) ==
    LET q    == p.ooseq
        c    == [seqno |-> s.seqno, data |-> s.data, syn |-> s.syn, fin |-> s.fin]
        k    == HeadRun(q, LAMBDA x : TCP_SEQ_LT(x.seqno, s.seqno))
        same == k < Len(q) /\ q[k + 1].seqno = s.seqno
        prev == q[k]
        cut  == IF TCP_SEQ_GT(DataEnd(prev), s.seqno)
                THEN TrimRight(prev, SeqDiff(s.seqno, prev.seqno)) ELSE prev
        room == SeqDiff(Plus(p.rcv_nxt, p.rcv_wnd), s.seqno)
        last == IF TCP_TCPLEN(c) > room THEN TrimRight([c EXCEPT !.fin = FALSE], room)
                ELSE c
    IN  CASE q = <<>> -> <<c>>
          [] same ->
                IF Len(c.data) > Len(q[k + 1].data)
                THEN SubSeq(q, 1, k) \o tcp_oos_insert_segment(c, Skip(q, k))
                ELSE q
          [] q # <<>> /\ ~same /\ k = 0 -> tcp_oos_insert_segment(c, q)
          [] ~same /\ k \in 1 .. Len(q) - 1 -> SubSeq(q, 1, k - 1) \o <<cut>>
                                \o tcp_oos_insert_segment(c, Skip(q, k))
          [] OTHER -> IF prev.fin THEN q ELSE SubSeq(q, 1, k - 1) \o <<cut, last>>

\* An in-order segment is cut to the window; the mutant is not.
Untrimmed(p, s) == s

TrimToWindow(p, s) == IF TCP_TCPLEN(s) > p.rcv_wnd
                      THEN TrimRight([s EXCEPT !.fin = FALSE], p.rcv_wnd) ELSE s

\* How many segments at the head of q follow sequence number n without a
\* gap. Mutant: none is taken.
FollowsNot(q, n) == 0

Follows(q, n) == Max({k \in 0 .. Len(q) : \A i \in 1 .. k :
                        q[i].seqno = Plus(n, QueuedLen(SubSeq(q, 1, i - 1)))})

\* A segment that overlaps the first segment of q is cut before it.
TrimBefore(s, q) ==
    IF q # <<>> /\ TCP_SEQ_GT(SegEnd(s), q[1].seqno)
    THEN TrimRight(s, SeqDiff(q[1].seqno, s.seqno)) ELSE s

\* rcv_nxt and the window move over the segment and over what is pulled from
\* ooseq behind it; later is what stays there.
Advance(w, s, pull, later) ==
    LET len == TCP_TCPLEN(s) + QueuedLen(pull)
        fin == \E i \in 1 .. Len(pull) : pull[i].fin
        w1  == [w EXCEPT
                    !.p.rcv_nxt = Plus(@, len),
                    !.p.rcv_wnd = (@ - len) % WndSpace,
                    !.p.ooseq = later,
                    !.p.state = IF @ = "ESTABLISHED" /\ fin THEN "CLOSE_WAIT" ELSE @,
                    !.recv_data = s.data \o QueuedData(pull),
                    !.recv_flags = @ \cup (IF s.fin \/ fin THEN {"GOT_FIN"} ELSE {})]
    IN  Assert2(Assert2(w1, "tcplen > rcv_wnd", TCP_TCPLEN(s) <= w.p.rcv_wnd),
                "ooseq tcplen > rcv_wnd", len <= w.p.rcv_wnd)

PullOoseq(w, s, q) ==
    LET m == Follows(q, SegEnd(s)) IN Advance(w, s, SubSeq(q, 1, m), Skip(q, m))

\* Segments of ooseq that s covers are dropped, s keeping their FIN.
AgainstOoseq(w, s) ==
    LET q    == w.p.ooseq
        k    == HeadRun(q, LAMBDA x : TCP_SEQ_GEQ(SegEnd(s), DataEnd(x)))
        rest == IF s.fin THEN <<>> ELSE Skip(q, k)
        s1   == [s EXCEPT !.fin = @ \/ \E i \in 1 .. k : q[i].fin]
    IN  PullOoseq(w, TrimBefore(s1, rest), rest)

\* In-order data: trimmed to the window, then against ooseq, whose segments
\* are pulled in as far as they now follow.
ReceiveInOrder(w, s) ==
    tcp_ack(tcp_update_rcv_ann_wnd(AgainstOoseq(w, TrimToWindow(w.p, s))))

InWindow(p, seqno) ==
    TCP_SEQ_BETWEEN(seqno, p.rcv_nxt, Plus(p.rcv_nxt, p.rcv_wnd - 1))

\* The next segment expected. Mutant: any segment of the window is
\* taken for it.
NextOrLater(p, s) == TRUE

NextExpected(p, s) == s.seqno = p.rcv_nxt

\* The segment, trimmed, is the next one, or waits on ooseq.
ReceiveTrimmed(w, s) ==
    IF InWindow(w.p, s.seqno) /\ NextExpected(w.p, s) THEN ReceiveInOrder(w, s)
    ELSE tcp_send_empty_ack(IF InWindow(w.p, s.seqno) /\ w.mem
                            THEN [w EXCEPT !.p.ooseq = OoseqInsert(w.p, s)] ELSE w)

ReceiveData(w, s) ==
    LET p    == w.p
        trim == TCP_SEQ_BETWEEN(p.rcv_nxt, Plus(s.seqno, 1),
                                Plus(s.seqno, TCP_TCPLEN(s) - 1))
    IN  ReceiveTrimmed(
            IF ~trim /\ TCP_SEQ_LT(s.seqno, p.rcv_nxt) THEN tcp_ack_now(w) ELSE w,
            IF trim THEN TrimLeft(s, (p.rcv_nxt - s.seqno) % SeqSpace) ELSE s)

ReceiveAcked(w, s) ==
    IF TCP_TCPLEN(s) > 0 /\ w.p.state \in {"ESTABLISHED", "FIN_WAIT_1", "FIN_WAIT_2"}
    THEN ReceiveData(w, s)
    ELSE IF InWindow(w.p, s.seqno) THEN w ELSE tcp_ack_now(w)

tcp_receive(w, s) == ReceiveAcked(IF s.ack THEN ReceiveAck(w, s) ELSE w, s)

-----------------------------------------------------------------------------
(* tcp_process: the state machine                                          *)

InitialCwnd == AtMost(4 * TCP_MSS, WndSpace - 1)

\* A RST counts with the exact sequence number; one in the window is
\* challenged.
ProcessRst(w, s) ==
    LET p == w.p
        acceptable == IF p.state = "SYN_SENT" THEN s.ackno = p.snd_nxt
                      ELSE s.seqno = p.rcv_nxt
    IN  CASE acceptable -> ClearFlags([w EXCEPT !.recv_flags = @ \cup {"RESET"}],
                                      {"ACK_DELAY"})
          [] ~acceptable /\ p.state # "SYN_SENT"
             /\ TCP_SEQ_BETWEEN(s.seqno, p.rcv_nxt, Plus(p.rcv_nxt, p.rcv_wnd)) ->
                tcp_ack_now(w)
          [] OTHER -> w

ReplyRst(w, s) == tcp_rst(w, s.ackno, SegEnd(s))

\* SYN_SENT: the SYN|ACK that acknowledges our SYN, or a half-open peer.
ProcessSynSent(w, s) ==
    LET p   == w.p
        una == IF p.unacked = <<>> THEN <<>> ELSE Tail(p.unacked)
        w1  == ReplyRst(w, s)
    IN  CASE s.ack /\ s.syn /\ s.ackno = Plus(p.lastack, 1) ->
                tcp_ack_now([w EXCEPT !.p =
                    [p EXCEPT !.state = "ESTABLISHED",
                              !.rcv_nxt = Plus(s.seqno, 1),
                              !.rcv_ann_right_edge = Plus(s.seqno, 1),
                              !.lastack = s.ackno, !.snd_wnd = s.wnd,
                              !.snd_wl1 = Plus(s.seqno, SeqSpace - 1),
                              !.cwnd = InitialCwnd,
                              !.unacked = una,
                              !.unsent = IF p.unacked = <<>> THEN Tail(@) ELSE @,
                              !.rtime = una # <<>>,
                              !.nrtx = IF una # <<>> THEN 0 ELSE @]])
          [] s.ack /\ ~(s.syn /\ s.ackno = Plus(p.lastack, 1)) ->
                IF p.nrtx >= TCP_SYNMAXRTX THEN w1
                ELSE IF p.unacked = <<>> THEN [w1 EXCEPT !.p.rtime = TRUE]
                ELSE [tcp_rexmit_rto_prepare(w1) EXCEPT !.p.rtime = TRUE,
                                                        !.p.nrtx = @ + 1]
          [] OTHER -> w

\* Passive open: the ACK of our SYN|ACK calls accept; a closed listener
\* aborts. GOT_FIN acts as in ESTABLISHED.
PassiveClose(w) == IF "GOT_FIN" \in w.recv_flags
                   THEN [tcp_ack_now(w) EXCEPT !.p.state = "CLOSE_WAIT"] ELSE w

\* An ACK of our SYN. Mutant: any ACK will do.
AcksAnything(p, s) == s.ack

AcksSyn(p, s) == s.ack /\ TCP_SEQ_BETWEEN(s.ackno, Plus(p.lastack, 1), p.snd_nxt)

ProcessSynRcvd(w, s) ==
    LET p  == w.p
        w1 == [w EXCEPT !.p.state = "ESTABLISHED", !.a.accepted = @ + 1]
    IN  CASE s.ack /\ ~AcksSyn(p, s) -> ReplyRst(w, s)
          [] AcksSyn(p, s) ->
                IF w.listening
                THEN PassiveClose([tcp_receive(w1, s) EXCEPT !.p.cwnd = InitialCwnd])
                ELSE [tcp_abort(w, TRUE) EXCEPT !.recv_flags = {"ABRT"}]
          [] ~s.ack /\ s.syn /\ s.seqno = Plus(p.rcv_nxt, SeqSpace - 1) -> tcp_rexmit(w)
          [] OTHER -> w

\* Our FIN, with everything before it, is acknowledged.
FinAcked(w, s) == s.ack /\ s.ackno = w.p.snd_nxt /\ w.p.unsent = <<>>

TimeWait(w) == [tcp_pcb_purge(w) EXCEPT !.p.state = "TIME_WAIT"]

\* What follows tcp_receive in state st.
AfterReceive(w, s, st) ==
    LET fin  == "GOT_FIN" \in w.recv_flags
        done == FinAcked(w, s)
    IN  CASE st \in {"ESTABLISHED", "CLOSE_WAIT"} -> PassiveClose(w)
          [] st \in {"FIN_WAIT_1", "FIN_WAIT_2"} /\ fin ->
                IF done \/ st = "FIN_WAIT_2" THEN TimeWait(tcp_ack_now(w))
                ELSE [tcp_ack_now(w) EXCEPT !.p.state = "CLOSING"]
          [] st = "FIN_WAIT_1" /\ ~fin /\ done -> [w EXCEPT !.p.state = "FIN_WAIT_2"]
          [] st = "CLOSING" /\ done -> TimeWait(w)
          [] st = "LAST_ACK" /\ done -> [w EXCEPT !.recv_flags = @ \cup {"CLOSED"}]
          [] OTHER -> w

tcp_process(w, s) ==
    LET st == w.p.state
        w0 == [w EXCEPT !.p.persist_probe = 0]
    IN  CASE s.rst -> ProcessRst(w, s)
          [] ~s.rst /\ s.syn /\ st \notin {"SYN_SENT", "SYN_RCVD"} -> tcp_ack_now(w)
          [] ~s.rst /\ st = "SYN_SENT" -> ProcessSynSent(w0, s)
          [] ~s.rst /\ st = "SYN_RCVD" -> ProcessSynRcvd(w0, s)
          [] OTHER -> AfterReceive(tcp_receive(w0, s), s, st)

-----------------------------------------------------------------------------
(* tcp_input                                                               *)

\* After tcp_process: the callbacks, the deferred close and tcp_output.
ReceivedByApp(w, refuse) ==
    LET w1 == IF w.recv_data = <<>> THEN w
              ELSE IF refuse THEN [w EXCEPT !.p.refused.data = w.recv_data]
              ELSE Deliver(w, w.recv_data)
    IN  IF "GOT_FIN" \notin w.recv_flags THEN w1
        ELSE IF w1.p.refused # NoData THEN [w1 EXCEPT !.p.refused.fin = TRUE]
        ELSE GiveBackFin(w1)

Finish(w, refuse) ==
    LET w1 == [w EXCEPT !.a.acked = @ + w.recv_acked]
    IN  CASE "ABRT" \in w.recv_flags -> w
          [] "RESET" \in w.recv_flags -> tcp_pcb_remove(TCP_EVENT_ERR(w, w.p.state, "RST"), TRUE)
          [] "CLOSED" \in w.recv_flags ->
                tcp_pcb_remove(IF "RXCLOSED" \in w.p.flags THEN w1
                               ELSE TCP_EVENT_ERR(w1, w.p.state, "CLSD"), TRUE)
          [] OTHER ->
                IF w.recv_data # <<>> /\ "RXCLOSED" \in w.p.flags
                THEN tcp_abort(w1, TRUE)
                ELSE tcp_output(ReceivedByApp(w1, refuse))

\* Data that arrives while refused data waits is not taken; the faulty
\* variant takes it.
NeverBlocked(p, s) == FALSE

Blocked(p, s) == p.refused # NoData /\ TCP_TCPLEN(s) > 0

\* A segment for an active control block. refuse is what the recv callback
\* refuses: the data refused before ("old"), the new data ("new").
ActiveInput(w, s, refuse) ==
    LET w1 == tcp_process_refused_data(w, "old" \in refuse)
    IN  IF Blocked(w1.p, s)
        THEN IF w1.p.rcv_ann_wnd = 0 THEN tcp_send_empty_ack(w1) ELSE w1
        ELSE Finish(tcp_process(w1, s), "new" \in refuse)

\* tcp_timewait_input: acknowledge, except a RST and a SYN in the window.
tcp_timewait_input(w, s) ==
    CASE s.rst -> w
      [] ~s.rst /\ s.syn /\ TCP_SEQ_BETWEEN(s.seqno, w.p.rcv_nxt,
                                            Plus(w.p.rcv_nxt, w.p.rcv_wnd)) ->
            ReplyRst(w, s)
      [] OTHER -> IF TCP_TCPLEN(s) > 0 THEN tcp_output(tcp_ack_now(w)) ELSE w

\* tcp_listen_input: a SYN opens a control block, if there is memory.
tcp_listen_input(w, s) ==
    LET iss == w.iss
        p   == [tcp_alloc EXCEPT
                    !.state = "SYN_RCVD", !.rcv_nxt = Plus(s.seqno, 1),
                    !.rcv_ann_right_edge = Plus(s.seqno, 1),
                    !.snd_wl2 = iss, !.snd_nxt = iss, !.lastack = iss, !.snd_lbb = iss,
                    !.snd_wl1 = Plus(s.seqno, SeqSpace - 1), !.snd_wnd = s.wnd]
    IN  CASE s.rst -> w
          [] ~s.rst /\ s.ack -> ReplyRst(w, s)
          [] OTHER -> IF s.syn /\ w.mem
                      THEN tcp_output(tcp_enqueue_flags(
                                [w EXCEPT !.p = p, !.fresh = TRUE], TRUE, FALSE))
                      ELSE w

\* tcp_input: active blocks, then TIME_WAIT, then listeners; else a RST.
tcp_input(w, s, refuse) ==
    CASE w.p.state = "TIME_WAIT" -> tcp_timewait_input(w, s)
      [] w.p.state \notin {"CLOSED", "TIME_WAIT"} -> ActiveInput(w, s, refuse)
      [] w.p.state = "CLOSED" /\ w.listening -> tcp_listen_input(w, s)
      [] OTHER -> IF s.rst THEN w ELSE ReplyRst(w, s)
=============================================================================
