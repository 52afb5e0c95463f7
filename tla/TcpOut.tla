------------------------------- MODULE TcpOut -------------------------------
(***************************************************************************)
(* The sending half of lwIP's TCP (tcp_out.c): the queues of a control     *)
(* block and the functions that put segments on the wire.                  *)
(*                                                                         *)
(* The functions of the TCP core call each other on one control block, so  *)
(* each is an operator from the endpoint it works on to the endpoint it    *)
(* leaves: a record w with the control block w.p, its application w.a, the *)
(* segments it has sent w.out, whether memory can be allocated w.mem, the  *)
(* LWIP_ASSERTs that failed w.asserts, and the results of input processing *)
(* (recv_data, recv_flags, recv_acked). Sequence numbers and windows keep  *)
(* their width: they live in 0 .. SeqSpace-1 and 0 .. WndSpace-1.              *)
(***************************************************************************)
EXTENDS Integers, SequencesExt, FiniteSetsExt

CONSTANTS
    SeqSpace, WndSpace,               \* 2^32 and 2^16: the widths of u32_t and u16_t
    TCP_MSS, TCP_WND, TCP_SND_BUF

ASSUME TcpOutAssumption ==
    /\ SeqSpace \in Nat /\ SeqSpace > 1 /\ SeqSpace % 2 = 0
    /\ TCP_MSS \in Nat \ {0}
    /\ TCP_WND \in Nat /\ TCP_WND >= 2 * TCP_MSS /\ TCP_WND < WndSpace
    /\ TCP_SND_BUF \in Nat /\ TCP_SND_BUF < WndSpace
    /\ WndSpace \in Nat /\ 2 * WndSpace <= SeqSpace

-----------------------------------------------------------------------------
(* Sequence numbers: modular, compared by the sign of their difference.    *)

\* Mutant: the sum is not reduced.
PlusUnwrapped(a, n) == a + n

Plus(a, n) == (a + n) % SeqSpace

\* (s32_t)(a - b)
SeqDiff(a, b) == LET d == (a - b) % SeqSpace
                 IN  IF d < SeqSpace \div 2 THEN d ELSE d - SeqSpace

TCP_SEQ_LT(a, b)  == SeqDiff(a, b) < 0
TCP_SEQ_LEQ(a, b) == SeqDiff(a, b) <= 0
TCP_SEQ_GT(a, b)  == SeqDiff(a, b) > 0
TCP_SEQ_GEQ(a, b) == SeqDiff(a, b) >= 0
TCP_SEQ_BETWEEN(a, b, c) == TCP_SEQ_GEQ(a, b) /\ TCP_SEQ_LEQ(a, c)

AtMost(a, b) == IF a <= b THEN a ELSE b

\* TCP_WND_INC saturates at the width of a window.
TCP_WND_INC(wnd, inc) == AtMost(wnd + inc, WndSpace - 1)

-----------------------------------------------------------------------------
(* Control blocks and segments                                             *)

TCP_TCPLEN(seg) == Len(seg.data) + (IF seg.syn \/ seg.fin THEN 1 ELSE 0)

\* The sequence number after a segment.
SegEnd(seg) == Plus(seg.seqno, TCP_TCPLEN(seg))

\* Bytes, and sequence numbers, on a queue of segments.
QueuedData(q) == FlattenSeq([i \in 1 .. Len(q) |-> q[i].data])
QueuedLen(q) == FoldSeq(LAMBDA seg, n : TCP_TCPLEN(seg) + n, 0, q)

\* How many segments at the head of q satisfy P.
HeadRun(q, P(_)) == Max({k \in 0 .. Len(q) : \A i \in 1 .. k : P(q[i])})

Skip(q, k) == SubSeq(q, k + 1, Len(q))

\* A queue with one more segment, kept sorted by sequence number.
InsertSeg(q, seg) ==
    LET k == HeadRun(q, LAMBDA x : TCP_SEQ_LT(x.seqno, seg.seqno))
    IN  SubSeq(q, 1, k) \o <<seg>> \o Skip(q, k)

\* refused_data: bytes the application refused, and whether a FIN follows.
NoData == [data |-> <<>>, fin |-> FALSE]

\* The control block tcp_alloc hands out. Ticks are left out: rtime says
\* whether the retransmission timer runs, persist whether persist_backoff
\* is not 0. snd_wnd_max is at least TCP_WND once a SYN was received, so a
\* segment holds TCP_MSS bytes; pbufs are not counted (snd_queuelen).
tcp_alloc ==
    [state |-> "CLOSED", flags |-> {}, unsent |-> <<>>, unacked |-> <<>>,
     ooseq |-> <<>>, refused |-> NoData,
     snd_nxt |-> 0, lastack |-> 0, snd_lbb |-> 0, snd_buf |-> TCP_SND_BUF,
     snd_wnd |-> 0, snd_wl1 |-> 0, snd_wl2 |-> 0,
     rcv_nxt |-> 0, rcv_wnd |-> TCP_WND, rcv_ann_wnd |-> TCP_WND,
     rcv_ann_right_edge |-> 0,
     cwnd |-> 1, ssthresh |-> TCP_SND_BUF, bytes_acked |-> 0, dupacks |-> 0,
     nrtx |-> 0, rtime |-> FALSE, rto_end |-> 0,
     persist |-> FALSE, persist_probe |-> 0]

SetFlags(w, f)   == [w EXCEPT !.p.flags = @ \cup f]
ClearFlags(w, f) == [w EXCEPT !.p.flags = @ \ f]
tcp_ack_now(w)   == SetFlags(w, {"ACK_NOW"})

\* tcp_ack: every second segment is acknowledged at once.
tcp_ack(w) ==
    IF "ACK_DELAY" \in w.p.flags
    THEN tcp_ack_now(ClearFlags(w, {"ACK_DELAY"}))
    ELSE SetFlags(w, {"ACK_DELAY"})

-----------------------------------------------------------------------------
(* Segments on the wire                                                    *)

Emit(w, seg) == [w EXCEPT !.out = @ \cup {seg}]

\* tcp_output_alloc_header: what a control segment says, and the window it
\* announces.
Header(p, seqno, data, fin) ==
    [seqno |-> seqno, data |-> data, syn |-> FALSE, fin |-> fin, rst |-> FALSE,
     ack |-> TRUE, ackno |-> p.rcv_nxt, wnd |-> p.rcv_ann_wnd]

Announce(w) ==
    [w EXCEPT !.p.rcv_ann_right_edge = Plus(w.p.rcv_nxt, w.p.rcv_ann_wnd)]

tcp_rst(w, seqno, ackno) ==
    IF w.mem
    THEN Emit(w, [seqno |-> seqno, data |-> <<>>, syn |-> FALSE, fin |-> FALSE,
                  rst |-> TRUE, ack |-> TRUE, ackno |-> ackno, wnd |-> TCP_WND])
    ELSE w

\* Without memory the flags are left for tcp_fasttmr.
tcp_send_empty_ack(w) ==
    IF w.mem
    THEN ClearFlags(Announce(Emit(w, Header(w.p, w.p.snd_nxt, <<>>, FALSE))),
                    {"ACK_DELAY", "ACK_NOW"})
    ELSE SetFlags(w, {"ACK_DELAY", "ACK_NOW"})

\* tcp_output_segment: a queued segment goes out with the current
\* acknowledgement and window; a SYN of SYN_SENT carries no ACK flag.
OnWire(p, seg) ==
    [seqno |-> seg.seqno, data |-> seg.data, syn |-> seg.syn, fin |-> seg.fin,
     rst |-> FALSE, ack |-> p.state # "SYN_SENT",
     ackno |-> p.rcv_nxt, wnd |-> p.rcv_ann_wnd]

\* Whether the window leaves room for a segment; its FIN is not counted.
Fits(p, seg) == (seg.seqno - p.lastack + Len(seg.data)) % SeqSpace
                    <= AtMost(p.snd_wnd, p.cwnd)

\* tcp_do_output_nagle, before the i-th segment of unsent is sent.
Nagle(p, i) ==
    \/ i = 1 /\ p.unacked = <<>>
    \/ p.flags \cap {"INFR", "NAGLEMEMERR", "FIN"} # {}
    \/ i < Len(p.unsent)
    \/ Len(p.unsent[i].data) >= TCP_MSS
    \/ p.snd_buf = 0

\* snd_nxt after seg is sent: a retransmission does not move it back.
NextSeq(p, seg) == IF TCP_SEQ_LT(p.snd_nxt, SegEnd(seg)) THEN SegEnd(seg) ELSE p.snd_nxt

\* What the loop of tcp_output sends: as many segments as fit.
SendUnsent(w) ==
    LET p    == w.p
        k    == Max({n \in 0 .. Len(p.unsent) :
                        \A i \in 1 .. n : Fits(p, p.unsent[i]) /\ Nagle(p, i)})
        sent == SubSeq(p.unsent, 1, k)
    IN  IF k = 0 THEN w
        ELSE [Announce(w) EXCEPT
                !.out = w.out \cup {OnWire(p, sent[i]) : i \in 1 .. k},
                !.p.unsent = Skip(p.unsent, k),
                !.p.unacked = FoldLeft(InsertSeg, p.unacked, sent),
                !.p.snd_nxt = NextSeq(p, sent[k]),
                !.p.rtime = TRUE,
                !.p.flags = IF p.state = "SYN_SENT" THEN p.flags
                            ELSE p.flags \ {"ACK_DELAY", "ACK_NOW"}]

\* The persist timer starts when the window, not cwnd, holds the segment back
\* and nothing is in flight. Mutants: it never starts, or it starts
\* with segments in flight.
StartPersistNever(p) == FALSE
StartPersistInFlight(p) == p.snd_wnd <= p.cwnd /\ ~p.persist

StartPersist(p) == p.snd_wnd <= p.cwnd /\ p.unacked = <<>> /\ ~p.persist

\* tcp_output, entered outside input processing.
tcp_output(w) ==
    LET p     == w.p
        stuck == p.unsent # <<>> /\ ~Fits(p, p.unsent[1])
        w1    == IF stuck /\ StartPersist(p)
                 THEN [w EXCEPT !.p.persist = TRUE, !.p.persist_probe = 0]
                 ELSE w
    IN  IF p.unsent = <<>> \/ stuck
        THEN IF "ACK_NOW" \in p.flags THEN tcp_send_empty_ack(w1)
             ELSE ClearFlags(w1, {"NAGLEMEMERR"})
        ELSE ClearFlags(SendUnsent([w EXCEPT !.p.persist = FALSE]), {"NAGLEMEMERR"})

-----------------------------------------------------------------------------
(* Queueing                                                                *)

\* tcp_enqueue_flags, with memory.
tcp_enqueue_flags(w, syn, fin) ==
    [w EXCEPT !.p.unsent = Append(@, [seqno |-> w.p.snd_lbb, data |-> <<>>,
                                      syn |-> syn, fin |-> fin]),
              !.p.snd_lbb = Plus(@, 1),
              !.p.flags = IF fin THEN @ \cup {"FIN"} ELSE @]

\* The last unsent segment takes the FIN, unless it is a SYN or a FIN.
FinOnLast(p) == /\ p.unsent # <<>>
                /\ ~Last(p.unsent).syn /\ ~Last(p.unsent).fin

CanSendFin(w) == FinOnLast(w.p) \/ w.mem

tcp_send_fin(w) ==
    IF FinOnLast(w.p)
    THEN [w EXCEPT !.p.unsent[Len(w.p.unsent)].fin = TRUE,
                   !.p.flags = @ \cup {"FIN"}]
    ELSE tcp_enqueue_flags(w, FALSE, TRUE)

\* tcp_write with memory: the last unsent segment is filled up, unless it
\* holds no data, and the rest becomes segments of at most TCP_MSS bytes.
tcp_write(w, bytes) ==
    LET p     == w.p
        space == IF p.unsent = <<>> \/ Last(p.unsent).data = <<>> THEN 0
                 ELSE TCP_MSS - Len(Last(p.unsent).data)
        fill  == AtMost(space, Len(bytes))
        rest  == Skip(bytes, fill)
        nsegs == (Len(rest) + TCP_MSS - 1) \div TCP_MSS
        seg(i) == [seqno |-> Plus(p.snd_lbb, fill + (i - 1) * TCP_MSS),
                   data |-> SubSeq(rest, (i - 1) * TCP_MSS + 1,
                                   AtMost(i * TCP_MSS, Len(rest))),
                   syn |-> FALSE, fin |-> FALSE]
        filled == IF fill = 0 THEN p.unsent
                  ELSE [p.unsent EXCEPT ![Len(p.unsent)].data =
                            @ \o SubSeq(bytes, 1, fill)]
    IN  [w EXCEPT !.p.unsent = filled \o [i \in 1 .. nsegs |-> seg(i)],
                  !.p.snd_lbb = Plus(@, Len(bytes)),
                  !.p.snd_buf = @ - Len(bytes)]

\* tcp_split_unsent_seg: the head keeps n bytes, the rest takes its FIN.
\* TCPH_SET_FLAG only sets flags, so the head keeps its FIN as well.
tcp_split_unsent_seg(w, n) ==
    LET h    == Head(w.p.unsent)
        tail == [seqno |-> Plus(h.seqno, n), data |-> Skip(h.data, n),
                 syn |-> FALSE, fin |-> h.fin]
    IN  IF Len(h.data) <= n THEN w
        ELSE [w EXCEPT !.p.unsent =
                <<[h EXCEPT !.data = SubSeq(@, 1, n)], tail>> \o Tail(@)]

-----------------------------------------------------------------------------
(* Retransmission                                                          *)

\* tcp_rexmit_rto_prepare: everything in flight goes back to unsent. The
\* mutant does not link the old unsent queue behind it.
RtoPrepareForgets(w) ==
    [w EXCEPT !.p.unsent = w.p.unacked, !.p.unacked = <<>>,
              !.p.flags = @ \cup {"RTO"},
              !.p.rto_end = SegEnd(Last(w.p.unacked))]

tcp_rexmit_rto_prepare(w) ==
    [w EXCEPT !.p.unsent = w.p.unacked \o @, !.p.unacked = <<>>,
              !.p.flags = @ \cup {"RTO"},
              !.p.rto_end = SegEnd(Last(w.p.unacked))]

tcp_rexmit_rto_commit(w) == tcp_output([w EXCEPT !.p.nrtx = AtMost(@ + 1, 255)])

\* tcp_rexmit: the first segment in flight goes back to unsent.
tcp_rexmit(w) ==
    IF w.p.unacked = <<>> THEN w
    ELSE [w EXCEPT !.p.unacked = Tail(@),
                   !.p.unsent = InsertSeg(@, Head(w.p.unacked)),
                   !.p.nrtx = AtMost(@ + 1, 255)]

\* Half the window in use, at least two segments.
HalfWindow(p) == Max({AtMost(p.cwnd, p.snd_wnd) \div 2, 2 * TCP_MSS})

tcp_rexmit_fast(w) ==
    IF w.p.unacked = <<>> \/ "INFR" \in w.p.flags THEN w
    ELSE [tcp_rexmit(w) EXCEPT
            !.p.ssthresh = HalfWindow(w.p),
            !.p.cwnd = AtMost(HalfWindow(w.p) + 3 * TCP_MSS, WndSpace - 1),
            !.p.flags = @ \cup {"INFR"},
            !.p.rtime = TRUE]

\* tcp_zero_window_probe: one byte of unsent, or its FIN.
tcp_zero_window_probe(w) ==
    LET p    == w.p
        h    == Head(p.unsent)
        next == Plus(h.seqno, 1)
        w1   == [w EXCEPT !.p.persist_probe = @ + 1]
    IN  IF p.unsent = <<>> THEN w
        ELSE IF ~w.mem THEN w1
        ELSE [Announce(Emit(w1, Header(p, h.seqno, SubSeq(h.data, 1, AtMost(1, Len(h.data))),
                                       h.fin /\ h.data = <<>>)))
              EXCEPT !.p.snd_nxt = IF TCP_SEQ_LT(@, next) THEN next ELSE @]
=============================================================================
