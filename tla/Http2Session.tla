---------------------------- MODULE Http2Session ----------------------------
(***************************************************************************)
(* One endpoint of an HTTP/2 connection: the nghttp2_session object of     *)
(* nghttp2_session.c and its streams, as a record, with every function     *)
(* that changes it as an operator from the record to the updated record.   *)
(* Module Http2 puts two of them at the ends of a connection.              *)
(*                                                                         *)
(* A DATA payload is its length.  The k-th request of the client is stream *)
(* k (2k-1 on the wire), and 0 stands for the connection as it does in a   *)
(* WINDOW_UPDATE.  Server push, trailers, PRIORITY, PING, padding, HPACK   *)
(* and the HTTP message checks are left out, and so are the errors of a    *)
(* malformed frame.                                                        *)
(***************************************************************************)
EXTENDS Integers, Sequences, FiniteSets, SequencesExt

CONSTANTS MaxStreams,          \* requests the client makes
          InitialWindow,       \* NGHTTP2_INITIAL_WINDOW_SIZE
          ConnWindow,          \* NGHTTP2_INITIAL_CONNECTION_WINDOW_SIZE
          MaxWindow,           \* NGHTTP2_MAX_WINDOW_SIZE
          MaxData,             \* NGHTTP2_DATA_PAYLOADLEN
          PeerConcurrent,      \* max_concurrent_streams before the peer's SETTINGS
          ResetBurst,          \* RST_STREAMs the server takes before it gives up
          NoAutoWindowUpdate   \* NGHTTP2_OPTMASK_NO_AUTO_WINDOW_UPDATE

ASSUME SessionConstants ==
    /\ {MaxStreams, InitialWindow, ConnWindow, MaxWindow, MaxData, PeerConcurrent}
         \subseteq Nat \ {0}
    /\ ResetBurst \in Nat
    /\ InitialWindow <= MaxWindow /\ ConnWindow <= MaxWindow
    /\ NoAutoWindowUpdate \in BOOLEAN

Ids == 1..MaxStreams
Unlimited == MaxStreams + 1     \* NGHTTP2_DEFAULT_MAX_CONCURRENT_STREAMS
LastStream == MaxStreams + 1    \* 2^31-1 as a last_stream_id
Unset == -1                     \* a SETTINGS frame does not carry this entry

\* Why on_stream_close_callback says a stream ended ("open": it was not called).
Reasons == {"open", "no_error", "refused", "cancel", "flow_control"}

\* Why the library itself terminated the session ("none": it did not).
Errors == {"none", "protocol", "flow_control", "stream_closed"}

LeastOf(a, b) == IF a <= b THEN a ELSE b

-----------------------------------------------------------------------------
(* The session and what it can tell about itself.                          *)

NewStream(s, state) ==
    [state |-> state, closed |-> FALSE, rd |-> FALSE, wr |-> FALSE, item |-> "none",
     remote_win |-> s.remote_iw, local_win |-> s.local_iw,
     recv_win |-> 0, consumed |-> 0, wuq |-> FALSE]

\* session_new, and the SETTINGS every application submits before anything else.
NewSession(server, iv) ==
    [server |-> server, streams |-> <<>>, num |-> 0, closed_q |-> <<>>,
     urgent |-> <<[type |-> "SETTINGS", iv |-> iv]>>, reg |-> <<>>, syn |-> <<>>,
     aob |-> <<>>,
     remote_win |-> ConnWindow, local_win |-> ConnWindow,
     recv_win |-> 0, consumed |-> 0, wuq |-> FALSE,
     remote_iw |-> InitialWindow, remote_mc |-> PeerConcurrent,
     local_iw |-> InitialWindow, local_mc |-> Unlimited,
     pending_mc |-> IF iv.mc = Unset THEN Unlimited ELSE iv.mc,
     settings_recv |-> FALSE, inflight |-> <<iv>>,
     next_id |-> 1, last_sent |-> 0, last_recv |-> 0, last_proc |-> 0,
     local_last |-> LastStream, remote_last |-> LastStream,
     goaway |-> {}, ign_all |-> FALSE, ratelim |-> ResetBurst,
     reason |-> [id \in Ids |-> "open"], error |-> "none"]

\* nghttp2_session_get_stream finds a stream only while it is not closed.
Live(s, id) == id \in DOMAIN s.streams /\ ~s.streams[id].closed
Active(s) == {id \in DOMAIN s.streams : ~s.streams[id].closed}

\* A mutant: one stream more than the peer allows.
OneStreamTooMany(s) == s.remote_mc < s.num
session_is_outgoing_concurrent_streams_max(s) == s.remote_mc <= s.num
session_is_incoming_concurrent_streams_max(s) == s.local_mc <= s.num
session_is_incoming_concurrent_streams_pending_max(s) == s.pending_mc <= s.num

\* Streams are all the client's: its own are idle until their HEADERS is prepared,
\* the peer's are idle to the server until their HEADERS arrived.
session_detect_idle_stream(s, id) ==
    (IF s.server THEN s.last_recv ELSE s.last_sent) < id

session_allow_incoming_new_stream(s) == s.goaway \cap {"term_on_send", "sent"} = {}

\* The streams whose DATA the scheduler may pick.
Sendable(s) == {id \in DOMAIN s.streams : s.streams[id].item = "ready"}

nghttp2_session_want_read(s) ==
    /\ "term_sent" \notin s.goaway
    /\ Active(s) # {} \/ s.goaway \cap {"sent", "recv"} = {}

nghttp2_session_want_write(s) ==
    /\ "term_sent" \notin s.goaway
    /\ \/ s.aob # <<>> \/ s.urgent # <<>> \/ s.reg # <<>>
       \/ Sendable(s) # {} /\ s.remote_win > 0
       \/ s.syn # <<>> /\ ~session_is_outgoing_concurrent_streams_max(s)

session_is_closing(s) ==
    \/ "term_on_send" \in s.goaway
    \/ ~nghttp2_session_want_read(s) /\ ~nghttp2_session_want_write(s)

nghttp2_session_check_request_allowed(s) ==
    ~s.server /\ s.next_id \in Ids /\ "recv" \notin s.goaway /\ ~session_is_closing(s)

-----------------------------------------------------------------------------
(* Queueing frames.                                                        *)

nghttp2_session_add_goaway(s, last, aux) ==
    [s EXCEPT !.reg = Append(@, [type |-> "GOAWAY", last |-> LeastOf(last, s.local_last),
                                 aux |-> aux]),
              !.goaway = @ \cup {"submitted"}]

nghttp2_session_terminate_session(s, error) ==
    IF "term_on_send" \in s.goaway THEN s
    ELSE [nghttp2_session_add_goaway(s, s.last_proc, "term")
            EXCEPT !.ign_all = TRUE, !.goaway = @ \cup {"term_on_send"}, !.error = error]

nghttp2_session_add_window_update(s, id, inc) ==
    LET q == [s EXCEPT !.reg = Append(@, [type |-> "WINDOW_UPDATE", id |-> id, inc |-> inc])]
    IN CASE id = 0 -> [q EXCEPT !.wuq = TRUE]
         [] id # 0 /\ Live(s, id) -> [q EXCEPT !.streams[id].wuq = TRUE]
         [] OTHER -> q

\* A request whose HEADERS is still in ob_syn is canceled there; nothing is sent for it.
nghttp2_session_add_rst_stream(s, id, error) ==
    LET waiting == {i \in DOMAIN s.syn : s.syn[i].id = id /\ ~s.syn[i].canceled}
        never == IF s.server THEN s.last_recv < id ELSE id >= s.next_id
    IN IF never \/ (Live(s, id) /\ s.streams[id].state = "closing") THEN s
       ELSE IF waiting # {}
       THEN [s EXCEPT !.syn[CHOOSE i \in waiting : TRUE].canceled = TRUE]
       ELSE LET q == [s EXCEPT !.reg =
                        Append(@, [type |-> "RST_STREAM", id |-> id, error |-> error])]
            IN IF Live(s, id) THEN [q EXCEPT !.streams[id].state = "closing"] ELSE q

nghttp2_session_add_settings(s, iv) ==
    [s EXCEPT !.urgent = Append(@, [type |-> "SETTINGS", iv |-> iv]),
              !.inflight = Append(@, iv),
              !.pending_mc = IF iv.mc = Unset THEN @ ELSE iv.mc]

-----------------------------------------------------------------------------
(* Opening and closing streams.                                            *)

nghttp2_session_open_stream(s, id, state) ==
    [s EXCEPT !.streams = [i \in DOMAIN @ \cup {id} |->
                             IF i = id THEN NewStream(s, state) ELSE @[i]],
              !.num = @ + 1]

\* A mutant: a stream that ends with an error stays counted.
CloseUncounted(s, id, error) ==
    IF ~Live(s, id) THEN s
    ELSE LET c == [s EXCEPT !.num = IF error = "no_error" THEN @ - 1 ELSE @,
                            !.reason[id] = error]
         IN IF s.server
            THEN [c EXCEPT !.streams[id].closed = TRUE, !.streams[id].item = "none",
                           !.closed_q = Append(@, id)]
            ELSE [c EXCEPT !.streams = [i \in DOMAIN @ \ {id} |-> @[i]]]

\* The server keeps a closed stream in its map, the client destroys it.
nghttp2_session_close_stream(s, id, error) ==
    IF ~Live(s, id) THEN s
    ELSE LET c == [s EXCEPT !.num = @ - 1, !.reason[id] = error]
         IN IF s.server
            THEN [c EXCEPT !.streams[id].closed = TRUE, !.streams[id].item = "none",
                           !.closed_q = Append(@, id)]
            ELSE [c EXCEPT !.streams = [i \in DOMAIN @ \ {id} |-> @[i]]]

nghttp2_session_close_stream_if_shut_rdwr(s, id) ==
    IF s.streams[id].rd /\ s.streams[id].wr
    THEN nghttp2_session_close_stream(s, id, "no_error") ELSE s

\* Destroy the oldest kept streams beyond the limit on concurrent streams.
nghttp2_session_adjust_closed_stream(s) ==
    LET num_stream_max == IF s.local_mc = Unlimited THEN s.pending_mc ELSE s.local_mc
        excess == Len(s.closed_q) + s.num - num_stream_max
        n == IF excess <= 0 THEN 0 ELSE LeastOf(excess, Len(s.closed_q))
        gone == {s.closed_q[i] : i \in 1..n}
    IN [s EXCEPT !.closed_q = SubSeq(@, n + 1, Len(@)),
                 !.streams = [i \in DOMAIN @ \ gone |-> @[i]]]

\* A mutant: the last stream the peer did process is closed as well.
CloseLastToo(s, last) ==
    FoldSet(LAMBDA id, t : nghttp2_session_close_stream(t, id, "refused"),
            s, {id \in Active(s) : id >= last})

session_close_stream_on_goaway(s, last) ==
    FoldSet(LAMBDA id, t : nghttp2_session_close_stream(t, id, "refused"),
            s, {id \in Active(s) : id > last})

-----------------------------------------------------------------------------
(* Flow control of what is received.  r is the session or one stream: both *)
(* keep local_win, recv_win, consumed and wuq.                             *)

nghttp2_should_send_window_update(local, recv) == recv > 0 /\ recv >= local \div 2

\* The increment a WINDOW_UPDATE for r may carry now, 0 for none.
Credit(r, size) ==
    IF ~r.wuq /\ nghttp2_should_send_window_update(r.local_win, size) THEN size ELSE 0

OverWindow(r, delta) ==
    r.recv_win > r.local_win - delta \/ r.recv_win > MaxWindow - delta

nghttp2_session_update_recv_connection_window_size(s, delta) ==
    LET t == [s EXCEPT !.recv_win = @ + delta]
        n == IF NoAutoWindowUpdate THEN 0 ELSE Credit(t, t.recv_win)
    IN IF OverWindow(s, delta) THEN nghttp2_session_terminate_session(s, "flow_control")
       ELSE IF n = 0 THEN t
       ELSE [nghttp2_session_add_window_update(t, 0, n) EXCEPT !.recv_win = 0]

nghttp2_session_update_recv_stream_window_size(s, id, delta, send) ==
    LET t == [s EXCEPT !.streams[id].recv_win = @ + delta]
        n == IF NoAutoWindowUpdate \/ ~send THEN 0
             ELSE Credit(t.streams[id], t.streams[id].recv_win)
    IN IF OverWindow(s.streams[id], delta)
       THEN nghttp2_session_add_rst_stream(s, id, "flow_control")
       ELSE IF n = 0 THEN t
       ELSE [nghttp2_session_add_window_update(t, id, n) EXCEPT !.streams[id].recv_win = 0]

session_update_connection_consumed_size(s, delta) ==
    LET t == [s EXCEPT !.consumed = @ + delta]
        n == Credit(t, LeastOf(t.consumed, t.recv_win))
    IN IF s.consumed > MaxWindow - delta
       THEN nghttp2_session_terminate_session(s, "flow_control")
       ELSE IF n = 0 THEN t
       ELSE [nghttp2_session_add_window_update(t, 0, n)
               EXCEPT !.recv_win = @ - n, !.consumed = @ - n]

session_update_stream_consumed_size(s, id, delta) ==
    LET t == [s EXCEPT !.streams[id].consumed = @ + delta]
        r == t.streams[id]
        n == Credit(r, LeastOf(r.consumed, r.recv_win))
    IN IF s.streams[id].consumed > MaxWindow - delta
       THEN nghttp2_session_terminate_session(s, "flow_control")
       ELSE IF n = 0 THEN t
       ELSE [nghttp2_session_add_window_update(t, id, n)
               EXCEPT !.streams[id].recv_win = @ - n, !.streams[id].consumed = @ - n]

nghttp2_session_consume(s, id, size) ==
    LET t == session_update_connection_consumed_size(s, size)
    IN IF Live(t, id) THEN session_update_stream_consumed_size(t, id, size) ELSE t

-----------------------------------------------------------------------------
(* Taking the next frame from the queues and preparing it.                 *)

\* What may be sent on a stream: the stream is there and this side has not ended it.
session_predicate_for_stream_send(s, id) ==
    Live(s, id) /\ ~session_is_closing(s) /\ ~s.streams[id].wr

nghttp2_session_predicate_data_send(s, id) ==
    /\ session_predicate_for_stream_send(s, id)
    /\ IF s.server THEN s.streams[id].state = "opened" ELSE s.streams[id].state # "closing"

session_predicate_response_headers_send(s, id) ==
    session_predicate_for_stream_send(s, id) /\ s.streams[id].state = "opening"

session_predicate_window_update_send(s, id) ==
    /\ ~session_is_closing(s)
    /\ id # 0 => Live(s, id) /\ s.streams[id].state # "closing"

session_predicate_request_headers_send(s, item) ==
    ~item.canceled /\ "recv" \notin s.goaway /\ ~session_is_closing(s)

nghttp2_session_next_data_read(s, id) ==
    LET w == LeastOf(LeastOf(MaxData, s.streams[id].remote_win), s.remote_win)
    IN IF w > 0 THEN w ELSE 0

Active_outbound(s, f) == [s EXCEPT !.aob = <<f>>]

\* session_prep_frame of a request's HEADERS: the stream is opened first, and closed
\* again when the request may not be sent any more.
PrepRequest(s, item) ==
    LET o == nghttp2_session_open_stream(s, item.id, "initial")
    IN IF session_predicate_request_headers_send(o, item)
       THEN [Active_outbound(o, item) EXCEPT !.last_sent = item.id]
       ELSE nghttp2_session_close_stream(o, item.id,
                                         IF item.canceled THEN "cancel" ELSE "refused")

\* session_prep_frame of the other control frames; a frame that may not be sent is dropped.
\* Of HEADERS only responses: none are pushed or sent as trailers (the fallback of the
\* predicate), none exceeds the frame size, and before_frame_send_callback cancels none.
PrepControl(s, f) ==
    LET allowed ==
          CASE f.type = "HEADERS" -> session_predicate_response_headers_send(s, f.id)
            [] f.type = "RST_STREAM" -> ~session_is_closing(s)
            [] f.type = "ACK" -> ~session_is_closing(s)
            [] f.type = "WINDOW_UPDATE" -> session_predicate_window_update_send(s, f.id)
            [] OTHER -> TRUE
        t == IF f.type = "GOAWAY" THEN [s EXCEPT !.local_last = f.last] ELSE s
    IN IF allowed THEN Active_outbound(t, f) ELSE t

\* Mutants: more is read than the body has; the body ends one octet early.
PrepDataFull(s, id, left) ==
    LET datamax == nghttp2_session_next_data_read(s, id)
    IN IF datamax = 0 THEN [s EXCEPT !.streams[id].item = "deferred"]
       ELSE Active_outbound(s, [type |-> "DATA", id |-> id, len |-> datamax,
                                end |-> left <= datamax])
PrepDataEarlyEnd(s, id, left) ==
    LET datamax == nghttp2_session_next_data_read(s, id)
        len == LeastOf(left, datamax)
    IN IF datamax = 0 THEN [s EXCEPT !.streams[id].item = "deferred"]
       ELSE Active_outbound(s, [type |-> "DATA", id |-> id, len |-> len,
                                end |-> left <= len + 1])

\* session_prep_frame of DATA, of which the application still has left to send. Its
\* read callback always has data: what it may return instead (DEFERRED, PAUSE and the
\* temporal and other failures, which nghttp2_session_pack_data passes on) is left out.
PrepData(s, id, left) ==
    LET datamax == nghttp2_session_next_data_read(s, id)
        len == LeastOf(left, datamax)
    IN IF ~nghttp2_session_predicate_data_send(s, id)
       THEN [s EXCEPT !.streams[id].item = "none"]
       ELSE IF datamax = 0 THEN [s EXCEPT !.streams[id].item = "deferred"]
       ELSE Active_outbound(s, [type |-> "DATA", id |-> id, len |-> len, end |-> len = left])

-----------------------------------------------------------------------------
(* A frame left completely: session_after_frame_sent1 and _sent2.          *)

\* nghttp2_submit_data for a body that follows the HEADERS.
AttachData(s, id) ==
    IF Live(s, id) /\ s.streams[id].item = "none"
    THEN [s EXCEPT !.streams[id].item = "ready"] ELSE s

AfterHeaders(s, f) ==
    LET t == [s EXCEPT !.streams[f.id].state = IF s.server THEN "opened" ELSE "opening",
                       !.streams[f.id].wr = @ \/ f.end]
        c == nghttp2_session_close_stream_if_shut_rdwr(t, f.id)
    IN IF ~Live(s, f.id) THEN s ELSE IF f.end THEN c ELSE AttachData(c, f.id)

AfterData(s, f) ==
    LET t == [s EXCEPT !.remote_win = @ - f.len]
        u == [t EXCEPT !.streams[f.id].remote_win = @ - f.len]
        e == [u EXCEPT !.streams[f.id].item = "none", !.streams[f.id].wr = TRUE]
    IN IF ~Live(s, f.id) THEN t
       ELSE IF f.end THEN nghttp2_session_close_stream_if_shut_rdwr(e, f.id)
       ELSE IF nghttp2_session_predicate_data_send(u, f.id) THEN u
       ELSE [u EXCEPT !.streams[f.id].item = "none"]

AfterGoaway(s, f) ==
    LET t == [s EXCEPT !.goaway = @ \cup {"sent"} \cup (IF f.aux = "term" THEN {"term_sent"} ELSE {})]
    IN IF f.aux = "notice" THEN s
       ELSE IF s.server THEN session_close_stream_on_goaway(t, f.last) ELSE t

AfterWindowUpdate(s, f) ==
    IF f.id = 0
    THEN LET t == [s EXCEPT !.wuq = FALSE]
         IN IF NoAutoWindowUpdate THEN session_update_connection_consumed_size(t, 0)
            ELSE nghttp2_session_update_recv_connection_window_size(t, 0)
    ELSE IF ~Live(s, f.id) THEN s
    ELSE LET t == [s EXCEPT !.streams[f.id].wuq = FALSE]
         IN IF s.streams[f.id].rd THEN t
            ELSE IF NoAutoWindowUpdate THEN session_update_stream_consumed_size(t, f.id, 0)
            ELSE nghttp2_session_update_recv_stream_window_size(t, f.id, 0, TRUE)

session_after_frame_sent(s, f) ==
    LET t == [s EXCEPT !.aob = <<>>]
    IN CASE f.type = "HEADERS" -> AfterHeaders(t, f)
         [] f.type = "DATA" -> AfterData(t, f)
         [] f.type = "RST_STREAM" -> nghttp2_session_close_stream(t, f.id, f.error)
         [] f.type = "GOAWAY" -> AfterGoaway(t, f)
         [] f.type = "WINDOW_UPDATE" -> AfterWindowUpdate(t, f)
         [] OTHER -> t

-----------------------------------------------------------------------------
(* Receiving.                                                              *)

\* A frame that ended the peer's side: HEADERS or DATA with END_STREAM.
EndStream(s, f) ==
    IF f.end /\ Live(s, f.id) /\ s.streams[f.id].state # "closing"
    THEN nghttp2_session_close_stream_if_shut_rdwr([s EXCEPT !.streams[f.id].rd = TRUE], f.id)
    ELSE s

\* A mutant: a stream beyond the limit that the peer does not know yet is dropped
\* without RST_STREAM.
RequestDroppedSilently(s, f) ==
    LET r == [s EXCEPT !.last_recv = f.id]
    IN IF session_is_incoming_concurrent_streams_pending_max(r) THEN r
       ELSE EndStream([nghttp2_session_open_stream(r, f.id, "opening")
                         EXCEPT !.last_proc = f.id], f)

nghttp2_session_on_request_headers_received(s, f) ==
    LET r == [s EXCEPT !.last_recv = f.id]
        o == nghttp2_session_adjust_closed_stream(nghttp2_session_open_stream(r, f.id, "opening"))
    IN IF ~s.server
       THEN IF session_detect_idle_stream(s, f.id)
            THEN nghttp2_session_terminate_session(s, "protocol") ELSE s
       ELSE IF f.id <= s.last_recv
       THEN IF f.id \in DOMAIN s.streams /\ s.streams[f.id].rd
            THEN nghttp2_session_terminate_session(s, "stream_closed") ELSE s
       ELSE IF session_is_incoming_concurrent_streams_max(r)
       THEN nghttp2_session_terminate_session(r, "protocol")
       ELSE IF ~session_allow_incoming_new_stream(r) THEN r
       ELSE IF session_is_incoming_concurrent_streams_pending_max(r)
       THEN nghttp2_session_add_rst_stream(r, f.id, "refused")
       ELSE EndStream([o EXCEPT !.last_proc = f.id], f)

\* HEADERS on a stream that is there: the response at the client.
nghttp2_session_on_response_headers_received(s, f) ==
    IF s.streams[f.id].rd THEN nghttp2_session_terminate_session(s, "stream_closed")
    ELSE IF ~s.server /\ s.streams[f.id].state = "opening"
    THEN EndStream([s EXCEPT !.streams[f.id].state = "opened"], f)
    ELSE EndStream(s, f)

session_process_headers_frame(s, f) ==
    IF Live(s, f.id) THEN nghttp2_session_on_response_headers_received(s, f)
    ELSE nghttp2_session_on_request_headers_received(s, f)

\* session_on_data_received_fail_fast: take the payload, ignore it, or the error.
DataVerdict(s, id) ==
    CASE session_detect_idle_stream(s, id) -> "protocol"
      [] ~session_detect_idle_stream(s, id) /\ id \in DOMAIN s.streams /\ s.streams[id].rd
           -> "stream_closed"
      [] ~session_detect_idle_stream(s, id) /\ id \in DOMAIN s.streams /\ ~s.streams[id].rd
         /\ ~s.streams[id].closed /\ s.streams[id].state # "closing"
           -> IF ~s.server /\ s.streams[id].state # "opened" THEN "protocol" ELSE "take"
      [] OTHER -> "ignore"

\* A mutant: ignored payload is not given back.
IgnoredUnconsumed(s, f) ==
    LET c == nghttp2_session_update_recv_connection_window_size(s, f.len)
    IN IF DataVerdict(s, f.id) = "take"
       THEN EndStream(nghttp2_session_update_recv_stream_window_size(c, f.id, f.len, ~f.end), f)
       ELSE c

\* The payload counts against the connection before it counts against the stream.
session_process_data_frame(s, f) ==
    LET v == DataVerdict(s, f.id)
        c == IF f.len = 0 THEN s
             ELSE nghttp2_session_update_recv_connection_window_size(s, f.len)
        t == IF f.len = 0 THEN c
             ELSE nghttp2_session_update_recv_stream_window_size(c, f.id, f.len, ~f.end)
    IN IF v \in Errors THEN nghttp2_session_terminate_session(s, v)
       ELSE IF c.ign_all THEN c
       ELSE IF v = "take" THEN EndStream(t, f)
       ELSE IF NoAutoWindowUpdate /\ f.len > 0
       THEN session_update_connection_consumed_size(c, f.len)
       ELSE c

\* Whether on_data_chunk_recv_callback hands the payload to the application.
Delivers(s, f) ==
    /\ f.type = "DATA" /\ nghttp2_session_want_read(s) /\ ~s.ign_all
    /\ DataVerdict(s, f.id) = "take" /\ ~OverWindow(s, f.len)

\* The server gives up on a client that resets too many streams.
session_update_stream_reset_ratelim(s) ==
    IF ~s.server \/ "submitted" \in s.goaway THEN s
    ELSE IF s.ratelim > 0 THEN [s EXCEPT !.ratelim = @ - 1]
    ELSE nghttp2_session_add_goaway(s, s.last_recv, "none")

nghttp2_session_on_rst_stream_received(s, f) ==
    IF session_detect_idle_stream(s, f.id)
    THEN nghttp2_session_terminate_session(s, "protocol")
    ELSE LET t == IF Live(s, f.id) THEN [s EXCEPT !.streams[f.id].rd = TRUE] ELSE s
         IN session_update_stream_reset_ratelim(nghttp2_session_close_stream(t, f.id, f.error))

\* A mutant: a window of one octet does not wake the stream.
ResumeLate(s, id) ==
    IF s.streams[id].remote_win > 1 /\ s.streams[id].item = "deferred"
    THEN [s EXCEPT !.streams[id].item = "ready"] ELSE s

session_resume_deferred_stream_item(s, id) ==
    IF s.streams[id].remote_win > 0 /\ s.streams[id].item = "deferred"
    THEN [s EXCEPT !.streams[id].item = "ready"] ELSE s

\* Every stream in the map, the kept closed ones included, gets the difference.
session_update_remote_initial_window_size(s, new) ==
    FoldSet(LAMBDA id, t :
              IF t.streams[id].remote_win + new - s.remote_iw > MaxWindow
              THEN nghttp2_session_add_rst_stream(t, id, "flow_control")
              ELSE session_resume_deferred_stream_item(
                     [t EXCEPT !.streams[id].remote_win = @ + new - s.remote_iw], id),
            s, DOMAIN s.streams)

update_local_initial_window_size_func(t, id, delta) ==
    LET u == [t EXCEPT !.streams[id].local_win = @ + delta]
        n == Credit(u.streams[id], u.streams[id].recv_win)
    IN IF t.streams[id].local_win + delta > MaxWindow
       THEN nghttp2_session_add_rst_stream(t, id, "flow_control")
       ELSE IF t.streams[id].wuq THEN u
       ELSE IF NoAutoWindowUpdate THEN session_update_stream_consumed_size(u, id, 0)
       ELSE IF n = 0 THEN u
       ELSE [nghttp2_session_add_window_update(u, id, n) EXCEPT !.streams[id].recv_win = 0]

\* The peer acknowledged iv: only now does this side hold it to the new limits.
nghttp2_session_update_local_settings(s, iv) ==
    LET t == IF iv.iw = Unset THEN s
             ELSE FoldSet(LAMBDA id, u :
                            update_local_initial_window_size_func(u, id, iv.iw - s.local_iw),
                          s, DOMAIN s.streams)
    IN [t EXCEPT !.local_iw = IF iv.iw = Unset THEN @ ELSE iv.iw,
                 !.local_mc = IF iv.mc = Unset THEN @ ELSE iv.mc]

OnSettingsAck(s) ==
    IF s.inflight = <<>> THEN nghttp2_session_terminate_session(s, "protocol")
    ELSE [nghttp2_session_update_local_settings(s, Head(s.inflight))
            EXCEPT !.inflight = Tail(@)]

nghttp2_session_on_settings_received(s, f) ==
    LET first == IF s.settings_recv THEN s
                 ELSE [s EXCEPT !.remote_mc = Unlimited, !.settings_recv = TRUE]
        m == [first EXCEPT !.remote_mc = IF f.iv.mc = Unset THEN @ ELSE f.iv.mc]
        w == IF f.iv.iw = Unset THEN m
             ELSE [session_update_remote_initial_window_size(m, f.iv.iw)
                     EXCEPT !.remote_iw = f.iv.iw]
    IN IF session_is_closing(w) THEN w
       ELSE [w EXCEPT !.urgent = Append(@, [type |-> "ACK"])]

nghttp2_session_on_goaway_received(s, f) ==
    IF s.remote_last < f.last THEN nghttp2_session_terminate_session(s, "protocol")
    ELSE LET t == [s EXCEPT !.goaway = @ \cup {"recv"}, !.remote_last = f.last]
         IN IF s.server THEN t ELSE session_close_stream_on_goaway(t, f.last)

nghttp2_session_on_window_update_received(s, f) ==
    IF f.id = 0
    THEN IF MaxWindow - f.inc < s.remote_win
         THEN nghttp2_session_terminate_session(s, "flow_control")
         ELSE [s EXCEPT !.remote_win = @ + f.inc]
    ELSE IF session_detect_idle_stream(s, f.id)
    THEN nghttp2_session_terminate_session(s, "protocol")
    ELSE IF ~Live(s, f.id) THEN s
    ELSE IF MaxWindow - f.inc < s.streams[f.id].remote_win
    THEN nghttp2_session_add_rst_stream(s, f.id, "flow_control")
    ELSE session_resume_deferred_stream_item(
           [s EXCEPT !.streams[f.id].remote_win = @ + f.inc], f.id)

\* nghttp2_session_mem_recv for one frame; the first must be SETTINGS. A call brings one
\* frame: whether the session wants to read is asked once in a call, so in the code the
\* further frames of one call are still handled after the one that ended the last stream.
nghttp2_session_mem_recv(s, f) ==
    IF ~nghttp2_session_want_read(s) \/ s.ign_all THEN s
    ELSE IF ~s.settings_recv /\ f.type # "SETTINGS"
    THEN nghttp2_session_terminate_session(s, "protocol")
    ELSE CASE f.type = "HEADERS" -> session_process_headers_frame(s, f)
           [] f.type = "DATA" -> session_process_data_frame(s, f)
           [] f.type = "RST_STREAM" -> nghttp2_session_on_rst_stream_received(s, f)
           [] f.type = "SETTINGS" -> nghttp2_session_on_settings_received(s, f)
           [] f.type = "ACK" -> OnSettingsAck(s)
           [] f.type = "GOAWAY" -> nghttp2_session_on_goaway_received(s, f)
           [] f.type = "WINDOW_UPDATE" -> nghttp2_session_on_window_update_received(s, f)
=============================================================================
