-------------------------------- MODULE Http2 --------------------------------
(***************************************************************************)
(* Two nghttp2 sessions, a client "c" and a server "s", on one connection. *)
(* The connection is TCP: frames of one direction arrive in order and none *)
(* is lost, but an endpoint may be slow to write (send_callback returns    *)
(* WOULDBLOCK and the prepared frame waits in session->aob while frames    *)
(* are received and the application calls the library) and slow to read.   *)
(*                                                                         *)
(* The application is the environment: it submits requests and responses,  *)
(* resets streams, changes its settings, asks for a shutdown or terminates *)
(* the session, and reports what it consumed of the data it was handed.    *)
(***************************************************************************)
EXTENDS Http2Session

CONSTANTS BodyLen,        \* [Sides -> Nat]: length of the body a side sends
          FirstSettings,  \* [Sides -> entries of the first SETTINGS]
          Changes,        \* [Sides -> set of entries it may submit later]
          Resetters,      \* the sides whose application may reset a stream,
          Quitters,       \* shut down with a GOAWAY,
          Terminators,    \* or terminate the session
          MaxCalls,       \* how many such calls the applications make in all
          SockBuf         \* frames the sockets hold in one direction

Sides == {"c", "s"}
Peer(p) == IF p = "c" THEN "s" ELSE "c"
Entries == [iw : Nat \cup {Unset}, mc : Nat \cup {Unset}]

ASSUME Http2Constants ==
    /\ BodyLen \in [Sides -> Nat] /\ BodyLen["s"] > 0
    /\ FirstSettings \in [Sides -> Entries]
    /\ \A p \in Sides : Changes[p] \subseteq Entries
    /\ Resetters \cup Quitters \cup Terminators \subseteq Sides
    /\ MaxCalls \in Nat
    /\ SockBuf \in Nat \ {0}

VARIABLES ses,   \* the two sessions
          net,   \* net[p]: the frames on their way to p
          app,   \* the two applications
          calls, \* how many of the bounded calls were made
          stranded \* history: a request waited behind a GOAWAY of the client
vars == <<ses, net, app, calls, stranded>>

\* left: bytes of the body not yet read by the library; got, held: bytes handed to the
\* application, and those of them it has not consumed; asked, answered: the requests the
\* server submitted a response to, and those whose response went out; reset: the streams
\* the application reset, each once; quit: it submitted its one GOAWAY.
NewApp(p) == [left |-> [id \in Ids |-> BodyLen[p]], got |-> [id \in Ids |-> 0],
              held |-> [id \in Ids |-> 0], asked |-> {}, answered |-> {}, reset |-> {},
              quit |-> FALSE]

Init ==
    /\ ses = [p \in Sides |-> NewSession(p = "s", FirstSettings[p])]
    /\ net = [p \in Sides |-> <<>>]
    /\ app = [p \in Sides |-> NewApp(p)]
    /\ calls = 0
    /\ stranded = FALSE

\* After the GOAWAY of nghttp2_session_terminate_session the application drops the
\* connection: want_read and want_write are both 0.
Gone(p) == "term_sent" \in ses[p].goaway

-----------------------------------------------------------------------------
(* Calls of the application.                                               *)

\* A request waits in ob_syn although a GOAWAY has been written.  A session without open
\* streams does not want to read then (nghttp2_session_want_read does not look at
\* ob_syn), and the peer takes no new stream.
Late(s) == "sent" \in s.goaway /\ s.syn # <<>>

\* nghttp2_submit_request: the HEADERS waits in ob_syn for a place under the peer's limit.
SubmitRequest ==
    LET s == ses["c"]
        item == [type |-> "HEADERS", id |-> s.next_id, end |-> BodyLen["c"] = 0,
                 canceled |-> FALSE]
    IN /\ nghttp2_session_check_request_allowed(s)
       /\ ses' = [ses EXCEPT !["c"].syn = Append(@, item), !["c"].next_id = @ + 1]
       /\ stranded' = (stranded \/ Late(ses'["c"]))
       /\ UNCHANGED <<net, app, calls>>

\* nghttp2_submit_response to a request the server's application was handed.
SubmitResponse(id) ==
    /\ Live(ses["s"], id) /\ id \notin app["s"].asked /\ ~Gone("s")
    /\ ses' = [ses EXCEPT !["s"].reg =
                 Append(@, [type |-> "HEADERS", id |-> id, end |-> FALSE])]
    /\ app' = [app EXCEPT !["s"].asked = @ \cup {id}]
    /\ UNCHANGED <<net, calls, stranded>>

\* nghttp2_submit_rst_stream on a stream whose end the application was not told of.
SubmitRstStream(p, id) ==
    /\ p \in Resetters /\ ~Gone(p) /\ calls < MaxCalls
    /\ id \notin app[p].reset
    /\ IF p = "c" THEN id < ses[p].next_id /\ ses[p].reason[id] = "open"
                  ELSE Live(ses[p], id)
    /\ ses' = [ses EXCEPT ![p] = nghttp2_session_add_rst_stream(@, id, "cancel")]
    /\ app' = [app EXCEPT ![p].reset = @ \cup {id}]
    /\ calls' = calls + 1
    /\ UNCHANGED <<net, stranded>>

\* nghttp2_submit_settings.
SubmitSettings(p, iv) ==
    /\ ~Gone(p) /\ calls < MaxCalls
    /\ ses' = [ses EXCEPT ![p] = nghttp2_session_add_settings(@, iv)]
    /\ calls' = calls + 1
    /\ UNCHANGED <<net, app, stranded>>

\* nghttp2_submit_goaway with the last stream processed.
SubmitGoaway(p) ==
    /\ p \in Quitters /\ ~app[p].quit /\ calls < MaxCalls
    /\ "term_on_send" \notin ses[p].goaway
    /\ ses' = [ses EXCEPT ![p] = nghttp2_session_add_goaway(@, ses[p].last_proc, "none")]
    /\ app' = [app EXCEPT ![p].quit = TRUE]
    /\ calls' = calls + 1
    /\ UNCHANGED <<net, stranded>>

\* nghttp2_submit_shutdown_notice: a GOAWAY that refuses nothing yet.
SubmitShutdownNotice(p) ==
    /\ p = "s" /\ p \in Quitters /\ ses[p].goaway = {}
    /\ ses' = [ses EXCEPT ![p] = nghttp2_session_add_goaway(@, LastStream, "notice")]
    /\ UNCHANGED <<net, app, calls, stranded>>

\* nghttp2_session_terminate_session(NGHTTP2_NO_ERROR).
Terminate(p) ==
    /\ p \in Terminators /\ ~app[p].quit /\ calls < MaxCalls
    /\ "term_on_send" \notin ses[p].goaway
    /\ ses' = [ses EXCEPT ![p] = nghttp2_session_terminate_session(@, "none")]
    /\ calls' = calls + 1
    /\ UNCHANGED <<net, app, stranded>>

\* nghttp2_session_consume of what the application holds of a stream, closed or not.
Consume(p, id) ==
    /\ NoAutoWindowUpdate /\ app[p].held[id] > 0 /\ ~Gone(p)
    /\ ses' = [ses EXCEPT ![p] = nghttp2_session_consume(@, id, app[p].held[id])]
    /\ app' = [app EXCEPT ![p].held[id] = 0]
    /\ UNCHANGED <<net, calls, stranded>>

-----------------------------------------------------------------------------
(* nghttp2_session_send and nghttp2_session_recv.                          *)

\* nghttp2_session_pop_next_ob_item looks at the queues in this order.
PopUrgent(p) ==
    /\ ses[p].urgent # <<>>
    /\ ses' = [ses EXCEPT ![p] =
                 PrepControl([ses[p] EXCEPT !.urgent = Tail(@)], Head(ses[p].urgent))]
    /\ UNCHANGED app

PopRegular(p) ==
    /\ ses[p].urgent = <<>> /\ ses[p].reg # <<>>
    /\ ses' = [ses EXCEPT ![p] =
                 PrepControl([ses[p] EXCEPT !.reg = Tail(@)], Head(ses[p].reg))]
    /\ UNCHANGED app

SynReady(s) == s.syn # <<>> /\ ~session_is_outgoing_concurrent_streams_max(s)

PopRequest(p) ==
    /\ ses[p].urgent = <<>> /\ ses[p].reg = <<>> /\ SynReady(ses[p])
    /\ ses' = [ses EXCEPT ![p] =
                 PrepRequest([ses[p] EXCEPT !.syn = Tail(@)], Head(ses[p].syn))]
    /\ UNCHANGED app

\* The scheduler may take any stream that has DATA to send.
PopData(p) ==
    /\ ses[p].urgent = <<>> /\ ses[p].reg = <<>> /\ ~SynReady(ses[p])
    /\ ses[p].remote_win > 0
    /\ \E id \in Sendable(ses[p]) :
         LET t == PrepData(ses[p], id, app[p].left[id])
         IN /\ ses' = [ses EXCEPT ![p] = t]
            /\ app' = IF t.aob = <<>> THEN app
                      ELSE [app EXCEPT ![p].left[id] = @ - t.aob[1].len]

Pop(p) ==
    /\ ses[p].aob = <<>> /\ ~Gone(p)
    /\ PopUrgent(p) \/ PopRegular(p) \/ PopRequest(p) \/ PopData(p)
    /\ UNCHANGED <<net, calls, stranded>>

\* What the peer sees of a prepared frame.
Wire(f) ==
    CASE f.type = "HEADERS" -> [type |-> "HEADERS", id |-> f.id, end |-> f.end]
      [] f.type = "GOAWAY" -> [type |-> "GOAWAY", last |-> f.last]
      [] OTHER -> f

\* The last byte of the prepared frame was written.
Sent(p) ==
    /\ ses[p].aob # <<>> /\ ~Gone(p) /\ Len(net[Peer(p)]) < SockBuf
    /\ LET f == ses[p].aob[1]
       IN /\ ses' = [ses EXCEPT ![p] = session_after_frame_sent(@, f)]
          /\ net' = [net EXCEPT ![Peer(p)] = Append(@, Wire(f))]
          /\ app' = IF p = "s" /\ f.type = "HEADERS"
                    THEN [app EXCEPT ![p].answered = @ \cup {f.id}] ELSE app
    /\ stranded' = (stranded \/ Late(ses'[p]))
    /\ UNCHANGED calls

\* nghttp2_session_mem_recv, called for each frame.
Recv(p) ==
    /\ net[p] # <<>> /\ ~Gone(p)
    /\ LET f == Head(net[p])
       IN /\ ses' = [ses EXCEPT ![p] = nghttp2_session_mem_recv(@, f)]
          /\ net' = [net EXCEPT ![p] = Tail(@)]
          /\ app' = IF Delivers(ses[p], f)
                    THEN [app EXCEPT ![p].got[f.id] = @ + f.len,
                                     ![p].held[f.id] = IF NoAutoWindowUpdate THEN @ + f.len
                                                       ELSE @]
                    ELSE app
    /\ UNCHANGED <<calls, stranded>>

Next ==
    \/ SubmitRequest
    \/ \E id \in Ids : SubmitResponse(id)
    \/ \E p \in Sides :
         \/ \E id \in Ids : SubmitRstStream(p, id) \/ Consume(p, id)
         \/ \E iv \in Changes[p] : SubmitSettings(p, iv)
         \/ SubmitGoaway(p) \/ SubmitShutdownNotice(p) \/ Terminate(p)
         \/ Pop(p) \/ Sent(p) \/ Recv(p)

Spec == Init /\ [][Next]_vars
-----------------------------------------------------------------------------
(* Properties.                                                             *)

Frames == [type : {"HEADERS", "DATA", "RST_STREAM", "SETTINGS", "ACK", "GOAWAY",
                   "WINDOW_UPDATE"}]
IsFrame(f) == \E t \in Frames : f.type = t.type

\* The sessions, the connection and the applications keep their types.
TypeOK ==
    /\ \A p \in Sides :
         LET s == ses[p] IN
         /\ s.server = (p = "s") /\ DOMAIN s.streams \subseteq Ids
         /\ \A id \in DOMAIN s.streams :
              /\ s.streams[id].state \in {"initial", "opening", "opened", "closing"}
              /\ s.streams[id].item \in {"none", "ready", "deferred"}
              /\ s.streams[id].remote_win \in -MaxWindow..MaxWindow
              /\ s.streams[id].local_win \in -MaxWindow..MaxWindow
              /\ s.streams[id].recv_win \in 0..MaxWindow
         /\ s.goaway \subseteq {"submitted", "sent", "recv", "term_on_send", "term_sent"}
         /\ s.reason \in [Ids -> Reasons] /\ s.error \in Errors
         /\ \A f \in Range(s.urgent \o s.reg \o s.syn \o s.aob \o net[p]) : IsFrame(f)
         /\ app[p].left \in [Ids -> 0..BodyLen[p]]
         /\ app[p].got \in [Ids -> 0..BodyLen[Peer(p)]]
    /\ calls \in 0..MaxCalls /\ stranded \in BOOLEAN

\* Requests have bodies, and the server reset one or the client submitted a GOAWAY.  A
\* server that resets a stream while its last DATA is being written ignores the
\* END_STREAM of the client and goes on to count the stream; one whose last stream ends
\* with the client's DATA after a GOAWAY drops the RST_STREAMs it has queued.
CutShort == BodyLen["c"] > 0 /\ (app["s"].reset # {} \/ app["c"].quit)

\* Two sessions of this library do not accuse each other: however their SETTINGS, resets
\* and GOAWAYs cross the requests and the data, no frame that arrives makes
\* nghttp2_session_mem_recv terminate the session.  It rests on limits being enforced
\* only from the ACK of their SETTINGS on, and on the ACK overtaking every queued frame
\* (ob_urgent).  There are two exceptions: a request was sent behind the client's own
\* GOAWAY, when both ends may have dropped frames (Late), and CutShort.
NoConnectionError == stranded \/ CutShort \/ \A p \in Sides : ses[p].error = "none"

\* No stream is reset for exceeding its window: the peer sent only what
\* nghttp2_session_next_data_read allowed it.
NoFlowControlReset ==
    \A p \in Sides, id \in Ids :
       /\ ses[p].reason[id] # "flow_control"
       /\ \A f \in Range(ses[p].reg) : f.type = "RST_STREAM" => f.error # "flow_control"

\* Both ends read and answer what arrives, and did so while a request waited (Late).
Healthy == /\ ~stranded
           /\ \A p \in Sides : nghttp2_session_want_read(ses[p])
                               /\ "term_on_send" \notin ses[p].goaway

DataTo(p, id) ==
    FoldSeq(LAMBDA f, n : n + (IF f.type = "DATA" /\ id \in {0, f.id} THEN f.len ELSE 0),
            0, net[p])

\* The increments of the WINDOW_UPDATEs that p queued or sent for id and its peer has
\* not seen.
Granted(p, id) ==
    LET wus == SelectSeq(ses[p].reg \o ses[p].aob \o net[Peer(p)],
                         LAMBDA f : f.type = "WINDOW_UPDATE" /\ f.id = id)
    IN FoldSeq(LAMBDA f, n : n + f.inc, 0, wus)

\* The connection window: what the sender may still send, what is on its way, what the
\* receiver has not given back and what it is giving back add up to the receiver's
\* window, also when DATA arrives for a stream that is gone (IB_IGN_DATA) or is
\* consumed after its stream was closed.
ConnectionWindowConserved ==
    Healthy => \A p \in Sides :
        LET q == Peer(p)
        IN ses[p].remote_win + DataTo(q, 0) + ses[q].recv_win + Granted(q, 0)
             = ses[q].local_win

\* What was received and not given back is in the hands of the application, or was
\* consumed and waits for a WINDOW_UPDATE: the payload of streams that were reset or
\* closed while it was on its way does not shrink the connection window for good.
NoWindowLeak ==
    Healthy /\ NoAutoWindowUpdate => \A p \in Sides :
        ses[p].recv_win = ses[p].consumed
                           + FoldSet(LAMBDA id, n : n + app[p].held[id], 0, Ids)

\* RST_STREAM waits to be sent for the stream, whose state may say "closing" or, when a
\* HEADERS was being written meanwhile, "opening" or "opened" again.
Resetting(p, id) ==
    \/ ses[p].streams[id].state = "closing"
    \/ \E f \in Range(ses[p].reg \o ses[p].aob) : f.type = "RST_STREAM" /\ f.id = id

\* The same for a stream both ends have open, relative to the initial window each of
\* them reckons with while a SETTINGS frame or its ACK is on the way.
StreamWindowConserved ==
    Healthy => \A p \in Sides, id \in Ids :
        LET q == Peer(p)
            a == ses[p].streams[id]
            b == ses[q].streams[id]
        IN Live(ses[p], id) /\ Live(ses[q], id) /\ ~Resetting(p, id) /\ ~Resetting(q, id)
           => a.remote_win - ses[p].remote_iw + DataTo(q, id) + b.recv_win + Granted(q, id)
                = b.local_win - ses[q].local_iw

\* Flow control is exact at both levels: no octet of a window is lost, for one stream or
\* for all of them, and none is counted twice, whatever resets, shrinking windows and
\* GOAWAYs cross the data, except behind a GOAWAY of the client (Late).
WindowsConserved == ConnectionWindowConserved /\ NoWindowLeak /\ StreamWindowConserved

\* num_outgoing_streams and num_incoming_streams count the open streams exactly, on
\* every path that opens or closes one.
StreamsCounted == \A p \in Sides : ses[p].num = Cardinality(Active(ses[p]))

\* A request that the client's application is told was refused, and may therefore send
\* again on another connection, got no response.
RefusedNotAnswered ==
    \A id \in Ids : ses["c"].reason[id] = "refused" => id \notin app["s"].answered

\* A stream that ended without error carried both bodies completely.
CleanEndIsComplete ==
    \A p \in Sides, id \in Ids :
       ses[p].reason[id] = "no_error"
         => app[p].left[id] = 0 /\ app[p].got[id] = BodyLen[Peer(p)]

\* When nothing is queued or on the way, both ends have the same streams open: none is
\* left behind at one end by a reset, a refusal or a GOAWAY that crossed a request,
\* with the two exceptions of NoConnectionError.
StreamsAgree ==
    ~stranded /\ ~CutShort /\ (\A p \in Sides : /\ net[p] = <<>> /\ "term_on_send" \notin ses[p].goaway
                                              /\ ses[p].urgent \o ses[p].reg \o ses[p].syn \o ses[p].aob = <<>>)
      => Active(ses["c"]) = Active(ses["s"])

-----------------------------------------------------------------------------
(* Liveness.                                                               *)

\* What an application owes: a response, or that it consumes what it was handed.
Serve(p) == \E id \in Ids : Consume(p, id) \/ (p = "s" /\ SubmitResponse(id))

\* The event loops keep calling nghttp2_session_send and _recv while they want to
\* write and read, the server answers every request it was handed, and whoever gets
\* data consumes it.  Nobody has to make a request, change settings or reset anything.
FairSpec ==
    /\ Spec
    /\ \A p \in Sides :
         WF_vars(Pop(p)) /\ WF_vars(Sent(p)) /\ WF_vars(Recv(p)) /\ WF_vars(Serve(p))

\* The requests whose end the client's application waits for.
Waiting == {id \in Ids : id < ses["c"].next_id /\ ses["c"].reason[id] = "open"}

\* Every request ends (answered, reset or refused) unless an application drops the
\* connection, or sends requests behind its GOAWAY (Late).  No stream waits forever for
\* a window, for a place under the peer's limit, or for an end that the other side
\* believes it has sent.
RequestsEnd == []<>(stranded \/ Waiting = {} \/ \E p \in Sides : Gone(p))
=============================================================================
