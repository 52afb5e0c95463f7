-------------------------- MODULE Http2RefusedProof --------------------------
(***************************************************************************)
(* A request that the client's application is told was refused got no      *)
(* response, on every HTTP/2 connection of Http2 (RefusedNotAnswered).     *)
(*                                                                         *)
(* The client is told so by an RST_STREAM, by a GOAWAY, or because its own *)
(* request was given up before it was sent.  Each of these must come only  *)
(* for streams to which no response was written and none ever will be: the *)
(* set Doom, which no step of either end or of the connection shrinks.     *)
(* The hard part is the server's GOAWAY: responses queued before it, the   *)
(* frame that is being written while it is queued, and requests that       *)
(* arrive while it waits.                                                  *)
(***************************************************************************)
EXTENDS Http2Proof

-----------------------------------------------------------------------------
(* The invariant.                                                          *)

\* The streams that the HEADERS and the refusing RST_STREAMs among the frames q are for.
HeadersIds(q) == {id \in Ids : \E i \in 1..Len(q) : q[i].type = "HEADERS" /\ q[i].id = id}
RstIds(q) == {id \in Ids : \E i \in 1..Len(q) :
                 q[i].type = "RST_STREAM" /\ q[i].error = "refused" /\ q[i].id = id}

\* The streams that the frames q, once received, end as refused.
Told(q) == {id \in Ids : \E i \in 1..Len(q) : id \in RefusedBy(q[i])}

\* The frame being written is a GOAWAY after which id will be closed.
Closing(S, id) ==
    /\ S.aob # <<>> /\ S.aob[1].type = "GOAWAY"
    /\ S.aob[1].aux # "notice" /\ S.aob[1].last < id

\* The server may still answer id.
WillAnswer(S, id) == id \in Active(S) /\ ~Closing(S, id)

\* What holds of the GOAWAY that waits as the j-th frame of ob_reg: a stream beyond its
\* last_stream_id got no response, none is being written, and those that wait before the
\* GOAWAY will be dropped.
GoawayQueued(S, A, j) ==
    /\ "submitted" \in S.goaway
    /\ S.reg[j].aux = "notice" => S.reg[j].last >= LastStream
    /\ \A id \in Ids : id > S.reg[j].last =>
          /\ id \notin A /\ id \notin HeadersIds(S.aob)
          /\ \A i \in 1..(j - 1) : S.reg[i].type = "HEADERS" /\ S.reg[i].id = id
                                     => ~WillAnswer(S, id)

\* What the server's session says of the responses A that went out.
ServerPart(S, A) ==
    /\ Len(S.aob) <= 1
    /\ \A id \in A \cup HeadersIds(S.aob) \cup HeadersIds(S.reg) : id <= S.last_proc
    /\ \A j \in 1..Len(S.reg) : S.reg[j].type = "GOAWAY" => GoawayQueued(S, A, j)
    /\ S.aob # <<>> /\ S.aob[1].type = "GOAWAY"
         => /\ S.local_last = S.aob[1].last
            /\ S.aob[1].aux = "notice" => S.local_last >= LastStream
    /\ \A id \in Ids : id > S.local_last =>
          id \notin A /\ id \notin HeadersIds(S.aob) /\ ~WillAnswer(S, id)
    /\ S.local_last < LastStream =>
          /\ "submitted" \in S.goaway
          /\ \/ "sent" \in S.goaway
             \/ S.aob # <<>> /\ S.aob[1].type = "GOAWAY" /\ S.aob[1].aux # "notice"

\* What the client's session and the frames N on their way to the server say.
ClientPart(c, N) ==
    /\ Len(c.aob) <= 1
    /\ HeadersIds(c.reg) = {} /\ RstIds(c.reg) = {} /\ RstIds(c.aob) = {}
    /\ \A id \in HeadersIds(c.aob) \cup HeadersIds(N) : id <= c.last_sent

\* The ids the client used and gave up: no HEADERS with them is on its way to the server.
Unsent(c, N) ==
    {id \in Ids : id < c.next_id
                  /\ id \notin HeadersIds(c.syn) \cup HeadersIds(c.aob) \cup HeadersIds(N)}

\* The streams to which no response went out and none ever will.
Doom(c, S, A, N) ==
    {id \in Ids : /\ id \notin A /\ id \notin Active(S) /\ id \notin HeadersIds(S.aob)
                  /\ "sent" \in S.goaway \/ id <= S.last_recv \/ id \in Unsent(c, N)}

Ended(c) == {id \in Ids : c.reason[id] = "refused"}

\* What tells the client that streams were refused tells the truth.
Truth(c, S, A, N, M) ==
    RstIds(S.reg) \cup RstIds(S.aob) \cup Told(M) \cup Ended(c) \subseteq Doom(c, S, A, N)

Conn(c, S, A, N, M) ==
    /\ ServerPart(S, A) /\ ClientPart(c, N) /\ S.last_recv <= c.last_sent
    /\ Truth(c, S, A, N, M)

Inv2 == Conn(ses["c"], ses["s"], app["s"].answered, net["s"], net["c"])

-----------------------------------------------------------------------------
(* Frames in sequences.                                                    *)

LEMMA EmptyIds == HeadersIds(<<>>) = {} /\ RstIds(<<>>) = {} /\ Told(<<>>) = {}
  BY DEF HeadersIds, RstIds, Told

LEMMA OneIds ==
    ASSUME NEW f
    PROVE  /\ \A id : id \in HeadersIds(<<f>>) <=> id \in Ids /\ f.type = "HEADERS" /\ f.id = id
           /\ \A id : id \in RstIds(<<f>>) <=> id \in Ids /\ f.type = "RST_STREAM"
                                               /\ f.error = "refused" /\ f.id = id
  BY DEF HeadersIds, RstIds

LEMMA AppendIds ==
    ASSUME NEW T, NEW q \in Seq(T), NEW f \in T
    PROVE  /\ HeadersIds(q) \subseteq HeadersIds(Append(q, f))
           /\ \A id : id \in HeadersIds(Append(q, f)) =>
                 id \in HeadersIds(q) \/ (f.type = "HEADERS" /\ f.id = id)
           /\ \A id : id \in RstIds(Append(q, f)) =>
                 \/ id \in RstIds(q)
                 \/ f.type = "RST_STREAM" /\ f.error = "refused" /\ f.id = id
           /\ Told(Append(q, f)) = Told(q) \cup RefusedBy(f)
<1> DEFINE a == Append(q, f)
<1>1. /\ Len(q) \in Nat /\ Len(a) = Len(q) + 1
      /\ \A i \in 1..Len(q) : a[i] = q[i]
      /\ a[Len(q) + 1] = f
  OBVIOUS
<1> HIDE DEF a
<1>2. \A i \in 1..Len(a) : i \in 1..Len(q) \/ i = Len(q) + 1
  BY <1>1
<1>3. \A i \in 1..Len(q) : i \in 1..Len(a)
  BY <1>1
<1>4. Len(q) + 1 \in 1..Len(a)
  BY <1>1
<1>5. HeadersIds(q) \subseteq HeadersIds(a)
  BY <1>1, <1>3 DEF HeadersIds
<1>6. \A id : id \in HeadersIds(a) => id \in HeadersIds(q) \/ (f.type = "HEADERS" /\ f.id = id)
  BY <1>1, <1>2 DEF HeadersIds
<1>7. \A id : id \in RstIds(a) =>
         \/ id \in RstIds(q)
         \/ f.type = "RST_STREAM" /\ f.error = "refused" /\ f.id = id
  BY <1>1, <1>2 DEF RstIds
<1>8. Told(a) = Told(q) \cup RefusedBy(f)
  <2>1. RefusedBy(f) \subseteq Ids
    BY DEF RefusedBy
  <2>2. Told(a) \subseteq Told(q) \cup RefusedBy(f)
    BY <1>1, <1>2 DEF Told
  <2>3. Told(q) \subseteq Told(a) /\ RefusedBy(f) \subseteq Told(a)
    BY <1>1, <1>3, <1>4, <2>1 DEF Told
  <2> QED
    BY <2>2, <2>3
<1> QED
  BY <1>5, <1>6, <1>7, <1>8 DEF a

LEMMA TailIds ==
    ASSUME NEW T, NEW q \in Seq(T), q # <<>>
    PROVE  /\ HeadersIds(Tail(q)) \subseteq HeadersIds(q)
           /\ RstIds(Tail(q)) \subseteq RstIds(q)
           /\ Told(Tail(q)) \subseteq Told(q) /\ RefusedBy(Head(q)) \subseteq Told(q)
           /\ \A id : id \in HeadersIds(q) =>
                 \/ id \in HeadersIds(Tail(q))
                 \/ Head(q).type = "HEADERS" /\ Head(q).id = id
           /\ \A id \in Ids : Head(q).type = "HEADERS" /\ Head(q).id = id => id \in HeadersIds(q)
           /\ \A id \in Ids :
                 Head(q).type = "RST_STREAM" /\ Head(q).error = "refused" /\ Head(q).id = id
                 => id \in RstIds(q)
<1> DEFINE t == Tail(q)
           h == Head(q)
<1>1. /\ Len(q) \in Nat /\ Len(q) > 0 /\ Len(t) = Len(q) - 1 /\ h = q[1]
      /\ \A i \in 1..Len(t) : t[i] = q[i + 1]
  OBVIOUS
<1> HIDE DEF t, h
<1>2. 1 \in 1..Len(q) /\ \A i \in 1..Len(t) : i + 1 \in 1..Len(q)
  BY <1>1
<1>3. \A i \in 1..Len(q) : i = 1 \/ (i - 1 \in 1..Len(t) /\ t[i - 1] = q[i])
  BY <1>1
<1>4. HeadersIds(t) \subseteq HeadersIds(q) /\ RstIds(t) \subseteq RstIds(q)
  BY <1>1, <1>2 DEF HeadersIds, RstIds
<1>5. Told(t) \subseteq Told(q)
  BY <1>1, <1>2 DEF Told
<1>6. RefusedBy(h) \subseteq Told(q)
  <2>1. RefusedBy(h) \subseteq Ids
    BY DEF RefusedBy
  <2> QED
    BY <1>1, <1>2, <2>1 DEF Told
<1>7. \A id : id \in HeadersIds(q) =>
         id \in HeadersIds(t) \/ (h.type = "HEADERS" /\ h.id = id)
  BY <1>1, <1>3 DEF HeadersIds
<1>8. \A id \in Ids : h.type = "HEADERS" /\ h.id = id => id \in HeadersIds(q)
  BY <1>1, <1>2 DEF HeadersIds
<1>9. \A id \in Ids : h.type = "RST_STREAM" /\ h.error = "refused" /\ h.id = id
                        => id \in RstIds(q)
  BY <1>1, <1>2 DEF RstIds
<1> QED
  BY <1>4, <1>5, <1>6, <1>7, <1>8, <1>9 DEF t, h

\* What waits in the queues after a function that only moves the session.
LEMMA MovedIds ==
    ASSUME NEW s, SessionInv(s), NEW t, NEW R, Moved(s, t, R)
    PROVE  /\ HeadersIds(t.reg) = HeadersIds(s.reg) /\ RstIds(t.reg) = RstIds(s.reg)
           /\ HeadersIds(t.syn) = HeadersIds(s.syn)
<1>1. /\ Len(s.reg) \in Nat /\ Len(t.reg) \in Nat /\ Len(s.reg) <= Len(t.reg)
      /\ \A i \in 1..Len(s.reg) : t.reg[i] = s.reg[i]
      /\ \A i \in Len(s.reg) + 1 .. Len(t.reg) : Harmless(s, t, t.reg[i])
      /\ s \in Session /\ t \in Session
  BY Lengths DEF Moved, Follows, SessionInv
<1>2. \A i \in 1..Len(t.reg) : i \in 1..Len(s.reg) \/ i \in Len(s.reg) + 1 .. Len(t.reg)
  BY <1>1
<1>3. \A i \in 1..Len(s.reg) : i \in 1..Len(t.reg)
  BY <1>1
<1>4. HeadersIds(t.reg) = HeadersIds(s.reg) /\ RstIds(t.reg) = RstIds(s.reg)
  BY <1>1, <1>2, <1>3 DEF HeadersIds, RstIds, Harmless
<1>5. HeadersIds(t.syn) = HeadersIds(s.syn)
  <2>1. Len(t.syn) = Len(s.syn) /\ \A i \in 1..Len(s.syn) : t.syn[i].id = s.syn[i].id
    BY DEF Moved, Follows
  <2>2. s.syn \in Seq(RequestItems) /\ t.syn \in Seq(RequestItems)
    BY <1>1 DEF Session
  <2>3. \A i \in 1..Len(s.syn) : s.syn[i].type = "HEADERS" /\ t.syn[i].type = "HEADERS"
    <3>1. \A i \in 1..Len(s.syn) : s.syn[i] \in RequestItems /\ t.syn[i] \in RequestItems
      BY <2>1, <2>2
    <3> QED
      BY <3>1 DEF RequestItems
  <2> QED
    BY <2>1, <2>3 DEF HeadersIds
<1> QED
  BY <1>4, <1>5

-----------------------------------------------------------------------------
(* The server.                                                             *)

\* T comes from the server S without preparing a frame: the frame being written may have
\* left, responses to it may have gone out, frames are added to ob_reg, and a stream that
\* is open only now is new and not beyond the last GOAWAY.
ServerStep(S, T, A, B) ==
    /\ B \subseteq A \cup HeadersIds(S.aob)
    /\ S.last_proc <= T.last_proc /\ T.local_last = S.local_last /\ S.goaway \subseteq T.goaway
    /\ \/ T.aob = S.aob
       \/ T.aob = <<>> /\ (T.local_last < LastStream => "sent" \in T.goaway)
    /\ Len(S.reg) <= Len(T.reg) /\ \A i \in 1..Len(S.reg) : T.reg[i] = S.reg[i]
    /\ \A j \in Len(S.reg) + 1 .. Len(T.reg) :
          /\ T.reg[j].type = "HEADERS" => T.reg[j].id <= T.last_proc
          /\ T.reg[j].type = "GOAWAY" => GoawayQueued(T, B, j)
    /\ \A id \in Ids : /\ WillAnswer(T, id)
                       /\ id <= S.last_proc \/ id > S.local_last
                       => WillAnswer(S, id)

LEMMA ServerStepped ==
    ASSUME NEW S \in Session, NEW T \in Session, NEW A \in SUBSET Ids, NEW B,
           ServerPart(S, A), ServerStep(S, T, A, B)
    PROVE  ServerPart(T, B)
<1>1. /\ Len(S.reg) \in Nat /\ Len(T.reg) \in Nat /\ Len(S.reg) <= Len(T.reg)
      /\ \A i \in 1..Len(S.reg) : T.reg[i] = S.reg[i]
      /\ S.last_proc \in Nat /\ T.last_proc \in Nat /\ S.last_proc <= T.last_proc
      /\ T.local_last = S.local_last /\ S.goaway \subseteq T.goaway
  <2>1. S.last_proc \in Nat /\ T.last_proc \in Nat
    BY DEF Session
  <2> QED
    BY <2>1, Lengths DEF ServerStep
<1>2. HeadersIds(T.aob) \subseteq HeadersIds(S.aob) /\ Len(T.aob) <= 1
  <2>1. CASE T.aob = S.aob
    BY <2>1 DEF ServerPart
  <2>2. CASE T.aob = <<>>
    BY <2>2, EmptyIds
  <2> QED
    BY <2>1, <2>2 DEF ServerStep
<1>3. B \subseteq A \cup HeadersIds(S.aob)
  BY DEF ServerStep
<1>4. \A i \in 1..Len(T.reg) : i \in 1..Len(S.reg) \/ i \in Len(S.reg) + 1 .. Len(T.reg)
  BY <1>1
<1>5. \A id \in B \cup HeadersIds(T.aob) \cup HeadersIds(T.reg) : id <= T.last_proc
  <2> SUFFICES ASSUME NEW id \in B \cup HeadersIds(T.aob) \cup HeadersIds(T.reg)
               PROVE  id <= T.last_proc
    OBVIOUS
  <2>1. id \in Nat
    BY <1>3, IdsNat DEF HeadersIds
  <2>2. CASE id \in A \cup HeadersIds(S.aob) \cup HeadersIds(S.reg)
    BY <1>1, <2>1, <2>2 DEF ServerPart
  <2>3. CASE id \in HeadersIds(T.reg)
    <3>1. PICK i \in 1..Len(T.reg) : T.reg[i].type = "HEADERS" /\ T.reg[i].id = id
      BY <2>3 DEF HeadersIds
    <3>2. CASE i \in 1..Len(S.reg)
      <4>1. id \in HeadersIds(S.reg)
        BY <1>1, <2>3, <3>1, <3>2 DEF HeadersIds
      <4> QED
        BY <2>2, <4>1
    <3>3. CASE i \in Len(S.reg) + 1 .. Len(T.reg)
      BY <3>1, <3>3 DEF ServerStep
    <3> QED
      BY <1>4, <3>2, <3>3
  <2> QED
    BY <1>2, <1>3, <2>2, <2>3
<1>6. \A j \in 1..Len(T.reg) : T.reg[j].type = "GOAWAY" => GoawayQueued(T, B, j)
  <2> SUFFICES ASSUME NEW j \in 1..Len(T.reg), T.reg[j].type = "GOAWAY"
               PROVE  GoawayQueued(T, B, j)
    OBVIOUS
  <2>1. CASE j \in Len(S.reg) + 1 .. Len(T.reg)
    BY <2>1 DEF ServerStep
  <2>2. CASE j \in 1..Len(S.reg)
    <3>1. GoawayQueued(S, A, j) /\ T.reg[j] = S.reg[j]
      BY <1>1, <2>2 DEF ServerPart
    <3> SUFFICES ASSUME NEW id \in Ids, id > S.reg[j].last
                 PROVE  /\ id \notin B /\ id \notin HeadersIds(T.aob)
                        /\ \A i \in 1..(j - 1) : T.reg[i].type = "HEADERS" /\ T.reg[i].id = id
                                                   => ~WillAnswer(T, id)
      BY <1>1, <3>1 DEF GoawayQueued
    <3>2. id \notin A /\ id \notin HeadersIds(S.aob)
      BY <3>1 DEF GoawayQueued
    <3>3. ASSUME NEW i \in 1..(j - 1), T.reg[i].type = "HEADERS", T.reg[i].id = id
          PROVE  ~WillAnswer(T, id)
      <4>1. i \in 1..Len(S.reg) /\ T.reg[i] = S.reg[i]
        BY <1>1, <2>2
      <4>2. ~WillAnswer(S, id)
        BY <3>1, <3>3, <4>1 DEF GoawayQueued
      <4>3. id \in HeadersIds(S.reg)
        BY <3>3, <4>1 DEF HeadersIds
      <4>4. id <= S.last_proc
        BY <4>3 DEF ServerPart
      <4> QED
        BY <4>2, <4>4 DEF ServerStep
    <3> QED
      BY <1>2, <1>3, <3>2, <3>3
  <2> QED
    BY <1>4, <2>1, <2>2
<1>7. T.aob # <<>> /\ T.aob[1].type = "GOAWAY"
         => /\ T.local_last = T.aob[1].last
            /\ T.aob[1].aux = "notice" => T.local_last >= LastStream
  BY DEF ServerStep, ServerPart
<1>8. \A id \in Ids : id > T.local_last =>
         id \notin B /\ id \notin HeadersIds(T.aob) /\ ~WillAnswer(T, id)
  <2> SUFFICES ASSUME NEW id \in Ids, id > S.local_last
               PROVE  id \notin B /\ id \notin HeadersIds(T.aob) /\ ~WillAnswer(T, id)
    BY <1>1
  <2>1. id \notin A /\ id \notin HeadersIds(S.aob) /\ ~WillAnswer(S, id)
    BY DEF ServerPart
  <2> QED
    BY <1>2, <1>3, <2>1 DEF ServerStep
<1>9. T.local_last < LastStream =>
         /\ "submitted" \in T.goaway
         /\ \/ "sent" \in T.goaway
            \/ T.aob # <<>> /\ T.aob[1].type = "GOAWAY" /\ T.aob[1].aux # "notice"
  <2> SUFFICES ASSUME S.local_last < LastStream
               PROVE  /\ "submitted" \in T.goaway
                      /\ \/ "sent" \in T.goaway
                         \/ T.aob # <<>> /\ T.aob[1].type = "GOAWAY" /\ T.aob[1].aux # "notice"
    BY <1>1
  <2>1. /\ "submitted" \in S.goaway
        /\ \/ "sent" \in S.goaway
           \/ S.aob # <<>> /\ S.aob[1].type = "GOAWAY" /\ S.aob[1].aux # "notice"
    BY DEF ServerPart
  <2> QED
    BY <1>1, <2>1 DEF ServerStep
<1> QED
  BY <1>2, <1>5, <1>6, <1>7, <1>8, <1>9 DEF ServerPart

\* T has no responses that S has not.
Quieter(S, T, A, B) ==
    /\ B \subseteq A \cup HeadersIds(S.aob)
    /\ HeadersIds(T.aob) \subseteq HeadersIds(S.aob)
    /\ HeadersIds(T.reg) \subseteq HeadersIds(S.reg)
    /\ \A id \in Ids : WillAnswer(T, id) => WillAnswer(S, id)

\* The GOAWAY of a function that only moves the session refuses nothing that is answered.
LEMMA GoawayAdded ==
    ASSUME NEW S, SessionInv(S), NEW T, NEW A \in SUBSET Ids, NEW B,
           ServerPart(S, A), Quieter(S, T, A, B), T.reg \in Seq(RegularItems),
           NEW j \in 1..Len(T.reg), T.reg[j].type = "GOAWAY", Harmless(S, T, T.reg[j])
    PROVE  GoawayQueued(T, B, j)
<1> DEFINE last == T.reg[j].last
<1>1. /\ "submitted" \in T.goaway /\ T.reg[j].aux # "notice"
      /\ last = LeastOf(S.last_proc, S.local_last) \/ last = LeastOf(S.last_recv, S.local_last)
  BY DEF Harmless
<1>2. /\ S.last_proc \in Nat /\ S.last_recv \in Nat /\ S.local_last \in Int
  BY DEF SessionInv, Session
<1>3. S.last_proc <= S.last_recv
  BY DEF SessionInv
<1> HIDE DEF last
<1> SUFFICES ASSUME NEW id \in Ids, id > last
             PROVE  /\ id \notin B /\ id \notin HeadersIds(T.aob)
                    /\ \A i \in 1..(j - 1) : T.reg[i].type = "HEADERS" /\ T.reg[i].id = id
                                               => ~WillAnswer(T, id)
  BY <1>1 DEF GoawayQueued, last
<1>4. id \in Nat
  BY IdsNat
<1>5. id > S.last_proc \/ id > S.local_last
  BY <1>1, <1>2, <1>3, <1>4 DEF LeastOf
<1>6. CASE id > S.last_proc
  <2>1. id \notin A \cup HeadersIds(S.aob) \cup HeadersIds(S.reg)
    <3>1. \A i \in A \cup HeadersIds(S.aob) \cup HeadersIds(S.reg) : i <= S.last_proc
      BY DEF ServerPart
    <3> QED
      BY <1>2, <1>4, <1>6, <3>1
  <2>2. id \notin HeadersIds(T.reg) /\ id \notin B /\ id \notin HeadersIds(T.aob)
    BY <2>1 DEF Quieter
  <2>3. \A i \in 1..(j - 1) : ~(T.reg[i].type = "HEADERS" /\ T.reg[i].id = id)
    <3>1. Len(T.reg) \in Nat
      OBVIOUS
    <3>2. \A i \in 1..(j - 1) : i \in 1..Len(T.reg)
      BY <3>1
    <3> QED
      BY <2>2, <3>2 DEF HeadersIds
  <2> QED
    BY <2>2, <2>3
<1>7. CASE id > S.local_last
  <2>1. id \notin A /\ id \notin HeadersIds(S.aob) /\ ~WillAnswer(S, id)
    BY <1>7 DEF ServerPart
  <2> QED
    BY <2>1 DEF Quieter
<1> QED
  BY <1>5, <1>6, <1>7

\* A function that only moves the server's session, after its frame left or not.
LEMMA ServerMoved ==
    ASSUME NEW S, SessionInv(S), NEW W, SessionInv(W), NEW T, NEW R,
           NEW A \in SUBSET Ids, NEW B, ServerPart(S, A), Moved(W, T, R),
           W.reg = S.reg, W.last_proc = S.last_proc, W.last_recv = S.last_recv,
           W.local_last = S.local_last, S.goaway \subseteq W.goaway,
           \/ W.aob = S.aob
           \/ W.aob = <<>> /\ (S.local_last < LastStream => "sent" \in W.goaway),
           B \subseteq A \cup HeadersIds(S.aob),
           \A id \in Ids : WillAnswer(T, id) => WillAnswer(S, id)
    PROVE  ServerPart(T, B)
<1>1. /\ S \in Session /\ W \in Session /\ T \in Session
      /\ T.aob = W.aob /\ T.last_proc = S.last_proc /\ T.local_last = S.local_last
      /\ S.goaway \subseteq T.goaway /\ W.goaway \subseteq T.goaway
      /\ Len(S.reg) <= Len(T.reg) /\ \A i \in 1..Len(S.reg) : T.reg[i] = S.reg[i]
      /\ \A i \in Len(S.reg) + 1 .. Len(T.reg) : Harmless(W, T, T.reg[i])
  BY DEF SessionInv, Moved, Follows
<1>2. T.reg \in Seq(RegularItems) /\ Len(S.reg) \in Nat /\ Len(T.reg) \in Nat
      /\ S.last_proc \in Nat
  <2>1. T.reg \in Seq(RegularItems)
    BY <1>1 DEF Session
  <2>2. S.last_proc \in Nat
    BY <1>1 DEF Session
  <2> QED
    BY <1>1, <2>1, <2>2, Lengths
<1>3. HeadersIds(T.aob) \subseteq HeadersIds(S.aob)
  BY <1>1, EmptyIds
<1>4. HeadersIds(T.reg) = HeadersIds(S.reg)
  BY MovedIds
<1>5. Quieter(S, T, A, B)
  BY <1>3, <1>4 DEF Quieter
<1>6. \A j \in Len(S.reg) + 1 .. Len(T.reg) :
         /\ T.reg[j].type = "HEADERS" => T.reg[j].id <= T.last_proc
         /\ T.reg[j].type = "GOAWAY" => GoawayQueued(T, B, j)
  <2> SUFFICES ASSUME NEW j \in Len(S.reg) + 1 .. Len(T.reg)
               PROVE  /\ T.reg[j].type # "HEADERS"
                      /\ T.reg[j].type = "GOAWAY" => GoawayQueued(T, B, j)
    OBVIOUS
  <2>1. Harmless(S, T, T.reg[j]) /\ T.reg[j].type # "HEADERS"
    BY <1>1 DEF Harmless
  <2>2. j \in 1..Len(T.reg)
    BY <1>2
  <2> QED
    BY <1>2, <1>5, <2>1, <2>2, GoawayAdded
<1>7. ServerStep(S, T, A, B)
  BY <1>1, <1>2, <1>6 DEF ServerStep
<1> QED
  BY <1>1, <1>7, ServerStepped

-----------------------------------------------------------------------------
(* The connection: what a step of one end does.                            *)

Ready(c, S, A, N, M) ==
    /\ SessionInv(c) /\ ~c.server /\ SessionInv(S) /\ S.server /\ A \in SUBSET Ids
    /\ N \in Seq(WireFrames) /\ M \in Seq(WireFrames)
    /\ Conn(c, S, A, N, M)

LEMMA DoomKept ==
    ASSUME NEW c, NEW S, NEW A, NEW N, NEW d, NEW T, NEW B, NEW L,
           S.last_recv \in Nat, T.last_recv \in Nat, S.last_recv <= T.last_recv,
           "sent" \in S.goaway => "sent" \in T.goaway,
           \A id \in Doom(c, S, A, N) :
              id \notin B /\ id \notin Active(T) /\ id \notin HeadersIds(T.aob),
           Unsent(c, N) \subseteq Unsent(d, L)
    PROVE  Doom(c, S, A, N) \subseteq Doom(d, T, B, L)
<1> SUFFICES ASSUME NEW id \in Doom(c, S, A, N) PROVE id \in Doom(d, T, B, L)
  OBVIOUS
<1>1. id \in Ids /\ ("sent" \in S.goaway \/ id <= S.last_recv \/ id \in Unsent(c, N))
  BY DEF Doom
<1>2. id \in Nat
  BY <1>1, IdsNat
<1>3. "sent" \in T.goaway \/ id <= T.last_recv \/ id \in Unsent(d, L)
  BY <1>1, <1>2
<1> QED
  BY <1>1, <1>3 DEF Doom

\* The server's session moves on.
LEMMA ServerCall ==
    ASSUME NEW c, NEW S, NEW A, NEW N, NEW M, Ready(c, S, A, N, M), NEW T, NEW R, Moved(S, T, R)
    PROVE  Conn(c, T, A, N, M)
<1>1. /\ SessionInv(S) /\ SessionInv(T) /\ A \in SUBSET Ids /\ ServerPart(S, A)
      /\ Truth(c, S, A, N, M) /\ ClientPart(c, N) /\ S.last_recv <= c.last_sent
  BY DEF Ready, Conn, Moved
<1>2. /\ Active(T) \subseteq Active(S) /\ T.aob = S.aob /\ T.last_recv = S.last_recv
      /\ S.goaway \subseteq T.goaway
  BY DEF Moved, Follows
<1>3. \A id \in Ids : WillAnswer(T, id) => WillAnswer(S, id)
  BY <1>2 DEF WillAnswer, Closing
<1>4. ServerPart(T, A)
  BY <1>1, <1>3, ServerMoved
<1>5. Doom(c, S, A, N) \subseteq Doom(c, T, A, N)
  <2>1. S.last_recv \in Nat /\ T.last_recv \in Nat
    BY <1>1, <1>2 DEF SessionInv, Session
  <2>2. \A id \in Doom(c, S, A, N) :
           id \notin A /\ id \notin Active(T) /\ id \notin HeadersIds(T.aob)
    BY <1>2 DEF Doom
  <2> QED
    BY <1>2, <2>1, <2>2, DoomKept
<1>6. RstIds(T.reg) = RstIds(S.reg)
  BY <1>1, MovedIds
<1>7. Truth(c, T, A, N, M)
  BY <1>1, <1>2, <1>5, <1>6 DEF Truth
<1> QED
  BY <1>1, <1>2, <1>4, <1>7 DEF Conn

\* The client's session moves on; streams end as refused only if they are.
LEMMA ClientCall ==
    ASSUME NEW c, NEW S, NEW A, NEW N, NEW M, Ready(c, S, A, N, M), NEW d, NEW R,
           Moved(c, d, R), R \subseteq Doom(c, S, A, N)
    PROVE  Conn(d, S, A, N, M)
<1>1. /\ SessionInv(c) /\ SessionInv(d) /\ SessionInv(S) /\ ServerPart(S, A)
      /\ Truth(c, S, A, N, M) /\ ClientPart(c, N) /\ S.last_recv <= c.last_sent
  BY DEF Ready, Conn, Moved
<1>2. /\ d.aob = c.aob /\ d.last_sent = c.last_sent /\ d.next_id = c.next_id
      /\ Ended(d) \subseteq Ended(c) \cup R
  BY DEF Moved, Follows, Ended
<1>3. /\ HeadersIds(d.reg) = HeadersIds(c.reg) /\ RstIds(d.reg) = RstIds(c.reg)
      /\ HeadersIds(d.syn) = HeadersIds(c.syn)
  BY <1>1, MovedIds
<1>4. ClientPart(d, N)
  BY <1>1, <1>2, <1>3 DEF ClientPart
<1>5. Doom(d, S, A, N) = Doom(c, S, A, N)
  BY <1>2, <1>3 DEF Doom, Unsent
<1>6. Truth(d, S, A, N, M)
  BY <1>1, <1>2, <1>5 DEF Truth
<1> QED
  BY <1>1, <1>2, <1>4, <1>6 DEF Conn

\* The client's application makes a request.
LEMMA RequestMade ==
    ASSUME NEW c, NEW S, NEW A, NEW N, NEW M, Ready(c, S, A, N, M), NEW item \in RequestItems,
           item.id = c.next_id, NEW d, d = [c EXCEPT !.syn = Append(@, item), !.next_id = @ + 1]
    PROVE  Conn(d, S, A, N, M)
<1>1. /\ c \in Session /\ ServerPart(S, A)
      /\ Truth(c, S, A, N, M) /\ ClientPart(c, N) /\ S.last_recv <= c.last_sent
  BY DEF Ready, Conn, SessionInv
<1>2. /\ d.aob = c.aob /\ d.last_sent = c.last_sent /\ d.reason = c.reason /\ d.reg = c.reg
      /\ d.syn = Append(c.syn, item) /\ d.next_id = c.next_id + 1
  BY <1>1 DEF Session
<1>3. c.syn \in Seq(RequestItems) /\ c.next_id \in Nat
  BY <1>1 DEF Session
<1>4. \A id : id \in HeadersIds(d.syn) => id \in HeadersIds(c.syn) \/ item.id = id
  BY <1>2, <1>3, AppendIds
<1>5. Unsent(c, N) \subseteq Unsent(d, N)
  <2> SUFFICES ASSUME NEW id \in Unsent(c, N) PROVE id \in Unsent(d, N)
    OBVIOUS
  <2>1. id \in Ids /\ id < c.next_id /\ id \notin HeadersIds(c.syn)
        /\ id \notin HeadersIds(c.aob) \cup HeadersIds(N)
    BY DEF Unsent
  <2>2. id \in Nat
    BY <2>1, IdsNat
  <2>3. id \notin HeadersIds(d.syn) /\ id < d.next_id
    BY <1>2, <1>3, <1>4, <2>1, <2>2
  <2> QED
    BY <1>2, <2>1, <2>3 DEF Unsent
<1>6. Doom(c, S, A, N) \subseteq Doom(d, S, A, N)
  BY <1>5 DEF Doom
<1>7. Truth(d, S, A, N, M)
  BY <1>1, <1>2, <1>6 DEF Truth, Ended
<1> QED
  BY <1>1, <1>2, <1>7 DEF Conn, ClientPart

\* The frames T adds to ob_reg of the server S, which is otherwise unchanged.
LEMMA FrameAdded ==
    ASSUME NEW c, NEW S, NEW A, NEW N, NEW M, Ready(c, S, A, N, M),
           NEW f \in RegularItems, NEW T \in Session, T.reg = Append(S.reg, f),
           T.streams = S.streams, T.aob = S.aob, S.last_recv <= T.last_recv,
           T.last_recv <= c.last_sent,
           T.last_proc = S.last_proc, T.local_last = S.local_last, S.goaway \subseteq T.goaway,
           f.type = "HEADERS" => f.id <= S.last_proc,
           f.type = "GOAWAY" => /\ "submitted" \in T.goaway /\ f.last >= LastStream,
           f.type = "RST_STREAM" /\ f.error = "refused"
              => f.id \notin A \cup Active(S) \cup HeadersIds(S.aob) /\ f.id <= T.last_recv
    PROVE  Conn(c, T, A, N, M)
<1>1. /\ S \in Session /\ A \in SUBSET Ids /\ ServerPart(S, A)
      /\ Truth(c, S, A, N, M) /\ ClientPart(c, N)
  BY DEF Ready, Conn, SessionInv
<1>2. /\ S.reg \in Seq(RegularItems) /\ S.last_recv \in Nat /\ T.last_recv \in Nat
      /\ S.last_proc \in Nat
  BY <1>1 DEF Session
<1>3. /\ Len(S.reg) \in Nat /\ Len(T.reg) = Len(S.reg) + 1
      /\ \A i \in 1..Len(S.reg) : T.reg[i] = S.reg[i]
      /\ T.reg[Len(S.reg) + 1] = f
  BY <1>2
<1>4. Active(T) = Active(S)
  BY DEF Active
<1>5. \A id \in Ids : WillAnswer(T, id) <=> WillAnswer(S, id)
  BY <1>4 DEF WillAnswer, Closing
<1>6. \A j \in Len(S.reg) + 1 .. Len(T.reg) : j = Len(S.reg) + 1 /\ T.reg[j] = f
  BY <1>3
<1>7. f.type = "GOAWAY" => GoawayQueued(T, A, Len(S.reg) + 1)
  <2> SUFFICES ASSUME f.type = "GOAWAY" PROVE GoawayQueued(T, A, Len(S.reg) + 1)
    OBVIOUS
  <2>1. f.last \in Int /\ f.last >= LastStream /\ "submitted" \in T.goaway
    BY DEF RegularItems, Responses, RstFrames, GoawayItems, UpdateFrames
  <2>2. \A id \in Ids : ~(id > f.last)
    <3>1. LastStream \in Int
      BY SessionConstants DEF SessionConstants, LastStream
    <3> QED
      BY <2>1, <3>1, IdsNat
  <2> QED
    BY <1>3, <2>1, <2>2 DEF GoawayQueued
<1>8. ServerStep(S, T, A, A)
  BY <1>2, <1>3, <1>5, <1>6, <1>7 DEF ServerStep
<1>9. ServerPart(T, A)
  BY <1>1, <1>8, ServerStepped
<1>10. Doom(c, S, A, N) \subseteq Doom(c, T, A, N)
  <2>1. \A id \in Doom(c, S, A, N) :
           id \notin A /\ id \notin Active(T) /\ id \notin HeadersIds(T.aob)
    BY <1>4 DEF Doom
  <2> QED
    BY <1>2, <2>1, DoomKept
<1>11. RstIds(T.reg) \subseteq RstIds(S.reg) \cup Doom(c, T, A, N)
  <2> SUFFICES ASSUME NEW id \in RstIds(T.reg)
               PROVE  id \in RstIds(S.reg) \cup Doom(c, T, A, N)
    OBVIOUS
  <2>1. \/ id \in RstIds(S.reg)
        \/ f.type = "RST_STREAM" /\ f.error = "refused" /\ f.id = id
    BY <1>2, AppendIds
  <2>2. id \in Ids
    BY DEF RstIds
  <2> QED
    BY <1>4, <2>1, <2>2 DEF Doom
<1>12. Truth(c, T, A, N, M)
  BY <1>1, <1>10, <1>11 DEF Truth
<1> QED
  BY <1>1, <1>9, <1>12 DEF Conn

-----------------------------------------------------------------------------
(* The server prepares its next frame.                                     *)

\* What is known of a frame when it is taken from ob_reg of the server r.
Due(c, r, A, N, f) ==
    /\ f.type = "HEADERS" =>
          /\ f.id \in Ids /\ f.id <= r.last_proc
          /\ \A j \in 1..Len(r.reg) :
                r.reg[j].type = "GOAWAY" /\ f.id > r.reg[j].last => ~WillAnswer(r, f.id)
    /\ f.type = "GOAWAY" =>
          /\ "submitted" \in r.goaway /\ f.last \in Int
          /\ f.aux = "notice" => f.last >= LastStream
          /\ \A id \in Ids : id > f.last => id \notin A
    /\ f.type = "RST_STREAM" /\ f.error = "refused" => f.id \in Doom(c, r, A, N)

LEMMA QueueTaken ==
    ASSUME NEW c, NEW S, NEW A, NEW N, NEW M, Ready(c, S, A, N, M), S.aob = <<>>,
           S.reg # <<>>, NEW r, Requeued(S, r), r.reg = Tail(S.reg)
    PROVE  Conn(c, r, A, N, M) /\ Due(c, r, A, N, Head(S.reg))
<1> DEFINE f == Head(S.reg)
<1>1. /\ S \in Session /\ r \in Session /\ A \in SUBSET Ids /\ ServerPart(S, A)
      /\ Truth(c, S, A, N, M) /\ ClientPart(c, N) /\ S.last_recv <= c.last_sent
  BY DEF Ready, Conn, SessionInv, Requeued
<1>2. /\ Active(r) = Active(S) /\ r.aob = <<>> /\ r.last_recv = S.last_recv
      /\ r.last_proc = S.last_proc /\ r.local_last = S.local_last /\ r.goaway = S.goaway
  BY DEF Requeued, SameStreams
<1>3. S.reg \in Seq(RegularItems)
  BY <1>1 DEF Session
<1>4. /\ Len(S.reg) \in Nat /\ Len(S.reg) > 0 /\ Len(r.reg) = Len(S.reg) - 1 /\ f = S.reg[1]
      /\ \A i \in 1..Len(r.reg) : r.reg[i] = S.reg[i + 1]
      /\ f \in RegularItems
  BY <1>3
<1>5. /\ HeadersIds(r.reg) \subseteq HeadersIds(S.reg)
      /\ RstIds(r.reg) \subseteq RstIds(S.reg)
      /\ \A id \in Ids : f.type = "HEADERS" /\ f.id = id => id \in HeadersIds(S.reg)
      /\ \A id \in Ids : f.type = "RST_STREAM" /\ f.error = "refused" /\ f.id = id
                           => id \in RstIds(S.reg)
  BY <1>3, TailIds
<1>6. \A id \in Ids : WillAnswer(r, id) <=> WillAnswer(S, id)
  BY <1>2 DEF WillAnswer, Closing
<1> HIDE DEF f
<1>7. \A i \in 1..Len(r.reg) : i + 1 \in 1..Len(S.reg)
  BY <1>4
<1>8. ASSUME NEW j \in 1..Len(r.reg), r.reg[j].type = "GOAWAY"
      PROVE  /\ GoawayQueued(r, A, j)
             /\ \A id \in Ids : f.type = "HEADERS" /\ f.id = id /\ id > r.reg[j].last
                                  => ~WillAnswer(r, id)
  <2>1. GoawayQueued(S, A, j + 1) /\ r.reg[j] = S.reg[j + 1]
    BY <1>1, <1>4, <1>7, <1>8 DEF ServerPart
  <2>2. j \in Nat /\ j >= 1
    BY <1>4
  <2>3. ASSUME NEW id \in Ids, id > r.reg[j].last
        PROVE  /\ id \notin A /\ id \notin HeadersIds(r.aob)
               /\ \A i \in 1..(j - 1) : r.reg[i].type = "HEADERS" /\ r.reg[i].id = id
                                          => ~WillAnswer(r, id)
               /\ f.type = "HEADERS" /\ f.id = id => ~WillAnswer(r, id)
    <3>1. /\ id \notin A /\ id \notin HeadersIds(S.aob)
          /\ \A i \in 1..((j + 1) - 1) : S.reg[i].type = "HEADERS" /\ S.reg[i].id = id
                                           => ~WillAnswer(S, id)
      BY <2>1, <2>3 DEF GoawayQueued
    <3>2. ASSUME NEW i \in 1..(j - 1) PROVE i + 1 \in 1..((j + 1) - 1) /\ r.reg[i] = S.reg[i + 1]
      BY <1>4, <2>2
    <3>3. 1 \in 1..((j + 1) - 1)
      BY <2>2
    <3>4. \A i \in 1..(j - 1) : r.reg[i].type = "HEADERS" /\ r.reg[i].id = id
                                  => ~WillAnswer(r, id)
      BY <1>6, <3>1, <3>2
    <3>5. f.type = "HEADERS" /\ f.id = id => ~WillAnswer(r, id)
      BY <1>4, <1>6, <3>1, <3>3
    <3> QED
      BY <1>2, <3>1, <3>4, <3>5
  <2> QED
    BY <1>2, <2>1, <2>3 DEF GoawayQueued
<1>9. ServerPart(r, A)
  <2>1. \A id \in A \cup HeadersIds(r.aob) \cup HeadersIds(r.reg) : id <= r.last_proc
    BY <1>1, <1>2, <1>5 DEF ServerPart
  <2>2. Len(r.aob) <= 1
    BY <1>2
  <2> QED
    BY <1>1, <1>2, <1>6, <1>8, <2>1, <2>2 DEF ServerPart
<1>10. Doom(c, r, A, N) = Doom(c, S, A, N)
  BY <1>2 DEF Doom
<1>11. Truth(c, r, A, N, M)
  BY <1>1, <1>2, <1>5, <1>10 DEF Truth
<1>12. Due(c, r, A, N, f)
  <2>1. CASE f.type = "HEADERS"
    <3>1. f.id \in Ids
      BY <1>4, <2>1 DEF RegularItems, Responses, RstFrames, GoawayItems, UpdateFrames
    <3>2. f.id <= r.last_proc
      BY <1>1, <1>2, <1>5, <2>1, <3>1 DEF ServerPart
    <3> QED
      BY <1>8, <2>1, <3>1, <3>2 DEF Due
  <2>2. CASE f.type = "GOAWAY"
    <3>1. f.last \in Int
      BY <1>4, <2>2 DEF RegularItems, Responses, RstFrames, GoawayItems, UpdateFrames
    <3>2. 1 \in 1..Len(S.reg)
      BY <1>4
    <3>3. GoawayQueued(S, A, 1)
      BY <1>1, <1>4, <2>2, <3>2 DEF ServerPart
    <3> QED
      BY <1>2, <1>4, <2>2, <3>1, <3>3 DEF Due, GoawayQueued
  <2>3. CASE f.type = "RST_STREAM"
    <3>1. f.id \in Ids
      BY <1>4, <2>3 DEF RegularItems, Responses, RstFrames, GoawayItems, UpdateFrames
    <3>2. f.error = "refused" => f.id \in Doom(c, r, A, N)
      BY <1>1, <1>5, <1>10, <2>3, <3>1 DEF Truth
    <3> QED
      BY <2>3, <3>2 DEF Due
  <2> QED
    BY <2>1, <2>2, <2>3 DEF Due
<1> QED
  BY <1>1, <1>2, <1>9, <1>11, <1>12 DEF Conn, f

\* The server prepares f: a response only to an open stream, and the last_stream_id of a
\* GOAWAY becomes the session's.
LEMMA FramePrepared ==
    ASSUME NEW c, NEW S, NEW A, NEW N, NEW M, Ready(c, S, A, N, M), S.aob = <<>>,
           NEW f, Due(c, S, A, N, f), f.type = "HEADERS" => f.id \in Active(S),
           NEW T, Prepared(S, T, f)
    PROVE  Conn(c, T, A, N, M)
<1>1. /\ S \in Session /\ T \in Session /\ A \in SUBSET Ids /\ ServerPart(S, A)
      /\ Truth(c, S, A, N, M) /\ ClientPart(c, N) /\ S.last_recv <= c.last_sent
  BY DEF Ready, Conn, SessionInv, Prepared
<1>2. /\ Active(T) = Active(S) /\ T.aob = <<f>> /\ T.reg = S.reg /\ T.last_recv = S.last_recv
      /\ T.last_proc = S.last_proc /\ T.goaway = S.goaway
      /\ T.local_last = IF f.type = "GOAWAY" THEN f.last ELSE S.local_last
  BY DEF Prepared, SameStreams
<1>3. T.aob # <<>> /\ T.aob[1] = f /\ Len(T.aob) = 1
  BY <1>2
<1>4. \A id \in Ids : WillAnswer(T, id) => WillAnswer(S, id)
  BY <1>2 DEF WillAnswer, Closing
<1>5. \A id : id \in HeadersIds(T.aob) => f.type = "HEADERS" /\ f.id = id
  BY <1>2, OneIds
<1>6. f.type = "HEADERS" => WillAnswer(S, f.id)
  BY DEF WillAnswer, Closing
<1>7. \A id \in A \cup HeadersIds(T.aob) \cup HeadersIds(T.reg) : id <= T.last_proc
  BY <1>1, <1>2, <1>5 DEF ServerPart, Due
<1>8. ASSUME NEW j \in 1..Len(T.reg), T.reg[j].type = "GOAWAY" PROVE GoawayQueued(T, A, j)
  <2>1. GoawayQueued(S, A, j)
    BY <1>1, <1>2, <1>8 DEF ServerPart
  <2>2. \A id \in Ids : id > T.reg[j].last => id \notin HeadersIds(T.aob)
    BY <1>2, <1>5, <1>6, <1>8 DEF Due
  <2> QED
    BY <1>2, <1>4, <2>1, <2>2 DEF GoawayQueued
<1>9. f.type = "GOAWAY" => /\ T.local_last = f.last
                           /\ f.aux = "notice" => T.local_last >= LastStream
  BY <1>2 DEF Due
<1>10. ASSUME NEW id \in Ids, id > T.local_last
       PROVE  id \notin A /\ id \notin HeadersIds(T.aob) /\ ~WillAnswer(T, id)
  <2>1. CASE f.type = "GOAWAY"
    <3>1. id > f.last /\ f.last \in Int /\ id \in Nat /\ id < LastStream /\ LastStream \in Int
      BY <1>2, <1>10, <2>1, IdsNat, SessionConstants DEF Due, SessionConstants, LastStream
    <3>2. f.aux # "notice"
      BY <2>1, <3>1 DEF Due
    <3>3. Closing(T, id)
      BY <1>3, <2>1, <3>1, <3>2 DEF Closing
    <3> QED
      BY <1>5, <2>1, <3>1, <3>3 DEF Due, WillAnswer
  <2>2. CASE f.type # "GOAWAY"
    <3>1. id > S.local_last
      BY <1>2, <1>10, <2>2
    <3>2. id \notin A /\ ~WillAnswer(S, id)
      BY <1>1, <3>1 DEF ServerPart
    <3> QED
      BY <1>4, <1>5, <1>6, <3>2
  <2> QED
    BY <2>1, <2>2
<1>11. T.local_last < LastStream =>
          /\ "submitted" \in T.goaway
          /\ \/ "sent" \in T.goaway
             \/ T.aob # <<>> /\ T.aob[1].type = "GOAWAY" /\ T.aob[1].aux # "notice"
  <2> SUFFICES ASSUME T.local_last < LastStream
               PROVE  /\ "submitted" \in T.goaway
                      /\ \/ "sent" \in T.goaway
                         \/ T.aob # <<>> /\ T.aob[1].type = "GOAWAY" /\ T.aob[1].aux # "notice"
    OBVIOUS
  <2>1. CASE f.type = "GOAWAY"
    <3>1. f.last < LastStream /\ f.last \in Int /\ LastStream \in Int
      BY <1>2, <2>1, SessionConstants DEF Due, SessionConstants, LastStream
    <3>2. f.aux # "notice"
      BY <2>1, <3>1 DEF Due
    <3> QED
      BY <1>2, <1>3, <2>1, <3>2 DEF Due
  <2>2. CASE f.type # "GOAWAY"
    <3>1. "submitted" \in S.goaway /\ "sent" \in S.goaway
      BY <1>1, <1>2, <2>2 DEF ServerPart
    <3> QED
      BY <1>2, <3>1
  <2> QED
    BY <2>1, <2>2
<1>12. ServerPart(T, A)
  BY <1>3, <1>7, <1>8, <1>9, <1>10, <1>11 DEF ServerPart
<1>13. Doom(c, S, A, N) \subseteq Doom(c, T, A, N)
  <2>1. S.last_recv \in Nat /\ T.last_recv \in Nat
    BY <1>1, <1>2 DEF Session
  <2>2. \A id \in Doom(c, S, A, N) :
           id \notin A /\ id \notin Active(T) /\ id \notin HeadersIds(T.aob)
    BY <1>2, <1>5 DEF Doom
  <2> QED
    BY <1>2, <2>1, <2>2, DoomKept
<1>14. RstIds(T.aob) \subseteq Doom(c, S, A, N)
  <2>1. \A id : id \in RstIds(T.aob) => f.type = "RST_STREAM" /\ f.error = "refused" /\ f.id = id
    BY <1>2, OneIds
  <2> QED
    BY <2>1 DEF Due
<1>15. Truth(c, T, A, N, M)
  BY <1>1, <1>2, <1>13, <1>14 DEF Truth
<1> QED
  BY <1>1, <1>2, <1>12, <1>15 DEF Conn

LEMMA ServerPops ==
    ASSUME NEW c, NEW S, NEW A, NEW N, NEW M, Ready(c, S, A, N, M), S.aob = <<>>,
           NEW T, Pops(S, T)
    PROVE  Conn(c, T, A, N, M)
<1>1. CASE Holds(S, T, {})
  BY <1>1, ServerCall DEF Holds
<1>2. ASSUME NEW f \in UrgentItems \cup DataFrames, Prepared(S, T, f) PROVE Conn(c, T, A, N, M)
  <2>1. f.type \notin {"HEADERS", "GOAWAY", "RST_STREAM"}
    BY DEF UrgentItems, SettingsFrames, AckFrames, DataFrames
  <2>2. Due(c, S, A, N, f)
    BY <2>1 DEF Due
  <2> QED
    BY <1>2, <2>1, <2>2, FramePrepared
<1>3. ASSUME S.reg # <<>>, NEW r, Requeued(S, r), r.reg = Tail(S.reg),
             \/ T = r
             \/ /\ Prepared(r, T, Head(S.reg))
                /\ Head(S.reg).type = "HEADERS"
                     => session_predicate_response_headers_send(r, Head(S.reg).id)
      PROVE  Conn(c, T, A, N, M)
  <2>1. Conn(c, r, A, N, M) /\ Due(c, r, A, N, Head(S.reg))
    BY <1>3, QueueTaken
  <2>2. SessionInv(r) /\ r.server = S.server /\ r.aob = <<>> /\ r \in Session
    BY <1>3 DEF Requeued, SameStreams, SessionInv
  <2>3. Ready(c, r, A, N, M)
    BY <2>1, <2>2 DEF Ready
  <2>4. CASE /\ Prepared(r, T, Head(S.reg))
             /\ Head(S.reg).type = "HEADERS"
                  => session_predicate_response_headers_send(r, Head(S.reg).id)
    <3>1. Head(S.reg).type = "HEADERS" => Head(S.reg).id \in Active(r)
      BY <2>2, <2>4, ActiveFinite
         DEF session_predicate_response_headers_send, session_predicate_for_stream_send
    <3> QED
      BY <2>1, <2>2, <2>3, <2>4, <3>1, FramePrepared
  <2> QED
    BY <1>3, <2>1, <2>4
<1>4. S.syn = <<>>
  BY DEF Ready, SessionInv
<1> QED
  BY <1>1, <1>2, <1>3, <1>4 DEF Pops

-----------------------------------------------------------------------------
(* The client prepares its next frame.                                     *)

\* Frames that are neither requests nor refusals move between the client's queues.
LEMMA ClientQueues ==
    ASSUME NEW c, NEW S, NEW A, NEW N, NEW M, Ready(c, S, A, N, M), c.aob = <<>>,
           NEW d, d.syn = c.syn, d.next_id = c.next_id, d.last_sent = c.last_sent,
           d.reason = c.reason, HeadersIds(d.reg) \subseteq HeadersIds(c.reg),
           RstIds(d.reg) \subseteq RstIds(c.reg), Len(d.aob) <= 1,
           HeadersIds(d.aob) = {}, RstIds(d.aob) = {}
    PROVE  Conn(d, S, A, N, M)
<1>1. /\ ServerPart(S, A) /\ S.last_recv <= c.last_sent
      /\ Truth(c, S, A, N, M) /\ ClientPart(c, N)
  BY DEF Ready, Conn
<1>2. HeadersIds(c.aob) = {}
  BY EmptyIds
<1>3. ClientPart(d, N)
  BY <1>1, <1>2 DEF ClientPart
<1>4. Doom(d, S, A, N) = Doom(c, S, A, N)
  BY <1>2 DEF Doom, Unsent
<1>5. Truth(d, S, A, N, M)
  BY <1>1, <1>4 DEF Truth, Ended
<1> QED
  BY <1>1, <1>3, <1>5 DEF Conn

LEMMA RequestTaken ==
    ASSUME NEW c, NEW S, NEW A, NEW N, NEW M, Ready(c, S, A, N, M), c.aob = <<>>,
           c.syn # <<>>, NEW d, Requested(c, d)
    PROVE  Conn(d, S, A, N, M)
<1> DEFINE item == Head(c.syn)
           id == item.id
<1>1. /\ SessionInv(c) /\ c \in Session /\ SessionInv(d) /\ d \in Session
      /\ SessionInv(S) /\ S \in Session /\ S.server
      /\ ServerPart(S, A) /\ S.last_recv <= c.last_sent
      /\ Truth(c, S, A, N, M) /\ ClientPart(c, N)
  BY DEF Ready, Conn, SessionInv, Requested
<1>2. /\ id \in Ids /\ c.last_sent < id /\ id < c.next_id
      /\ \A i \in 1..Len(Tail(c.syn)) : id < Tail(c.syn)[i].id
  BY <1>1, SynTaken
<1>3. /\ item \in RequestItems /\ d.syn = Tail(c.syn) /\ d.reg = c.reg
      /\ d.next_id = c.next_id
  BY DEF Requested
<1>4. c.syn \in Seq(RequestItems)
  BY <1>1 DEF Session
<1>5. /\ HeadersIds(d.syn) \subseteq HeadersIds(c.syn)
      /\ \A i \in Ids : item.type = "HEADERS" /\ item.id = i => i \in HeadersIds(c.syn)
  BY <1>3, <1>4, TailIds
<1>6. item.type = "HEADERS"
  BY <1>3 DEF RequestItems
<1>7. id \in HeadersIds(c.syn)
  BY <1>2, <1>5, <1>6
<1>8. id \in Nat /\ c.last_sent \in Nat /\ S.last_recv \in Nat /\ S.last_proc \in Nat
  <2>1. S.last_recv \in Nat /\ S.last_proc \in Nat
    BY <1>1 DEF Session
  <2>2. c.last_sent \in Nat
    BY <1>1 DEF Session
  <2> QED
    BY <1>2, <2>1, <2>2, IdsNat
<1>9. HeadersIds(c.aob) = {}
  BY EmptyIds
<1>10. CASE d.aob = <<item>> /\ d.last_sent = id /\ d.reason = c.reason
  <2>1. \A i : i \in HeadersIds(d.aob) => i = id
    BY <1>10, OneIds
  <2>2. RstIds(d.aob) = {}
    BY <1>6, <1>10, OneIds
  <2>3. Len(d.aob) <= 1
    BY <1>10
  <2>4. \A i \in HeadersIds(d.aob) \cup HeadersIds(N) : i <= d.last_sent
    <3> SUFFICES ASSUME NEW i \in HeadersIds(d.aob) \cup HeadersIds(N) PROVE i <= d.last_sent
      OBVIOUS
    <3>1. CASE i \in HeadersIds(d.aob)
      BY <1>8, <1>10, <2>1, <3>1
    <3>2. CASE i \in HeadersIds(N)
      <4>1. i \in Nat /\ i <= c.last_sent
        BY <1>1, <3>2, IdsNat DEF ClientPart, HeadersIds
      <4> QED
        BY <1>2, <1>8, <1>10, <4>1
    <3> QED
      BY <3>1, <3>2
  <2>5. ClientPart(d, N)
    BY <1>1, <1>3, <2>2, <2>3, <2>4 DEF ClientPart
  <2>6. Unsent(c, N) \subseteq Unsent(d, N)
    BY <1>3, <1>5, <1>7, <2>1 DEF Unsent
  <2>7. Doom(c, S, A, N) \subseteq Doom(d, S, A, N)
    BY <2>6 DEF Doom
  <2>8. Truth(d, S, A, N, M)
    BY <1>1, <1>10, <2>7 DEF Truth, Ended
  <2>9. S.last_recv <= d.last_sent
    BY <1>1, <1>2, <1>8, <1>10
  <2> QED
    BY <1>1, <2>5, <2>8, <2>9 DEF Conn
<1>11. CASE /\ d.aob = c.aob /\ d.last_sent = c.last_sent
            /\ \A i \in Ids : i # item.id => d.reason[i] = c.reason[i]
  <2>1. ClientPart(d, N)
    BY <1>1, <1>3, <1>11 DEF ClientPart
  <2>2. Unsent(c, N) \subseteq Unsent(d, N)
    BY <1>3, <1>5, <1>11 DEF Unsent
  <2>3. Doom(c, S, A, N) \subseteq Doom(d, S, A, N)
    BY <2>2 DEF Doom
  <2>4. id \notin HeadersIds(d.syn)
    <3> SUFFICES ASSUME NEW i \in 1..Len(Tail(c.syn)), Tail(c.syn)[i].id = id PROVE FALSE
      BY <1>3 DEF HeadersIds
    <3> QED
      BY <1>2, <1>8
  <2>5. id \notin HeadersIds(N)
    BY <1>1, <1>2, <1>8 DEF ClientPart
  <2>6. id \in Unsent(d, N)
    BY <1>2, <1>3, <1>9, <1>11, <2>4, <2>5 DEF Unsent
  <2>7. S.last_proc < id
    <3>1. S.last_proc <= S.last_recv
      BY <1>1 DEF SessionInv
    <3> QED
      BY <1>1, <1>2, <1>8, <3>1
  <2>8. id \notin A /\ id \notin HeadersIds(S.aob)
    <3>1. \A i \in A \cup HeadersIds(S.aob) : i <= S.last_proc
      BY <1>1 DEF ServerPart
    <3> QED
      BY <1>8, <2>7, <3>1
  <2>9. id \notin Active(S)
    <3>1. \A i \in Active(S) : i <= S.last_proc
      BY <1>1 DEF SessionInv, Active
    <3> QED
      BY <1>8, <2>7, <3>1
  <2>10. id \in Doom(d, S, A, N)
    BY <1>2, <2>6, <2>8, <2>9 DEF Doom
  <2>11. Ended(d) \subseteq Ended(c) \cup {id}
    BY <1>11 DEF Ended
  <2>12. Truth(d, S, A, N, M)
    BY <1>1, <2>3, <2>10, <2>11 DEF Truth
  <2> QED
    BY <1>1, <1>11, <2>1, <2>12 DEF Conn
<1> QED
  BY <1>10, <1>11 DEF Requested

LEMMA ClientPops ==
    ASSUME NEW c, NEW S, NEW A, NEW N, NEW M, Ready(c, S, A, N, M), c.aob = <<>>,
           NEW d, Pops(c, d)
    PROVE  Conn(d, S, A, N, M)
<1>1. CASE Holds(c, d, {})
  BY <1>1, ClientCall DEF Holds
<1>2. ASSUME NEW f \in UrgentItems \cup DataFrames, Prepared(c, d, f) PROVE Conn(d, S, A, N, M)
  <2>1. f.type \notin {"HEADERS", "GOAWAY", "RST_STREAM"}
    BY DEF UrgentItems, SettingsFrames, AckFrames, DataFrames
  <2>2. /\ d.aob = <<f>> /\ d.reg = c.reg /\ d.syn = c.syn /\ d.reason = c.reason
        /\ d.next_id = c.next_id /\ d.last_sent = c.last_sent
    BY <1>2 DEF Prepared, SameStreams
  <2>3. HeadersIds(d.aob) = {} /\ RstIds(d.aob) = {} /\ Len(d.aob) <= 1
    BY <2>1, <2>2, OneIds
  <2> QED
    BY <2>2, <2>3, ClientQueues
<1>3. ASSUME c.reg # <<>>, NEW r, Requeued(c, r), r.reg = Tail(c.reg),
             d = r \/ Prepared(r, d, Head(c.reg))
      PROVE  Conn(d, S, A, N, M)
  <2> DEFINE f == Head(c.reg)
  <2>1. c.reg \in Seq(RegularItems) /\ HeadersIds(c.reg) = {} /\ RstIds(c.reg) = {}
    BY DEF Ready, Conn, ClientPart, SessionInv, Session
  <2>2. f \in RegularItems
    BY <1>3, <2>1
  <2>3. /\ HeadersIds(r.reg) = {} /\ RstIds(r.reg) = {}
        /\ \A i \in Ids : ~(f.type = "HEADERS" /\ f.id = i)
        /\ \A i \in Ids : ~(f.type = "RST_STREAM" /\ f.error = "refused" /\ f.id = i)
    BY <1>3, <2>1, TailIds
  <2>4. /\ r.syn = c.syn /\ r.reason = c.reason /\ r.aob = <<>>
        /\ r.next_id = c.next_id /\ r.last_sent = c.last_sent
    BY <1>3 DEF Requeued, SameStreams
  <2>5. CASE d = r
    <3>1. HeadersIds(d.aob) = {} /\ RstIds(d.aob) = {} /\ Len(d.aob) <= 1
      BY <2>4, <2>5, EmptyIds
    <3> QED
      BY <2>1, <2>3, <2>4, <2>5, <3>1, ClientQueues
  <2>6. CASE Prepared(r, d, f)
    <3>1. /\ d.aob = <<f>> /\ d.reg = r.reg /\ d.syn = c.syn /\ d.reason = c.reason
          /\ d.next_id = c.next_id /\ d.last_sent = c.last_sent
      BY <2>4, <2>6 DEF Prepared, SameStreams
    <3> HIDE DEF f
    <3>2. HeadersIds(d.aob) = {} /\ RstIds(d.aob) = {} /\ Len(d.aob) <= 1
      <4>1. \A i : i \notin HeadersIds(<<f>>) /\ i \notin RstIds(<<f>>)
        BY <2>3, OneIds
      <4> QED
        BY <3>1, <4>1
    <3> QED
      BY <2>1, <2>3, <3>1, <3>2, ClientQueues
  <2> QED
    BY <1>3, <2>5, <2>6
<1> QED
  BY <1>1, <1>2, <1>3, RequestTaken DEF Pops

-----------------------------------------------------------------------------
(* The prepared frame leaves.                                              *)

LEMMA OutFields ==
    ASSUME NEW s \in Session, NEW f
    PROVE  LET w == GoawayOut(s, f)
           IN  /\ w.aob = s.aob /\ w.reg = s.reg /\ w.syn = s.syn /\ SameStreams(s, w)
               /\ w.reason = s.reason /\ w.local_last = s.local_last
               /\ s.goaway \subseteq w.goaway /\ "sent" \in w.goaway
               /\ w.ign_all = s.ign_all
               /\ "term_on_send" \in w.goaway <=> "term_on_send" \in s.goaway
  BY DEF GoawayOut, Session, SameStreams

\* What the server told of streams with its frame f, written last, is true.
LEMMA ServerSends ==
    ASSUME NEW c, NEW S, NEW A, NEW N, NEW M, Ready(c, S, A, N, M), S.aob # <<>>,
           NEW f, f = S.aob[1], f \in PreparedItems, NEW T, Sends(S, T, f),
           NEW B, B = IF f.type = "HEADERS" THEN A \cup {f.id} ELSE A
    PROVE  Conn(c, T, B, N, Append(M, Wire(f)))
<1>1. /\ SessionInv(S) /\ S \in Session /\ S.server /\ A \in SUBSET Ids /\ ServerPart(S, A)
      /\ Truth(c, S, A, N, M) /\ ClientPart(c, N) /\ S.last_recv <= c.last_sent
      /\ M \in Seq(WireFrames)
  BY DEF Ready, Conn, SessionInv
<1>2. S.aob = <<f>>
  <2>1. S.aob \in Seq(PreparedItems) /\ Len(S.aob) <= 1
    BY <1>1 DEF Session, ServerPart
  <2> QED
    BY <2>1
<1>3. PICK W : /\ SessionInv(W) /\ W.reg = S.reg /\ W.last_proc = S.last_proc
               /\ W.last_recv = S.last_recv /\ W.local_last = S.local_last
               /\ S.goaway \subseteq W.goaway /\ W.aob = <<>> /\ Active(W) = Active(S)
               /\ \E R : Moved(W, T, R)
               /\ f.type = "GOAWAY" /\ f.aux # "notice" =>
                     "sent" \in W.goaway /\ \A id \in Active(T) : id <= f.last
  <2>1. CASE Holds(Written(S), T, RefusedBy(f)) /\ (f.type = "GOAWAY" => f.aux = "notice")
    <3> DEFINE W == Written(S)
    <3>1. /\ SessionInv(W) /\ W.reg = S.reg /\ W.last_proc = S.last_proc
          /\ W.last_recv = S.last_recv /\ W.local_last = S.local_last
          /\ S.goaway \subseteq W.goaway /\ W.aob = <<>> /\ Active(W) = Active(S)
      BY <1>1, WrittenKept DEF SameStreams
    <3>2. Moved(W, T, RefusedBy(f))
      BY <2>1 DEF Holds
    <3> HIDE DEF W
    <3> QED
      BY <2>1, <3>1, <3>2
  <2>2. CASE /\ SessionInv(GoawayOut(Written(S), f)) /\ Keeps(GoawayOut(Written(S), f), T, Ids)
             /\ \A id \in Active(T) : id <= f.last
    <3> DEFINE V == Written(S)
               W == GoawayOut(V, f)
    <3>1. /\ SessionInv(V) /\ V.reg = S.reg /\ V.last_proc = S.last_proc
          /\ V.last_recv = S.last_recv /\ V.local_last = S.local_last
          /\ S.goaway \subseteq V.goaway /\ V.aob = <<>> /\ Active(V) = Active(S)
      BY <1>1, WrittenKept DEF SameStreams
    <3>2. V \in Session
      BY <3>1 DEF SessionInv
    <3>3. /\ W.aob = V.aob /\ W.reg = V.reg /\ SameStreams(V, W) /\ W.local_last = V.local_last
          /\ V.goaway \subseteq W.goaway /\ "sent" \in W.goaway
      BY <3>2, OutFields
    <3>4. SessionInv(W) /\ Moved(W, T, Ids)
      BY <2>2 DEF Keeps, Holds
    <3> HIDE DEF V, W
    <3>5. Active(W) = Active(S)
      BY <3>1, <3>3 DEF Active, SameStreams
    <3>6. /\ W.reg = S.reg /\ W.last_proc = S.last_proc
          /\ W.last_recv = S.last_recv /\ W.local_last = S.local_last
          /\ S.goaway \subseteq W.goaway /\ W.aob = <<>>
      BY <3>1, <3>3 DEF SameStreams
    <3> QED
      BY <2>2, <3>3, <3>4, <3>5, <3>6
  <2> QED
    BY <1>1, <2>1, <2>2, SendsShape
<1>4. PICK R : Moved(W, T, R)
  BY <1>3
<1>5. /\ T.aob = <<>> /\ T.last_recv = S.last_recv /\ Active(T) \subseteq Active(S)
      /\ S.goaway \subseteq T.goaway /\ W.goaway \subseteq T.goaway
  BY <1>3, <1>4 DEF Moved, Follows
<1>6. B \subseteq A \cup HeadersIds(S.aob)
  <2>1. f.type = "HEADERS" => f.id \in Ids
    BY DEF PreparedItems, RegularItems, UrgentItems, Responses, RequestItems,
       DataFrames, RstFrames, SettingsFrames, AckFrames, GoawayItems, UpdateFrames
  <2>2. f.type = "HEADERS" => f.id \in HeadersIds(S.aob)
    BY <1>2, <2>1, OneIds
  <2> QED
    BY <2>2
<1>7. \A id \in Ids : WillAnswer(T, id) => WillAnswer(S, id)
  <2> SUFFICES ASSUME NEW id \in Ids, id \in Active(T), Closing(S, id) PROVE FALSE
    BY <1>5 DEF WillAnswer
  <2>1. f.type = "GOAWAY" /\ f.aux # "notice" /\ f.last < id
    BY DEF Closing
  <2>2. id <= f.last
    BY <1>3, <2>1
  <2>3. f.last \in Int
    BY <2>1 DEF PreparedItems, RegularItems, UrgentItems, Responses, RequestItems,
       DataFrames, RstFrames, SettingsFrames, AckFrames, GoawayItems, UpdateFrames
  <2> QED
    BY <2>1, <2>2, <2>3, IdsNat
<1>8. S.local_last < LastStream => "sent" \in W.goaway
  BY <1>1, <1>3 DEF ServerPart
<1>9. ServerPart(T, B)
  BY <1>1, <1>3, <1>4, <1>6, <1>7, <1>8, ServerMoved
<1>10. Doom(c, S, A, N) \subseteq Doom(c, T, B, N)
  <2>1. S.last_recv \in Nat /\ T.last_recv \in Nat
    BY <1>1, <1>5 DEF Session
  <2>2. \A id \in Doom(c, S, A, N) :
           id \notin B /\ id \notin Active(T) /\ id \notin HeadersIds(T.aob)
    BY <1>5, <1>6, EmptyIds DEF Doom
  <2> QED
    BY <1>5, <2>1, <2>2, DoomKept
<1>11. RstIds(T.reg) = RstIds(S.reg) /\ RstIds(T.aob) = {}
  BY <1>3, <1>4, <1>5, MovedIds, EmptyIds
<1>12. Wire(f) \in WireFrames /\ Wire(f).type = f.type
       /\ (f.type = "RST_STREAM" => Wire(f) = f)
       /\ (f.type = "GOAWAY" => Wire(f).last = f.last)
  BY WireKept
<1>13. RefusedBy(Wire(f)) \subseteq Doom(c, T, B, N)
  <2> SUFFICES ASSUME NEW id \in RefusedBy(Wire(f)) PROVE id \in Doom(c, T, B, N)
    OBVIOUS
  <2>1. id \in Ids
    BY DEF RefusedBy
  <2>2. CASE f.type = "RST_STREAM" /\ f.error = "refused" /\ id = f.id
    <3>1. id \in RstIds(S.aob)
      BY <1>2, <2>1, <2>2, OneIds
    <3> QED
      BY <1>1, <1>10, <3>1 DEF Truth
  <2>3. CASE f.type = "GOAWAY" /\ id > f.last
    <3>1. /\ S.local_last = f.last /\ (f.aux = "notice" => f.last >= LastStream)
          /\ id \notin A
      BY <1>1, <2>1, <2>3 DEF ServerPart
    <3>2. /\ id \in Nat /\ id < LastStream /\ LastStream \in Int /\ f.last \in Int
      <4>1. LastStream \in Int
        BY SessionConstants DEF SessionConstants, LastStream
      <4>2. S.local_last \in Int
        BY <1>1 DEF Session
      <4> QED
        BY <2>1, <3>1, <4>1, <4>2, IdsNat
    <3>3. f.aux # "notice"
      BY <2>3, <3>1, <3>2
    <3>4. "sent" \in T.goaway /\ \A i \in Active(T) : i <= f.last
      BY <1>3, <1>5, <2>3, <3>3
    <3>5. id \notin Active(T) /\ id \notin B
      BY <2>3, <3>1, <3>2, <3>4
    <3> QED
      BY <1>5, <2>1, <3>4, <3>5, EmptyIds DEF Doom
  <2> QED
    BY <1>12, <2>2, <2>3 DEF RefusedBy
<1>14. Told(Append(M, Wire(f))) = Told(M) \cup RefusedBy(Wire(f))
  BY <1>1, <1>12, AppendIds
<1>15. Truth(c, T, B, N, Append(M, Wire(f)))
  BY <1>1, <1>10, <1>11, <1>13, <1>14 DEF Truth
<1> QED
  BY <1>1, <1>5, <1>9, <1>15 DEF Conn

LEMMA ClientSends ==
    ASSUME NEW c, NEW S, NEW A, NEW N, NEW M, Ready(c, S, A, N, M), c.aob # <<>>,
           NEW f, f = c.aob[1], f \in PreparedItems, NEW d, Sends(c, d, f)
    PROVE  Conn(d, S, A, Append(N, Wire(f)), M)
<1>1. /\ SessionInv(c) /\ c \in Session /\ ~c.server /\ ServerPart(S, A)
      /\ Truth(c, S, A, N, M) /\ ClientPart(c, N) /\ S.last_recv <= c.last_sent
      /\ N \in Seq(WireFrames)
  BY DEF Ready, Conn, SessionInv
<1>2. c.aob = <<f>>
  <2>1. c.aob \in Seq(PreparedItems) /\ Len(c.aob) <= 1
    BY <1>1 DEF Session, ClientPart
  <2> QED
    BY <2>1
<1> DEFINE V == Written(c)
<1>3. /\ SessionInv(V) /\ V \in Session /\ V.aob = <<>> /\ V.reg = c.reg /\ V.syn = c.syn
      /\ V.reason = c.reason /\ V.next_id = c.next_id /\ V.last_sent = c.last_sent
  BY <1>1, WrittenKept DEF SessionInv, SameStreams
<1>4. /\ d.aob = <<>> /\ HeadersIds(d.syn) = HeadersIds(c.syn)
      /\ HeadersIds(d.reg) = HeadersIds(c.reg) /\ RstIds(d.reg) = RstIds(c.reg)
      /\ d.next_id = c.next_id /\ d.last_sent = c.last_sent /\ Ended(d) \subseteq Ended(c)
  <2>1. CASE Holds(V, d, RefusedBy(f)) /\ f.type # "GOAWAY"
    <3>1. RefusedBy(f) = {}
      <4>1. \A id \in Ids : ~(f.type = "RST_STREAM" /\ f.error = "refused" /\ f.id = id)
        BY <1>1, <1>2, OneIds DEF ClientPart
      <4> QED
        BY <2>1, <4>1 DEF RefusedBy
    <3>2. Moved(V, d, {})
      BY <2>1, <3>1 DEF Holds
    <3>3. HeadersIds(d.reg) = HeadersIds(V.reg) /\ RstIds(d.reg) = RstIds(V.reg)
          /\ HeadersIds(d.syn) = HeadersIds(V.syn)
      BY <1>3, <3>2, MovedIds
    <3> HIDE DEF V
    <3>4. /\ d.aob = V.aob /\ d.next_id = V.next_id /\ d.last_sent = V.last_sent
          /\ Ended(d) \subseteq Ended(V)
      BY <3>2 DEF Moved, Follows, Ended
    <3> QED
      BY <1>3, <3>3, <3>4 DEF Ended
  <2>2. CASE d = V
    BY <1>3, <2>2 DEF Ended
  <2>3. CASE d = GoawayOut(V, f)
    <3>1. /\ d.aob = V.aob /\ d.reg = V.reg /\ d.syn = V.syn /\ SameStreams(V, d)
          /\ d.reason = V.reason
      BY <1>3, <2>3, OutFields
    <3> QED
      BY <1>3, <3>1 DEF SameStreams, Ended
  <2> QED
    BY <1>1, <2>1, <2>2, <2>3, SendsShape
<1>5. Wire(f) \in WireFrames /\ Wire(f).type = f.type
      /\ (f.type = "HEADERS" => Wire(f).id = f.id)
  BY WireKept
<1>6. \A id : id \in HeadersIds(Append(N, Wire(f))) =>
         id \in HeadersIds(N) \cup HeadersIds(c.aob)
  <2>1. \A id : id \in HeadersIds(Append(N, Wire(f))) =>
           id \in Ids /\ (id \in HeadersIds(N) \/ (f.type = "HEADERS" /\ f.id = id))
    <3>1. \A id : id \in HeadersIds(Append(N, Wire(f))) => id \in Ids
      BY DEF HeadersIds
    <3> QED
      BY <1>1, <1>5, <3>1, AppendIds
  <2> QED
    BY <1>2, <2>1, OneIds
<1>7. HeadersIds(d.aob) = {} /\ RstIds(d.aob) = {} /\ Len(d.aob) <= 1
  BY <1>4, EmptyIds
<1>8. ClientPart(d, Append(N, Wire(f)))
  BY <1>1, <1>4, <1>6, <1>7 DEF ClientPart
<1>9. Unsent(c, N) \subseteq Unsent(d, Append(N, Wire(f)))
  BY <1>4, <1>6, <1>7 DEF Unsent
<1>10. Doom(c, S, A, N) \subseteq Doom(d, S, A, Append(N, Wire(f)))
  BY <1>9 DEF Doom
<1>11. Truth(d, S, A, Append(N, Wire(f)), M)
  BY <1>1, <1>4, <1>10 DEF Truth
<1> QED
  BY <1>1, <1>4, <1>8, <1>11 DEF Conn

-----------------------------------------------------------------------------
(* A frame arrives.                                                        *)

\* Nothing is open, answered or being answered beyond last_proc.
LEMMA BeyondProcessed ==
    ASSUME NEW c, NEW S, NEW A, NEW N, NEW M, Ready(c, S, A, N, M), NEW id \in Ids,
           id > S.last_recv
    PROVE  /\ id \in Nat /\ S.last_recv \in Nat /\ S.last_proc \in Nat /\ id > S.last_proc
           /\ id \notin A \cup Active(S) \cup HeadersIds(S.aob)
<1>1. /\ SessionInv(S) /\ S \in Session /\ S.server /\ ServerPart(S, A)
  BY DEF Ready, Conn, SessionInv
<1>2. S.last_recv \in Nat /\ S.last_proc \in Nat
  BY <1>1 DEF Session
<1>3. id \in Nat /\ id > S.last_proc
  <2>1. S.last_proc <= S.last_recv
    BY <1>1 DEF SessionInv
  <2> QED
    BY <1>2, <2>1, IdsNat
<1>4. \A i \in A \cup HeadersIds(S.aob) : i <= S.last_proc
  BY <1>1 DEF ServerPart
<1>5. \A i \in Active(S) : i <= S.last_proc
  BY <1>1 DEF SessionInv, Active
<1> QED
  BY <1>2, <1>3, <1>4, <1>5

\* The server has seen the request id and ignores it.
LEMMA RequestSeen ==
    ASSUME NEW c, NEW S, NEW A, NEW N, NEW M, Ready(c, S, A, N, M), NEW id \in Ids,
           id > S.last_recv, id <= c.last_sent
    PROVE  Ready(c, Seen(S, id), A, N, M)
<1> DEFINE T == Seen(S, id)
<1>1. /\ SessionInv(S) /\ S.server /\ ServerPart(S, A)
      /\ Truth(c, S, A, N, M) /\ ClientPart(c, N)
  BY DEF Ready, Conn
<1>2. /\ SessionInv(T) /\ T.server = S.server /\ T.last_recv = id /\ Active(T) = Active(S)
      /\ T.reg = S.reg /\ T.aob = S.aob /\ T.goaway = S.goaway
      /\ T.local_last = S.local_last /\ T.last_proc = S.last_proc
  BY <1>1, SeenKept
<1>3. id \in Nat /\ S.last_recv \in Nat
  BY BeyondProcessed
<1> HIDE DEF T
<1>4. \A i : WillAnswer(T, i) <=> WillAnswer(S, i)
  BY <1>2 DEF WillAnswer, Closing
<1>5. \A j : GoawayQueued(T, A, j) <=> GoawayQueued(S, A, j)
  BY <1>2, <1>4 DEF GoawayQueued
<1>6. ServerPart(T, A)
  BY <1>1, <1>2, <1>4, <1>5 DEF ServerPart
<1>7. Doom(c, S, A, N) \subseteq Doom(c, T, A, N)
  <2>1. \A i \in Doom(c, S, A, N) :
           i \notin A /\ i \notin Active(T) /\ i \notin HeadersIds(T.aob)
    BY <1>2 DEF Doom
  <2> QED
    BY <1>2, <1>3, <2>1, DoomKept
<1>8. Truth(c, T, A, N, M)
  BY <1>1, <1>2, <1>7 DEF Truth
<1>9. Conn(c, T, A, N, M)
  BY <1>1, <1>2, <1>6, <1>8 DEF Conn
<1> QED
  BY <1>1, <1>2, <1>9 DEF Ready, T

\* The server opens the stream of a request: no one was told that it is refused, and
\* while a GOAWAY is being written that refuses it, it will not be answered.
LEMMA StreamOpened ==
    ASSUME NEW c, NEW S, NEW A, NEW N, NEW M, Ready(c, S, A, N, M), NEW id \in Ids,
           id > S.last_recv, id <= c.last_sent, id \in HeadersIds(N), "sent" \notin S.goaway,
           NEW T, Opens(S, T, id)
    PROVE  Ready(c, T, A, N, M)
<1>1. /\ SessionInv(S) /\ S \in Session /\ A \in SUBSET Ids /\ ServerPart(S, A)
      /\ Truth(c, S, A, N, M) /\ ClientPart(c, N)
  BY DEF Ready, Conn, SessionInv
<1>2. /\ SessionInv(T) /\ T \in Session /\ T.server /\ T.last_recv = id /\ T.last_proc = id
      /\ Active(T) = Active(S) \cup {id} /\ T.reg = S.reg /\ T.aob = S.aob
      /\ T.goaway = S.goaway /\ T.local_last = S.local_last
  BY DEF Opens, SessionInv
<1>3. /\ id \in Nat /\ S.last_recv \in Nat /\ S.last_proc \in Nat /\ id > S.last_proc
      /\ id \notin A \cup Active(S) \cup HeadersIds(S.aob)
  BY BeyondProcessed
<1>4. \A i \in Ids : /\ WillAnswer(T, i)
                     /\ i <= S.last_proc \/ i > S.local_last
                     => WillAnswer(S, i)
  <2> SUFFICES ASSUME NEW i \in Ids, WillAnswer(T, i), i <= S.last_proc \/ i > S.local_last
               PROVE  WillAnswer(S, i)
    OBVIOUS
  <2>1. CASE i # id
    BY <1>2, <2>1 DEF WillAnswer, Closing
  <2>2. CASE i = id
    <3>1. id > S.local_last
      BY <1>3, <2>2
    <3>2. S.local_last < LastStream
      <4>1. LastStream \in Int
        BY SessionConstants DEF SessionConstants, LastStream
      <4>2. S.local_last \in Int
        BY <1>1 DEF Session
      <4> QED
        BY <1>3, <3>1, <4>1, <4>2, IdsNat
    <3>3. S.aob # <<>> /\ S.aob[1].type = "GOAWAY" /\ S.aob[1].aux # "notice"
          /\ S.local_last = S.aob[1].last
      BY <1>1, <3>2 DEF ServerPart
    <3>4. S.aob[1].last < id
      <4>1. S.local_last \in Int
        BY <1>1 DEF Session
      <4> QED
        BY <1>3, <3>1, <3>3, <4>1
    <3>5. Closing(T, i)
      BY <1>2, <2>2, <3>3, <3>4 DEF Closing
    <3> QED
      BY <3>5 DEF WillAnswer
  <2> QED
    BY <2>1, <2>2
<1>5. Len(S.reg) \in Nat
  BY <1>1, Lengths
<1>6. ServerStep(S, T, A, A)
  BY <1>2, <1>3, <1>4, <1>5 DEF ServerStep
<1>7. ServerPart(T, A)
  BY <1>1, <1>2, <1>6, ServerStepped
<1>8. id \notin Doom(c, S, A, N)
  BY <1>3 DEF Doom, Unsent
<1>9. Doom(c, S, A, N) \subseteq Doom(c, T, A, N)
  <2>1. \A i \in Doom(c, S, A, N) :
           i \notin A /\ i \notin Active(T) /\ i \notin HeadersIds(T.aob)
    BY <1>2, <1>8 DEF Doom
  <2>2. S.last_recv <= T.last_recv
    BY <1>2, <1>3
  <2> QED
    BY <1>2, <1>3, <2>1, <2>2, DoomKept
<1>10. Truth(c, T, A, N, M)
  BY <1>1, <1>2, <1>9 DEF Truth
<1>11. Conn(c, T, A, N, M)
  BY <1>1, <1>2, <1>7, <1>10 DEF Conn
<1> QED
  BY <1>1, <1>2, <1>11 DEF Ready

LEMMA RequestRefused ==
    ASSUME NEW c, NEW S, NEW A, NEW N, NEW M, Ready(c, S, A, N, M), NEW id \in Ids,
           id > S.last_recv, id <= c.last_sent, NEW T, Refuses(S, T, id)
    PROVE  Conn(c, T, A, N, M)
<1> DEFINE r == Seen(S, id)
           f == [type |-> "RST_STREAM", id |-> id, error |-> "refused"]
<1>1. SessionInv(S)
  BY DEF Ready
<1>2. /\ SessionInv(r) /\ r \in Session /\ r.last_recv = id /\ r.streams = S.streams
      /\ r.reg = S.reg /\ r.aob = S.aob /\ r.goaway = S.goaway
      /\ r.local_last = S.local_last /\ r.last_proc = S.last_proc
  BY <1>1, SeenKept DEF SessionInv
<1>3. /\ id \in Nat /\ S.last_recv \in Nat
      /\ id \notin A \cup Active(S) \cup HeadersIds(S.aob)
  BY BeyondProcessed
<1>4. T = [r EXCEPT !.reg = Append(@, f)] /\ SessionInv(T)
  BY DEF Refuses
<1>5. f \in RegularItems /\ f.type = "RST_STREAM" /\ f.id = id
  BY DEF RegularItems, RstFrames, Faults, Reasons
<1> HIDE DEF r, f
<1>6. /\ T.reg = Append(S.reg, f) /\ T.streams = S.streams /\ T.aob = S.aob
      /\ T.last_recv = id /\ T.goaway = S.goaway
      /\ T.local_last = S.local_last /\ T.last_proc = S.last_proc /\ T \in Session
  BY <1>2, <1>4 DEF Session, SessionInv
<1>7. /\ S.last_recv <= T.last_recv /\ T.last_recv <= c.last_sent /\ f.id <= T.last_recv
      /\ S.goaway \subseteq T.goaway
  BY <1>3, <1>5, <1>6
<1>8. f.type # "HEADERS" /\ f.type # "GOAWAY"
  BY <1>5
<1>9. f.id \notin A \cup Active(S) \cup HeadersIds(S.aob)
  BY <1>3, <1>5
<1> QED
  BY <1>5, <1>6, <1>7, <1>8, <1>9, FrameAdded

LEMMA ServerReceives ==
    ASSUME NEW c, NEW S, NEW A, NEW N, NEW M, Ready(c, S, A, N, M), N # <<>>,
           NEW f, f = Head(N), NEW T, Receives(S, T, f)
    PROVE  Conn(c, T, A, Tail(N), M)
<1>1. N \in Seq(WireFrames)
  BY DEF Ready
<1>2. Conn(c, T, A, N, M)
  <2>1. CASE Moved(S, T, RefusedBy(f))
    BY <2>1, ServerCall
  <2>2. CASE /\ f.type = "HEADERS" /\ f.id \in Ids /\ f.id > S.last_recv
             /\ \/ Moved(Seen(S, f.id), T, {})
                \/ Refuses(S, T, f.id)
                \/ /\ "sent" \notin S.goaway
                   /\ \E o : Opens(S, o, f.id) /\ Moved(o, T, {})
    <3>1. f.id \in HeadersIds(N)
      BY <1>1, <2>2, TailIds
    <3>2. f.id <= c.last_sent
      BY <3>1 DEF Ready, Conn, ClientPart
    <3>3. CASE Moved(Seen(S, f.id), T, {})
      <4>1. Ready(c, Seen(S, f.id), A, N, M)
        BY <2>2, <3>2, RequestSeen
      <4> QED
        BY <3>3, <4>1, ServerCall
    <3>4. CASE Refuses(S, T, f.id)
      BY <2>2, <3>2, <3>4, RequestRefused
    <3>5. ASSUME "sent" \notin S.goaway, NEW o, Opens(S, o, f.id), Moved(o, T, {})
          PROVE  Conn(c, T, A, N, M)
      <4>1. Ready(c, o, A, N, M)
        BY <2>2, <3>1, <3>2, <3>5, StreamOpened
      <4> QED
        BY <3>5, <4>1, ServerCall
    <3> QED
      BY <2>2, <3>3, <3>4, <3>5
  <2> QED
    BY <2>1, <2>2, ReceivesShape
<1>3. HeadersIds(Tail(N)) \subseteq HeadersIds(N)
  BY <1>1, TailIds
<1>4. Doom(c, T, A, N) \subseteq Doom(c, T, A, Tail(N))
  BY <1>3 DEF Doom, Unsent
<1> QED
  BY <1>2, <1>3, <1>4 DEF Conn, ClientPart, Truth

LEMMA ClientReceives ==
    ASSUME NEW c, NEW S, NEW A, NEW N, NEW M, Ready(c, S, A, N, M), M # <<>>,
           NEW f, f = Head(M), NEW d, Receives(c, d, f)
    PROVE  Conn(d, S, A, N, Tail(M))
<1>1. M \in Seq(WireFrames) /\ ~c.server /\ Truth(c, S, A, N, M)
  BY DEF Ready, Conn
<1>2. Told(Tail(M)) \subseteq Told(M) /\ RefusedBy(f) \subseteq Told(M)
  BY <1>1, TailIds
<1>3. Moved(c, d, RefusedBy(f))
  BY <1>1, ReceivesShape
<1>4. RefusedBy(f) \subseteq Doom(c, S, A, N)
  BY <1>1, <1>2 DEF Truth
<1>5. Conn(d, S, A, N, M)
  BY <1>3, <1>4, ClientCall
<1> QED
  BY <1>2, <1>5 DEF Conn, Truth

-----------------------------------------------------------------------------
(* The actions.                                                            *)

LEMMA ReadyNow ==
    ASSUME Inv1, Inv2
    PROVE  /\ Ready(ses["c"], ses["s"], app["s"].answered, net["s"], net["c"])
           /\ ses \in [Sides -> Session] /\ net \in [Sides -> Seq(WireFrames)]
           /\ app \in [Sides -> Apps] /\ "c" \in Sides /\ "s" \in Sides
<1>1. /\ SessionInv(ses["c"]) /\ SessionInv(ses["s"]) /\ ses["s"].server /\ ~ses["c"].server
      /\ ses \in [Sides -> Session]
  BY DEF Inv1, SessionsInv, Sides
<1>2. /\ net \in [Sides -> Seq(WireFrames)] /\ app \in [Sides -> Apps]
      /\ "c" \in Sides /\ "s" \in Sides
  BY DEF Inv1, Sides
<1>3. app["s"].answered \in SUBSET Ids
  BY <1>2 DEF Apps
<1>4. net["c"] \in Seq(WireFrames) /\ net["s"] \in Seq(WireFrames)
  BY <1>2
<1> QED
  BY <1>1, <1>2, <1>3, <1>4 DEF Inv2, Ready

LEMMA SideKept ==
    ASSUME NEW F, F \in [Sides -> Session], NEW p \in Sides, NEW t
    PROVE  /\ p = "c" => [F EXCEPT ![p] = t]["c"] = t /\ [F EXCEPT ![p] = t]["s"] = F["s"]
           /\ p = "s" => [F EXCEPT ![p] = t]["s"] = t /\ [F EXCEPT ![p] = t]["c"] = F["c"]
  BY DEF Sides

\* A call that only moves one of the sessions.
LEMMA CallInv2 ==
    ASSUME Inv1, Inv2, NEW p \in Sides, NEW t, Moved(ses[p], t, {}),
           ses' = [ses EXCEPT ![p] = t], net' = net,
           app'["s"].answered = app["s"].answered
    PROVE  Inv2'
<1>1. /\ Ready(ses["c"], ses["s"], app["s"].answered, net["s"], net["c"])
      /\ ses \in [Sides -> Session]
  BY ReadyNow
<1>2. CASE p = "s"
  <2>1. ses'["s"] = t /\ ses'["c"] = ses["c"]
    BY <1>1, <1>2, SideKept
  <2>2. Conn(ses["c"], t, app["s"].answered, net["s"], net["c"])
    BY <1>1, <1>2, ServerCall
  <2> QED
    BY <2>1, <2>2 DEF Inv2
<1>3. CASE p = "c"
  <2>1. ses'["c"] = t /\ ses'["s"] = ses["s"]
    BY <1>1, <1>3, SideKept
  <2>2. Conn(t, ses["s"], app["s"].answered, net["s"], net["c"])
    BY <1>1, <1>3, ClientCall
  <2> QED
    BY <2>1, <2>2 DEF Inv2
<1> QED
  BY <1>2, <1>3 DEF Sides

LEMMA InitInv2 == Init => Inv2
<1> SUFFICES ASSUME Init PROVE Inv2
  OBVIOUS
<1> DEFINE c == ses["c"]
           S == ses["s"]
<1>1. /\ c.aob = <<>> /\ c.reg = <<>> /\ c.syn = <<>> /\ c.last_sent = 0
      /\ c.reason = [id \in Ids |-> "open"]
      /\ S.aob = <<>> /\ S.reg = <<>> /\ S.last_recv = 0 /\ S.last_proc = 0
      /\ S.local_last = LastStream /\ S.goaway = {}
  BY DEF Init, NewSession, Sides
<1>2. app["s"].answered = {} /\ net["s"] = <<>> /\ net["c"] = <<>>
  BY DEF Init, NewApp, Sides
<1>3. LastStream \in Int /\ Len(<<>>) = 0
  BY SessionConstants DEF SessionConstants, LastStream
<1>4. \A id \in Ids : ~(id > LastStream)
  BY <1>3, IdsNat
<1> HIDE DEF c, S
<1>5. ServerPart(S, {})
  BY <1>1, <1>3, <1>4, EmptyIds DEF ServerPart
<1>6. ClientPart(c, <<>>)
  BY <1>1, <1>3, EmptyIds DEF ClientPart
<1>7. Truth(c, S, {}, <<>>, <<>>)
  BY <1>1, EmptyIds DEF Truth, Ended
<1>8. Conn(c, S, {}, <<>>, <<>>)
  BY <1>1, <1>5, <1>6, <1>7 DEF Conn
<1> QED
  BY <1>2, <1>8 DEF Inv2, c, S

LEMMA SubmitRequestInv2 ==
    ASSUME Inv1, Inv2, SubmitRequest PROVE Inv2'
<1> DEFINE c == ses["c"]
           item == [type |-> "HEADERS", id |-> c.next_id, end |-> BodyLen["c"] = 0,
                    canceled |-> FALSE]
           d == [c EXCEPT !.syn = Append(@, item), !.next_id = @ + 1]
<1>1. /\ Ready(c, ses["s"], app["s"].answered, net["s"], net["c"])
      /\ ses \in [Sides -> Session] /\ "c" \in Sides
  BY ReadyNow
<1>2. c.next_id \in Ids
  BY DEF SubmitRequest, nghttp2_session_check_request_allowed
<1>3. ses' = [ses EXCEPT !["c"] = d] /\ net' = net /\ app' = app
  BY <1>1 DEF SubmitRequest
<1>4. item \in RequestItems /\ item.id = c.next_id
  BY <1>2 DEF RequestItems
<1> HIDE DEF item
<1>5. Conn(d, ses["s"], app["s"].answered, net["s"], net["c"])
  BY <1>1, <1>4, RequestMade
<1> HIDE DEF d
<1>6. ses'["c"] = d /\ ses'["s"] = ses["s"]
  BY <1>1, <1>3, SideKept
<1> QED
  BY <1>3, <1>5, <1>6 DEF Inv2

LEMMA SubmitResponseInv2 ==
    ASSUME Inv1, Inv2, NEW id \in Ids, SubmitResponse(id) PROVE Inv2'
<1> DEFINE S == ses["s"]
           f == [type |-> "HEADERS", id |-> id, end |-> FALSE]
           l == Append(S.reg, f)
           T == [S EXCEPT !.reg = l]
<1>1. /\ Ready(ses["c"], S, app["s"].answered, net["s"], net["c"])
      /\ ses \in [Sides -> Session] /\ app \in [Sides -> Apps] /\ "s" \in Sides
  BY ReadyNow
<1>2. SessionInv(S) /\ S \in Session /\ S.server /\ S.last_recv <= ses["c"].last_sent
  BY <1>1 DEF Ready, SessionInv, Conn
<1>3. ses' = [ses EXCEPT !["s"] = T] /\ net' = net
  BY <1>1, <1>2 DEF SubmitResponse, Session
<1>4. app'["s"].answered = app["s"].answered
  BY <1>1 DEF SubmitResponse, Apps
<1>5. id <= S.last_proc
  BY <1>2 DEF SubmitResponse, Live, SessionInv
<1>6. f \in RegularItems /\ f.type = "HEADERS" /\ f.id = id
  BY DEF RegularItems, Responses
<1> HIDE DEF f
<1>7. l \in Seq(RegularItems)
  <2>1. S.reg \in Seq(RegularItems)
    BY <1>2 DEF Session
  <2> QED
    BY <1>6, <2>1
<1>8. ses'["s"] = T /\ ses'["c"] = ses["c"]
  BY <1>1, <1>3, SideKept
<1> HIDE DEF l, S
<1>9. /\ T \in Session /\ T.reg = l /\ T.streams = S.streams /\ T.aob = S.aob
      /\ T.last_recv = S.last_recv /\ T.last_proc = S.last_proc
      /\ T.local_last = S.local_last /\ T.goaway = S.goaway
  BY <1>2, <1>7 DEF Session
<1> HIDE DEF T
<1>10. S.last_recv <= T.last_recv /\ T.last_recv <= ses["c"].last_sent
  <2>1. S.last_recv \in Nat
    BY <1>2 DEF Session
  <2> QED
    BY <1>2, <1>9, <2>1
<1>11. Conn(ses["c"], T, app["s"].answered, net["s"], net["c"])
  <2>1. T.reg = Append(S.reg, f)
    BY <1>9 DEF l
  <2>2. f.type # "GOAWAY" /\ f.type # "RST_STREAM"
    BY <1>6
  <2> QED
    BY <1>1, <1>5, <1>6, <1>9, <1>10, <2>1, <2>2, FrameAdded
<1> QED
  BY <1>3, <1>4, <1>8, <1>11 DEF Inv2

\* The shutdown notice is submitted before any GOAWAY, so it refuses nothing.
LEMMA SubmitNoticeInv2 ==
    ASSUME Inv1, Inv2, NEW p \in Sides, SubmitShutdownNotice(p) PROVE Inv2'
<1> DEFINE S == ses["s"]
           f == [type |-> "GOAWAY", last |-> LeastOf(LastStream, S.local_last),
                 aux |-> "notice"]
           l == Append(S.reg, f)
           g == S.goaway \cup {"submitted"}
           T == [S EXCEPT !.reg = l, !.goaway = g]
<1>1. /\ Ready(ses["c"], S, app["s"].answered, net["s"], net["c"])
      /\ ses \in [Sides -> Session] /\ "s" \in Sides
  BY ReadyNow
<1>2. /\ S \in Session /\ S.last_recv <= ses["c"].last_sent
      /\ ServerPart(S, app["s"].answered)
  BY <1>1 DEF Ready, SessionInv, Conn
<1>3. /\ S.goaway = {} /\ ses' = [ses EXCEPT !["s"] = T] /\ net' = net /\ app' = app
  BY <1>1, <1>2 DEF SubmitShutdownNotice, nghttp2_session_add_goaway, Session
<1>4. S.local_last \in Int /\ LastStream \in Int
  <2>1. S.local_last \in Int
    BY <1>2 DEF Session
  <2> QED
    BY <2>1, SessionConstants DEF SessionConstants, LastStream
<1>5. ~(S.local_last < LastStream)
  BY <1>2, <1>3 DEF ServerPart
<1>6. f \in RegularItems /\ f.type = "GOAWAY" /\ f.last >= LastStream
  <2>1. LeastOf(LastStream, S.local_last) = LastStream
    BY <1>4, <1>5 DEF LeastOf
  <2> QED
    BY <1>4, <2>1 DEF RegularItems, GoawayItems
<1> HIDE DEF f
<1>7. l \in Seq(RegularItems) /\ g \in SUBSET Flags /\ "submitted" \in g
      /\ S.goaway \subseteq g
  <2>1. S.reg \in Seq(RegularItems) /\ S.goaway \in SUBSET Flags
    BY <1>2 DEF Session
  <2> QED
    BY <1>6, <2>1 DEF Flags
<1>8. ses'["s"] = T /\ ses'["c"] = ses["c"]
  BY <1>1, <1>3, SideKept
<1> HIDE DEF l, g, S
<1>9. /\ T \in Session /\ T.reg = l /\ T.streams = S.streams /\ T.aob = S.aob
      /\ T.last_recv = S.last_recv /\ T.last_proc = S.last_proc
      /\ T.local_last = S.local_last /\ T.goaway = g
  BY <1>2, <1>7 DEF Session
<1> HIDE DEF T
<1>10. S.last_recv <= T.last_recv /\ T.last_recv <= ses["c"].last_sent
  <2>1. S.last_recv \in Nat
    BY <1>2 DEF Session
  <2> QED
    BY <1>2, <1>9, <2>1
<1>11. Conn(ses["c"], T, app["s"].answered, net["s"], net["c"])
  <2>1. T.reg = Append(S.reg, f)
    BY <1>9 DEF l
  <2>2. f.type # "HEADERS" /\ f.type # "RST_STREAM"
    BY <1>6
  <2> QED
    BY <1>1, <1>6, <1>7, <1>9, <1>10, <2>1, <2>2, FrameAdded
<1> QED
  BY <1>3, <1>8, <1>11 DEF Inv2

LEMMA SubmittedInv2 ==
    ASSUME Inv1, Inv2, NEW p \in Sides,
           \/ SubmitGoaway(p) \/ Terminate(p)
           \/ \E id \in Ids : SubmitRstStream(p, id) \/ Consume(p, id)
           \/ \E iv \in Changes[p] : SubmitSettings(p, iv)
    PROVE  Inv2'
<1>1. SessionInv(ses[p]) /\ ses \in [Sides -> Session]
  BY SideInv DEF Inv1
<1>2. app \in [Sides -> Apps] /\ "s" \in Sides
  BY DEF Inv1, Sides
<1>3. CASE SubmitGoaway(p)
  <2>1. Moved(ses[p], nghttp2_session_add_goaway(ses[p], ses[p].last_proc, "none"), {})
    BY <1>1, AddGoaway DEF Keeps, Holds
  <2>2. ses' = [ses EXCEPT ![p] = nghttp2_session_add_goaway(ses[p], ses[p].last_proc, "none")]
    BY <1>1, <1>3 DEF SubmitGoaway
  <2>3. app'["s"].answered = app["s"].answered
    BY <1>2, <1>3 DEF SubmitGoaway, Apps
  <2>4. net' = net
    BY <1>3 DEF SubmitGoaway
  <2> QED
    BY <2>1, <2>2, <2>3, <2>4, CallInv2
<1>4. CASE Terminate(p)
  <2>1. Moved(ses[p], nghttp2_session_terminate_session(ses[p], "none"), {})
    <3>1. "none" \in Errors
      BY DEF Errors
    <3> QED
      BY <1>1, <3>1, TerminateSession DEF Keeps, Holds
  <2>2. ses' = [ses EXCEPT ![p] = nghttp2_session_terminate_session(ses[p], "none")]
    BY <1>1, <1>4 DEF Terminate
  <2>3. net' = net /\ app' = app
    BY <1>4 DEF Terminate
  <2> QED
    BY <2>1, <2>2, <2>3, CallInv2
<1>5. ASSUME NEW id \in Ids, SubmitRstStream(p, id) PROVE Inv2'
  <2>1. "cancel" \in Faults \ {"refused"}
    BY DEF Reasons, Faults
  <2>2. Moved(ses[p], nghttp2_session_add_rst_stream(ses[p], id, "cancel"), {})
    BY <1>1, <2>1, AddRstStream DEF Keeps, Holds
  <2>3. /\ ses' = [ses EXCEPT ![p] = nghttp2_session_add_rst_stream(ses[p], id, "cancel")]
        /\ net' = net
    BY <1>1, <1>5 DEF SubmitRstStream
  <2>4. app'["s"].answered = app["s"].answered
    BY <1>2, <1>5 DEF SubmitRstStream, Apps
  <2> QED
    BY <2>2, <2>3, <2>4, CallInv2
<1>6. ASSUME NEW id \in Ids, Consume(p, id) PROVE Inv2'
  <2>1. app[p].held[id] \in Int
    BY <1>2 DEF Apps
  <2>2. Moved(ses[p], nghttp2_session_consume(ses[p], id, app[p].held[id]), {})
    BY <1>1, <2>1, ConsumeKept DEF Keeps, Holds
  <2>3. /\ ses' = [ses EXCEPT ![p] = nghttp2_session_consume(ses[p], id, app[p].held[id])]
        /\ net' = net
    BY <1>1, <1>6 DEF Consume
  <2>4. app'["s"].answered = app["s"].answered
    BY <1>2, <1>6 DEF Consume, Apps
  <2> QED
    BY <2>2, <2>3, <2>4, CallInv2
<1>7. ASSUME NEW iv \in Changes[p], SubmitSettings(p, iv) PROVE Inv2'
  <2>1. iv \in Entries
    BY Http2Constants DEF Http2Constants
  <2>2. Moved(ses[p], nghttp2_session_add_settings(ses[p], iv), {})
    BY <1>1, <2>1, AddSettings
  <2>3. /\ ses' = [ses EXCEPT ![p] = nghttp2_session_add_settings(ses[p], iv)]
        /\ net' = net /\ app' = app
    BY <1>1, <1>7 DEF SubmitSettings
  <2> QED
    BY <2>2, <2>3, CallInv2
<1> QED
  BY <1>3, <1>4, <1>5, <1>6, <1>7

LEMMA PopInv2 ==
    ASSUME Inv1, Inv2, NEW p \in Sides, Pop(p) PROVE Inv2'
<1>1. /\ Ready(ses["c"], ses["s"], app["s"].answered, net["s"], net["c"])
      /\ ses \in [Sides -> Session] /\ app \in [Sides -> Apps] /\ "s" \in Sides
  BY ReadyNow
<1>2. PICK t : ses' = [ses EXCEPT ![p] = t] /\ Pops(ses[p], t)
  BY PopKept
<1>3. ses[p].aob = <<>> /\ net' = net
  BY DEF Pop
<1>4. app'["s"].answered = app["s"].answered
  <2>1. CASE app' = app
    BY <2>1
  <2>2. CASE PopData(p)
    <3>1. PICK id \in Sendable(ses[p]) :
             LET u == PrepData(ses[p], id, app[p].left[id])
             IN  app' = IF u.aob = <<>> THEN app
                        ELSE [app EXCEPT ![p].left[id] = @ - u.aob[1].len]
      BY <2>2 DEF PopData
    <3> DEFINE n == app[p].left[id] - PrepData(ses[p], id, app[p].left[id]).aob[1].len
               l == [app[p].left EXCEPT ![id] = n]
               a == [app[p] EXCEPT !.left = l]
    <3>2. app' = app \/ app' = [app EXCEPT ![p] = a]
      BY <1>1, <3>1 DEF Apps
    <3> HIDE DEF l
    <3>3. a.answered = app[p].answered
      BY <1>1 DEF Apps
    <3> HIDE DEF a
    <3> QED
      BY <1>1, <3>2, <3>3
  <2> QED
    BY <2>1, <2>2 DEF Pop, PopUrgent, PopRegular, PopRequest
<1>5. CASE p = "s"
  <2>1. ses'["s"] = t /\ ses'["c"] = ses["c"]
    BY <1>1, <1>2, <1>5, SideKept
  <2>2. Conn(ses["c"], t, app["s"].answered, net["s"], net["c"])
    BY <1>1, <1>2, <1>3, <1>5, ServerPops
  <2> QED
    BY <1>3, <1>4, <2>1, <2>2 DEF Inv2
<1>6. CASE p = "c"
  <2>1. ses'["c"] = t /\ ses'["s"] = ses["s"]
    BY <1>1, <1>2, <1>6, SideKept
  <2>2. Conn(t, ses["s"], app["s"].answered, net["s"], net["c"])
    BY <1>1, <1>2, <1>3, <1>6, ClientPops
  <2> QED
    BY <1>3, <1>4, <2>1, <2>2 DEF Inv2
<1> QED
  BY <1>5, <1>6 DEF Sides

LEMMA SentInv2 ==
    ASSUME Inv1, Inv2, NEW p \in Sides, Sent(p) PROVE Inv2'
<1> DEFINE f == ses[p].aob[1]
           A == app["s"].answered
<1>1. /\ Ready(ses["c"], ses["s"], A, net["s"], net["c"])
      /\ ses \in [Sides -> Session] /\ app \in [Sides -> Apps]
      /\ net \in [Sides -> Seq(WireFrames)] /\ "c" \in Sides /\ "s" \in Sides
  BY ReadyNow
<1>2. PICK t : /\ ses' = [ses EXCEPT ![p] = t] /\ f \in PreparedItems
               /\ Sends(ses[p], t, f)
               /\ net' = [net EXCEPT ![Peer(p)] = Append(net[Peer(p)], Wire(f))]
               /\ app' = IF p = "s" /\ f.type = "HEADERS"
                         THEN [app EXCEPT ![p].answered = @ \cup {f.id}] ELSE app
  BY SentStep
<1>3. ses[p].aob # <<>>
  BY DEF Sent
<1>4. CASE p = "s"
  <2> DEFINE B == IF f.type = "HEADERS" THEN A \cup {f.id} ELSE A
  <2>1. ses'["s"] = t /\ ses'["c"] = ses["c"]
    BY <1>1, <1>2, <1>4, SideKept
  <2>2. net'["c"] = Append(net["c"], Wire(f)) /\ net'["s"] = net["s"]
    BY <1>1, <1>2, <1>4 DEF Peer
  <2>3. app'["s"].answered = B
    BY <1>1, <1>2, <1>4 DEF Apps
  <2> HIDE DEF A, B
  <2>4. Conn(ses["c"], t, B, net["s"], Append(net["c"], Wire(f)))
    <3>1. B = IF f.type = "HEADERS" THEN A \cup {f.id} ELSE A
      BY DEF B
    <3>2. f = ses["s"].aob[1]
      BY <1>4
    <3> HIDE DEF f
    <3> QED
      BY <1>1, <1>2, <1>3, <1>4, <3>1, <3>2, ServerSends
  <2> QED
    BY <2>1, <2>2, <2>3, <2>4 DEF Inv2
<1>5. CASE p = "c"
  <2>1. ses'["c"] = t /\ ses'["s"] = ses["s"]
    BY <1>1, <1>2, <1>5, SideKept
  <2>2. net'["s"] = Append(net["s"], Wire(f)) /\ net'["c"] = net["c"]
    BY <1>1, <1>2, <1>5 DEF Peer
  <2>3. app' = app
    BY <1>2, <1>5
  <2>4. Conn(t, ses["s"], A, Append(net["s"], Wire(f)), net["c"])
    <3>1. f = ses["c"].aob[1]
      BY <1>5
    <3> HIDE DEF f, A
    <3> QED
      BY <1>1, <1>2, <1>3, <1>5, <3>1, ClientSends
  <2> QED
    BY <2>1, <2>2, <2>3, <2>4 DEF Inv2
<1> QED
  BY <1>4, <1>5 DEF Sides

LEMMA RecvInv2 ==
    ASSUME Inv1, Inv2, NEW p \in Sides, Recv(p) PROVE Inv2'
<1> DEFINE f == Head(net[p])
           A == app["s"].answered
<1>1. /\ Ready(ses["c"], ses["s"], A, net["s"], net["c"])
      /\ ses \in [Sides -> Session] /\ app \in [Sides -> Apps]
      /\ net \in [Sides -> Seq(WireFrames)] /\ "c" \in Sides /\ "s" \in Sides
  BY ReadyNow
<1>2. PICK t : /\ ses' = [ses EXCEPT ![p] = t] /\ Receives(ses[p], t, f)
               /\ net[p] # <<>> /\ net' = [net EXCEPT ![p] = Tail(net[p])]
  BY RecvStep
<1>3. app'["s"].answered = A
  BY <1>1 DEF Recv, Apps
<1> HIDE DEF A
<1>4. CASE p = "s"
  <2>1. ses'["s"] = t /\ ses'["c"] = ses["c"]
    BY <1>1, <1>2, <1>4, SideKept
  <2>2. net'["s"] = Tail(net["s"]) /\ net'["c"] = net["c"]
    BY <1>1, <1>2, <1>4
  <2>3. Conn(ses["c"], t, A, Tail(net["s"]), net["c"])
    <3>1. f = Head(net["s"])
      BY <1>4
    <3> HIDE DEF f
    <3> QED
      BY <1>1, <1>2, <1>4, <3>1, ServerReceives
  <2> QED
    BY <1>3, <2>1, <2>2, <2>3 DEF Inv2
<1>5. CASE p = "c"
  <2>1. ses'["c"] = t /\ ses'["s"] = ses["s"]
    BY <1>1, <1>2, <1>5, SideKept
  <2>2. net'["c"] = Tail(net["c"]) /\ net'["s"] = net["s"]
    BY <1>1, <1>2, <1>5
  <2>3. Conn(t, ses["s"], A, net["s"], Tail(net["c"]))
    <3>1. f = Head(net["c"])
      BY <1>5
    <3> HIDE DEF f
    <3> QED
      BY <1>1, <1>2, <1>5, <3>1, ClientReceives
  <2> QED
    BY <1>3, <2>1, <2>2, <2>3 DEF Inv2
<1> QED
  BY <1>4, <1>5 DEF Sides

LEMMA NextInv2 == Inv1 /\ Inv2 /\ [Next]_vars => Inv2'
<1> SUFFICES ASSUME Inv1, Inv2, [Next]_vars PROVE Inv2'
  OBVIOUS
<1>1. CASE SubmitRequest
  BY <1>1, SubmitRequestInv2
<1>2. ASSUME NEW id \in Ids, SubmitResponse(id) PROVE Inv2'
  BY <1>2, SubmitResponseInv2
<1>3. ASSUME NEW p \in Sides,
             \/ SubmitGoaway(p) \/ Terminate(p)
             \/ \E id \in Ids : SubmitRstStream(p, id) \/ Consume(p, id)
             \/ \E iv \in Changes[p] : SubmitSettings(p, iv)
      PROVE  Inv2'
  BY <1>3, SubmittedInv2
<1>4. ASSUME NEW p \in Sides, SubmitShutdownNotice(p) PROVE Inv2'
  BY <1>4, SubmitNoticeInv2
<1>5. ASSUME NEW p \in Sides, Pop(p) PROVE Inv2'
  BY <1>5, PopInv2
<1>6. ASSUME NEW p \in Sides, Sent(p) PROVE Inv2'
  BY <1>6, SentInv2
<1>7. ASSUME NEW p \in Sides, Recv(p) PROVE Inv2'
  BY <1>7, RecvInv2
<1>8. CASE UNCHANGED vars
  BY <1>8 DEF vars, Inv2
<1> QED
  BY <1>1, <1>2, <1>3, <1>4, <1>5, <1>6, <1>7, <1>8 DEF Next

\* A request that on_stream_close_callback reports as refused (NGHTTP2_REFUSED_STREAM)
\* got no response, so the application may send it again: whether an RST_STREAM, a GOAWAY
\* that crossed the request or the client's own session refused it, and whatever responses
\* the server had queued or was writing when its GOAWAY was submitted.
THEOREM RefusedNotAnsweredAlways == Spec => []RefusedNotAnswered
<1>1. Inv2 => RefusedNotAnswered
  BY DEF Inv2, Conn, Truth, Ended, Doom, RefusedNotAnswered
<1> QED
  BY <1>1, Inv1Always, InitInv2, NextInv2, PTL DEF Spec
=============================================================================
