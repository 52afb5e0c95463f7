---------------------------- MODULE Http2EndProof ----------------------------
(***************************************************************************)
(* A stream that an end of an HTTP/2 connection of Http2 closes without    *)
(* error carried both bodies completely (CleanEndIsComplete).              *)
(*                                                                         *)
(* The half of a stream that this end sends is easy: its last frame is     *)
(* prepared when nothing of the body is left.  The half it receives needs  *)
(* an account of the octets between the two applications: what was handed  *)
(* over, what is on its way, what is being written and what is left add up *)
(* to the body, and a frame with END_STREAM is the one after which nothing *)
(* is missing (Account).  The account holds only while this end takes the  *)
(* payload (Receiving): a stream that it resets loses what arrives.  So    *)
(* the invariant says what becomes of those: an end of the peer's half may *)
(* be believed although octets are missing, but then an RST_STREAM for the *)
(* stream is queued, and until it leaves this end does not end its own     *)
(* half (Excused).                                                         *)
(***************************************************************************)
EXTENDS Http2RefusedProof

-----------------------------------------------------------------------------
(* The invariant.                                                          *)

Term(s) == "term_on_send" \in s.goaway

\* What the frame f says of the body of the stream id.
DataLen(f, id) == IF f.type = "DATA" /\ f.id = id THEN f.len ELSE 0
Ends(f, id) == f.type \in {"HEADERS", "DATA"} /\ f.id = id /\ f.end

DataIds(q) == {id \in Ids : \E i \in 1..Len(q) : q[i].type = "DATA" /\ q[i].id = id}
Rst(q, id) == \E i \in 1..Len(q) : q[i].type = "RST_STREAM" /\ q[i].id = id

\* An RST_STREAM for id waits to be written.
Resets(s, id) == Rst(s.reg, id) \/ Rst(s.aob, id)

\* The server may take the peer's half of id for ended although octets are missing: it
\* did not end its own half, and will not before it resets the stream.
Excused(s, id) ==
    /\ s.server /\ ~s.streams[id].wr /\ id \notin DataIds(s.aob)
    /\ Term(s) \/ Resets(s, id)

\* What the halves of an open stream say, with left octets to send, got received and
\* peer the length of the other body.
Shut(s, id, left, got, peer) ==
    /\ s.streams[id].wr => left[id] = 0
    /\ s.streams[id].rd /\ s.streams[id].wr => got[id] = peer

Half(s, id, left, got, peer) ==
    /\ Shut(s, id, left, got, peer)
    /\ s.streams[id].state = "closing" => Term(s) \/ Resets(s, id)
    /\ s.streams[id].rd => got[id] = peer \/ Excused(s, id)
    /\ s.server /\ s.streams[id].state # "closing" /\ Resets(s, id) /\ ~Term(s)
         => ~s.streams[id].wr /\ id \notin DataIds(s.aob)
    /\ s.server /\ id \in HeadersIds(s.aob) => ~s.streams[id].wr

Used(s) == IF s.server THEN s.last_recv ELSE s.last_sent

\* What one end knows; of the streams in ex only Shut is known.
Settled(s, left, got, own, peer, ex) ==
    /\ IgnoresOnTerm(s)
    /\ \A i \in 1..Len(s.syn) : s.syn[i].end => own = 0
    /\ \A id \in Active(s) : Shut(s, id, left, got, peer)
    /\ \A id \in Active(s) \ ex : Half(s, id, left, got, peer)
    /\ \A id \in Ids : s.reason[id] = "no_error" =>
          id \notin Active(s) /\ id <= Used(s) /\ left[id] = 0 /\ got[id] = peer

\* The frame being written: END_STREAM is on the last octets, a response never has it,
\* and the server writes DATA only for requests it saw.
Writing(s, left) ==
    \A i \in 1..Len(s.aob) :
       /\ \A id \in Ids : Ends(s.aob[i], id) => left[id] = 0
       /\ s.server /\ s.aob[i].type = "HEADERS" => ~s.aob[i].end
       /\ s.server /\ s.aob[i].type = "DATA" => s.aob[i].id <= s.last_recv

Side(s, left, got, own, peer) ==
    /\ Settled(s, left, got, own, peer, {}) /\ Writing(s, left)
    /\ \A id \in Ids : left[id] \in 0..own

\* The end s will hand what arrives for id to the application.
Receiving(s, id) ==
    /\ ~Term(s)
    /\ IF s.server
       THEN \/ id > s.last_recv /\ nghttp2_session_want_read(s)
            \/ id \in Active(s) /\ ~Resets(s, id)
       ELSE \/ id > s.last_sent
            \/ id \in Active(s) /\ (s.streams[id].state # "closing" \/ id \in HeadersIds(s.aob))

\* The octets of the body of id: got were handed over, the frames N are on their way, a
\* frame is being written, left are left.
Pending(aob, id) == IF aob = <<>> THEN 0 ELSE DataLen(aob[1], id)
Account(got, left, body, N, aob, id) ==
    \E g \in [0..Len(N) -> Int] :
       /\ g[0] = got
       /\ \A i \in 1..Len(N) : g[i] = g[i - 1] + DataLen(N[i], id)
       /\ \A i \in 1..Len(N) : Ends(N[i], id) => g[i] = body
       /\ g[Len(N)] + Pending(aob, id) + left = body

\* The requests the client did not send yet come after those that the server saw and
\* those on their way; what the server sends on a stream follows its request.
Ordered(c, S, N, M) ==
    /\ \A id \in Ids : id > c.last_sent \/ id \in HeadersIds(c.aob) =>
          id > S.last_recv /\ \A h \in HeadersIds(N) : h < id
    /\ \A id \in DataIds(M) : id <= S.last_recv

Inv3 ==
    /\ \A p \in Sides : Side(ses[p], app[p].left, app[p].got, BodyLen[p], BodyLen[Peer(p)])
    /\ Ordered(ses["c"], ses["s"], net["s"], net["c"])
    /\ \A p \in Sides, id \in Ids : Receiving(ses[p], id) =>
          Account(app[p].got[id], app[Peer(p)].left[id], BodyLen[Peer(p)], net[p],
                  ses[Peer(p)].aob, id)

-----------------------------------------------------------------------------
(* Frames in sequences.                                                    *)

LEMMA NoFrames ==
    /\ \A id : ~Rst(<<>>, id) /\ id \notin DataIds(<<>>)
    /\ \A id : id \notin HeadersIds(<<>>)
  BY DEF Rst, DataIds, HeadersIds

LEMMA OneFrame ==
    ASSUME NEW f
    PROVE  /\ \A id : Rst(<<f>>, id) <=> f.type = "RST_STREAM" /\ f.id = id
           /\ \A id : id \in DataIds(<<f>>) <=> id \in Ids /\ f.type = "DATA" /\ f.id = id
           /\ \A id : id \in HeadersIds(<<f>>) <=> id \in Ids /\ f.type = "HEADERS" /\ f.id = id
  BY DEF Rst, DataIds, HeadersIds

LEMMA AppendFrame ==
    ASSUME NEW T, NEW q \in Seq(T), NEW f \in T
    PROVE  /\ \A id : Rst(Append(q, f), id) <=>
                 Rst(q, id) \/ (f.type = "RST_STREAM" /\ f.id = id)
           /\ \A id : id \in DataIds(Append(q, f)) =>
                 id \in DataIds(q) \/ (f.type = "DATA" /\ f.id = id)
<1> DEFINE a == Append(q, f)
<1>1. /\ Len(q) \in Nat /\ Len(a) = Len(q) + 1
      /\ \A i \in 1..Len(q) : a[i] = q[i]
      /\ a[Len(q) + 1] = f
  OBVIOUS
<1> HIDE DEF a
<1>2. \A i \in 1..Len(a) : i \in 1..Len(q) \/ i = Len(q) + 1
  BY <1>1
<1>3. \A i \in 1..Len(q) : i \in 1..Len(a)
  BY <1>1
<1>4. Len(q) + 1 \in 1..Len(a)
  BY <1>1
<1>5. ASSUME NEW id PROVE Rst(a, id) <=> Rst(q, id) \/ (f.type = "RST_STREAM" /\ f.id = id)
  BY <1>1, <1>2, <1>3, <1>4 DEF Rst
<1>6. \A id : id \in DataIds(a) => id \in DataIds(q) \/ (f.type = "DATA" /\ f.id = id)
  BY <1>1, <1>2 DEF DataIds
<1> QED
  BY <1>5, <1>6 DEF a

LEMMA TailFrame ==
    ASSUME NEW T, NEW q \in Seq(T), q # <<>>
    PROVE  /\ \A id : Rst(q, id) <=>
                 Rst(Tail(q), id) \/ (Head(q).type = "RST_STREAM" /\ Head(q).id = id)
           /\ DataIds(Tail(q)) \subseteq DataIds(q) /\ HeadersIds(Tail(q)) \subseteq HeadersIds(q)
           /\ \A id \in Ids : /\ Head(q).type = "DATA" /\ Head(q).id = id => id \in DataIds(q)
                              /\ Head(q).type = "HEADERS" /\ Head(q).id = id => id \in HeadersIds(q)
<1> DEFINE a == Tail(q)
           h == Head(q)
<1>1. /\ Len(q) \in Nat /\ Len(q) > 0 /\ Len(a) = Len(q) - 1 /\ h = q[1]
      /\ \A i \in 1..Len(a) : a[i] = q[i + 1]
  OBVIOUS
<1> HIDE DEF a, h
<1>2. /\ 1 \in 1..Len(q)
      /\ \A i \in 1..Len(a) : i + 1 \in 1..Len(q)
      /\ \A i \in 1..Len(q) : i = 1 \/ (i - 1 \in 1..Len(a) /\ a[i - 1] = q[i])
  BY <1>1
<1>3. ASSUME NEW id PROVE Rst(q, id) <=> Rst(a, id) \/ (h.type = "RST_STREAM" /\ h.id = id)
  <2>1. Rst(q, id) => Rst(a, id) \/ (h.type = "RST_STREAM" /\ h.id = id)
    BY <1>1, <1>2 DEF Rst
  <2>2. Rst(a, id) => Rst(q, id)
    BY <1>1, <1>2 DEF Rst
  <2>3. h.type = "RST_STREAM" /\ h.id = id => Rst(q, id)
    BY <1>1, <1>2 DEF Rst
  <2> QED
    BY <2>1, <2>2, <2>3
<1>4. DataIds(a) \subseteq DataIds(q) /\ HeadersIds(a) \subseteq HeadersIds(q)
  BY <1>1, <1>2 DEF DataIds, HeadersIds
<1>5. \A id \in Ids : /\ h.type = "DATA" /\ h.id = id => id \in DataIds(q)
                      /\ h.type = "HEADERS" /\ h.id = id => id \in HeadersIds(q)
  BY <1>1, <1>2 DEF DataIds, HeadersIds
<1> QED
  BY <1>3, <1>4, <1>5 DEF a, h

-----------------------------------------------------------------------------
(* What the functions of a session leave settled.                          *)

LEMMA UsedIds ==
    ASSUME NEW s, SessionInv(s), NEW id \in Active(s)
    PROVE  id \in Ids /\ id \in Nat /\ id <= Used(s)
<1>1. s \in Session /\ id \in DOMAIN s.streams
  BY DEF SessionInv, Active
<1>2. id \in Ids /\ id \in Nat
  BY <1>1, StreamType, IdsNat
<1>3. s.last_proc \in Nat /\ s.last_recv \in Nat /\ s.last_proc <= s.last_recv
  BY <1>1 DEF Session, SessionInv
<1>4. CASE s.server
  BY <1>1, <1>2, <1>3, <1>4 DEF SessionInv, Used
<1>5. CASE ~s.server
  BY <1>1, <1>2, <1>5 DEF SessionInv, Used
<1> QED
  BY <1>2, <1>4, <1>5

\* Nothing that a session moved on without ending a half forgets an RST_STREAM.
LEMMA ResetsMoved ==
    ASSUME NEW s, SessionInv(s), NEW t, NEW R, Moved(s, t, R), NEW id
    PROVE  /\ Resets(s, id) => Resets(t, id)
           /\ Resets(t, id) => \/ Resets(s, id)
                               \/ \E i \in Len(s.reg) + 1 .. Len(t.reg) :
                                    t.reg[i].type = "RST_STREAM" /\ t.reg[i].id = id
           /\ (\E i \in Len(s.reg) + 1 .. Len(t.reg) :
                 t.reg[i].type = "RST_STREAM" /\ t.reg[i].id = id) => Resets(t, id)
<1>1. /\ Len(s.reg) \in Nat /\ Len(t.reg) \in Nat /\ Len(s.reg) <= Len(t.reg)
      /\ \A i \in 1..Len(s.reg) : t.reg[i] = s.reg[i]
      /\ t.aob = s.aob
  BY Lengths DEF SessionInv, Moved, Follows
<1>2. /\ \A i \in 1..Len(s.reg) : i \in 1..Len(t.reg)
      /\ \A i \in 1..Len(t.reg) : i \in 1..Len(s.reg) \/ i \in Len(s.reg) + 1 .. Len(t.reg)
      /\ \A i \in Len(s.reg) + 1 .. Len(t.reg) : i \in 1..Len(t.reg)
  BY <1>1
<1> QED
  BY <1>1, <1>2 DEF Resets, Rst

LEMMA HalfMoved ==
    ASSUME NEW s, SessionInv(s), NEW t, NEW R, Moved(s, t, R), Calm(s, t),
           NEW left, NEW got, NEW peer, NEW id \in Active(t)
    PROVE  /\ id \in Active(s)
           /\ Shut(s, id, left, got, peer) => Shut(t, id, left, got, peer)
           /\ Half(s, id, left, got, peer) => Half(t, id, left, got, peer)
           /\ t.streams[id].state # "closing" => s.streams[id].state # "closing"
           /\ Excused(s, id) => Excused(t, id)
<1>1. /\ id \in Active(s) /\ t.server = s.server /\ t.aob = s.aob
      /\ Term(s) => Term(t)
  BY DEF Moved, Follows, Term
<1>2. t.streams[id].rd = s.streams[id].rd /\ t.streams[id].wr = s.streams[id].wr
  BY DEF Calm
<1>3. t.streams[id].state # "closing" => s.streams[id].state # "closing"
  BY DEF Calm
<1>4. t.streams[id].state = "closing" /\ s.streams[id].state # "closing" => Resets(t, id)
  BY ResetsMoved DEF Calm
<1>5. Resets(s, id) => Resets(t, id)
  BY ResetsMoved
<1>6. t.streams[id].state # "closing" /\ Resets(t, id) => Resets(s, id)
  <2> SUFFICES ASSUME Resets(t, id), ~Resets(s, id) PROVE t.streams[id].state = "closing"
    OBVIOUS
  <2>1. PICK i \in Len(s.reg) + 1 .. Len(t.reg) :
            t.reg[i].type = "RST_STREAM" /\ t.reg[i].id = id
    BY ResetsMoved
  <2> QED
    BY <2>1 DEF Calm
<1>7. Shut(s, id, left, got, peer) => Shut(t, id, left, got, peer)
  BY <1>2 DEF Shut
<1>8. Excused(s, id) => Excused(t, id)
  BY <1>1, <1>2, <1>5 DEF Excused
<1>9. ASSUME Half(s, id, left, got, peer) PROVE Half(t, id, left, got, peer)
  <2>1. t.streams[id].state = "closing" => Term(t) \/ Resets(t, id)
    BY <1>1, <1>4, <1>5, <1>9 DEF Half
  <2>2. t.streams[id].rd => got[id] = peer \/ Excused(t, id)
    BY <1>2, <1>8, <1>9 DEF Half
  <2>3. t.server /\ t.streams[id].state # "closing" /\ Resets(t, id) /\ ~Term(t)
          => ~t.streams[id].wr /\ id \notin DataIds(t.aob)
    BY <1>1, <1>2, <1>3, <1>6, <1>9 DEF Half
  <2>4. t.server /\ id \in HeadersIds(t.aob) => ~t.streams[id].wr
    BY <1>1, <1>2, <1>9 DEF Half
  <2> QED
    BY <1>7, <1>9, <2>1, <2>2, <2>3, <2>4 DEF Half
<1> QED
  BY <1>1, <1>3, <1>7, <1>8, <1>9

LEMMA SettledMoved ==
    ASSUME NEW s, SessionInv(s), NEW t, NEW R, Moved(s, t, R), Calm(s, t),
           NEW left, NEW got, NEW own, NEW peer, NEW ex, Settled(s, left, got, own, peer, ex)
    PROVE  Settled(t, left, got, own, peer, ex)
<1>1. IgnoresOnTerm(t)
  BY DEF Calm, Settled
<1>2. \A i \in 1..Len(t.syn) : t.syn[i].end => own = 0
  BY DEF Calm, Settled, Moved, Follows
<1>3. \A id \in Active(t) : Shut(t, id, left, got, peer)
  BY HalfMoved DEF Settled
<1>4. \A id \in Active(t) \ ex : Half(t, id, left, got, peer)
  BY HalfMoved DEF Settled
<1>5. Used(t) = Used(s)
  BY DEF Moved, Follows, Used
<1>6. ASSUME NEW id \in Ids, t.reason[id] = "no_error"
      PROVE  id \notin Active(t) /\ id <= Used(t) /\ left[id] = 0 /\ got[id] = peer
  <2>1. CASE s.reason[id] = "no_error"
    BY <1>5, <2>1 DEF Settled, Moved, Follows
  <2>2. CASE s.reason[id] # "no_error"
    <3>1. id \in Active(s) /\ id \notin Active(t) /\ s.streams[id].rd /\ s.streams[id].wr
      BY <1>6, <2>2 DEF Calm
    <3>2. left[id] = 0 /\ got[id] = peer
      BY <3>1 DEF Settled, Shut
    <3> QED
      BY <1>5, <3>1, <3>2, UsedIds
  <2> QED
    BY <2>1, <2>2
<1> QED
  BY <1>1, <1>2, <1>3, <1>4, <1>6 DEF Settled

LEMMA SettledAll ==
    ASSUME NEW s, NEW left, NEW got, NEW own, NEW peer, NEW ex, ex \cap Active(s) = {},
           Settled(s, left, got, own, peer, ex)
    PROVE  Settled(s, left, got, own, peer, {})
  BY DEF Settled

\* t has the streams of s; frames went into its queues or left them, but no RST_STREAM for
\* an open stream outside ex was lost unless the session is being terminated, DATA is
\* written only for a stream that is not reset and HEADERS only before its half ended.
Passes(s, t, ex) ==
    /\ t.server = s.server /\ Active(t) = Active(s) /\ Used(s) <= Used(t)
    /\ \A id \in Active(s) :
          /\ t.streams[id].state = s.streams[id].state
          /\ t.streams[id].rd = s.streams[id].rd /\ t.streams[id].wr = s.streams[id].wr
    /\ \A id \in Ids : t.reason[id] = "no_error" => s.reason[id] = "no_error"
    /\ Term(t) <=> Term(s)
    /\ t.ign_all = s.ign_all
    /\ \A id \in Active(s) \ ex :
          /\ Term(s) \/ (Resets(t, id) <=> Resets(s, id))
          /\ id \in DataIds(t.aob) => id \in DataIds(s.aob) \/ (~Resets(s, id) /\ ~Term(s))
          /\ id \in HeadersIds(t.aob) => id \in HeadersIds(s.aob) \/ ~s.streams[id].wr

LEMMA SettledPasses ==
    ASSUME NEW s, SessionInv(s), NEW t, SessionInv(t), NEW ex, Passes(s, t, ex),
           NEW left, NEW got, NEW own, NEW peer, Settled(s, left, got, own, peer, {}),
           \A i \in 1..Len(t.syn) : t.syn[i].end => own = 0
    PROVE  Settled(t, left, got, own, peer, ex)
<1>1. IgnoresOnTerm(t)
  BY DEF Passes, Settled, IgnoresOnTerm, Term
<1>2. \A id \in Active(t) : Shut(t, id, left, got, peer)
  BY DEF Passes, Settled, Shut
<1>3. ASSUME NEW id \in Active(t) \ ex PROVE Half(t, id, left, got, peer)
  <2>1. /\ id \in Active(s) /\ Half(s, id, left, got, peer)
        /\ t.server = s.server
        /\ t.streams[id].state = s.streams[id].state
        /\ t.streams[id].rd = s.streams[id].rd /\ t.streams[id].wr = s.streams[id].wr
    BY DEF Passes, Settled
  <2>2. /\ Term(t) <=> Term(s)
        /\ Term(s) \/ (Resets(t, id) <=> Resets(s, id))
        /\ id \in DataIds(t.aob) => id \in DataIds(s.aob) \/ (~Resets(s, id) /\ ~Term(s))
        /\ id \in HeadersIds(t.aob) => id \in HeadersIds(s.aob) \/ ~s.streams[id].wr
    BY <2>1 DEF Passes
  <2>3. Shut(t, id, left, got, peer)
    BY <1>2
  <2>4. t.streams[id].state = "closing" => Term(t) \/ Resets(t, id)
    BY <2>1, <2>2 DEF Half
  <2>5. t.streams[id].rd => got[id] = peer \/ Excused(t, id)
    BY <2>1, <2>2 DEF Half, Excused
  <2>6. t.server /\ t.streams[id].state # "closing" /\ Resets(t, id) /\ ~Term(t)
          => ~t.streams[id].wr /\ id \notin DataIds(t.aob)
    BY <2>1, <2>2 DEF Half
  <2>7. t.server /\ id \in HeadersIds(t.aob) => ~t.streams[id].wr
    BY <2>1, <2>2 DEF Half
  <2> QED
    BY <2>3, <2>4, <2>5, <2>6, <2>7 DEF Half
<1>4. ASSUME NEW id \in Ids, t.reason[id] = "no_error"
      PROVE  id \notin Active(t) /\ id <= Used(t) /\ left[id] = 0 /\ got[id] = peer
  <2>1. id \notin Active(t) /\ id <= Used(s) /\ left[id] = 0 /\ got[id] = peer
    BY <1>4 DEF Passes, Settled
  <2>2. Used(s) \in Nat /\ Used(t) \in Nat /\ id \in Nat /\ Used(s) <= Used(t)
    BY IdsNat DEF Used, SessionInv, Session, Passes
  <2> QED
    BY <2>1, <2>2
<1> QED
  BY <1>1, <1>2, <1>3, <1>4 DEF Settled

\* t is s with the stream n opened, of which neither half ended.
Adds(s, t, n) ==
    /\ t.server = s.server /\ Active(t) = Active(s) \cup {n} /\ n \in Ids
    /\ Used(s) < n /\ n <= Used(t)
    /\ \A id \in Active(s) : t.streams[id] = s.streams[id]
    /\ t.streams[n].state # "closing" /\ ~t.streams[n].rd /\ ~t.streams[n].wr
    /\ t.reason = s.reason /\ t.goaway = s.goaway /\ t.ign_all = s.ign_all /\ t.reg = s.reg
    /\ \/ t.aob = s.aob /\ n \notin DataIds(s.aob)
       \/ ~s.server /\ \A id \in Ids : Rst(t.aob, id) <=> Rst(s.aob, id)

LEMMA SettledAdds ==
    ASSUME NEW s, SessionInv(s), NEW t, SessionInv(t), NEW n, Adds(s, t, n),
           NEW left, NEW got, NEW own, NEW peer, Settled(s, left, got, own, peer, {}),
           \A i \in 1..Len(t.syn) : t.syn[i].end => own = 0
    PROVE  Settled(t, left, got, own, peer, {})
<1>1. IgnoresOnTerm(t) /\ (Term(t) <=> Term(s))
  BY DEF Adds, Settled, IgnoresOnTerm, Term
<1>2. \A id \in Active(s) : Resets(t, id) <=> Resets(s, id)
  BY UsedIds DEF Adds, Resets
<1>3. \A id \in Active(t) : Shut(t, id, left, got, peer)
  BY DEF Adds, Settled, Shut
<1>4. ASSUME NEW id \in Active(s) PROVE Half(t, id, left, got, peer)
  <2>1. /\ Half(s, id, left, got, peer) /\ t.server = s.server
        /\ t.streams[id] = s.streams[id] /\ (s.server => t.aob = s.aob)
    BY DEF Adds, Settled
  <2> QED
    BY <1>1, <1>2, <2>1 DEF Half, Excused, Shut
<1>5. Half(t, n, left, got, peer)
  BY DEF Adds, Half, Shut
<1>6. ASSUME NEW id \in Ids, t.reason[id] = "no_error"
      PROVE  id \notin Active(t) /\ id <= Used(t) /\ left[id] = 0 /\ got[id] = peer
  <2>1. id \notin Active(s) /\ id <= Used(s) /\ left[id] = 0 /\ got[id] = peer
    BY <1>6 DEF Adds, Settled
  <2>2. Used(s) \in Nat /\ Used(t) \in Nat /\ id \in Nat /\ n \in Nat /\ Used(s) < n /\ n <= Used(t)
    BY IdsNat DEF Used, SessionInv, Session, Adds
  <2> QED
    BY <2>1, <2>2 DEF Adds
<1> QED
  BY <1>1, <1>3, <1>4, <1>5, <1>6 DEF Settled, Adds

\* t is s with one stream changed.
LEMMA SettledEdit ==
    ASSUME NEW s, SessionInv(s), NEW t, Retouched(s, t), NEW n,
           \A i \in DOMAIN s.streams \ {n} : t.streams[i] = s.streams[i],
           NEW left, NEW got, NEW own, NEW peer, Settled(s, left, got, own, peer, {}),
           n \in Active(s) => Half(t, n, left, got, peer)
    PROVE  Settled(t, left, got, own, peer, {})
<1>1. /\ Active(t) = Active(s) /\ Used(t) = Used(s) /\ t.server = s.server /\ t.reg = s.reg
      /\ t.aob = s.aob /\ t.reason = s.reason /\ t.syn = s.syn /\ (Term(s) => Term(t))
      /\ Active(s) \subseteq DOMAIN s.streams /\ (IgnoresOnTerm(s) => IgnoresOnTerm(t))
  BY DEF Retouched, Active, Used, Term
<1>2. ASSUME NEW id \in Active(s), id # n PROVE Half(t, id, left, got, peer)
  <2>1. Half(s, id, left, got, peer) /\ t.streams[id] = s.streams[id]
    BY <1>1, <1>2 DEF Settled
  <2>2. Resets(t, id) <=> Resets(s, id)
    BY <1>1 DEF Resets
  <2> QED
    BY <1>1, <2>1, <2>2 DEF Half, Excused, Shut
<1>3. \A id \in Active(t) : Half(t, id, left, got, peer) /\ Shut(t, id, left, got, peer)
  BY <1>1, <1>2 DEF Half
<1> QED
  BY <1>1, <1>3 DEF Settled

\* Octets left or received for a stream count only for the half that ended.
LEMMA SettledCounts ==
    ASSUME NEW s, NEW left, NEW got, NEW own, NEW peer, Settled(s, left, got, own, peer, {}),
           NEW n \in Active(s), NEW more, NEW less,
           \A id \in Ids : id # n => more[id] = got[id] /\ less[id] = left[id],
           Active(s) \subseteq Ids,
           more[n] = got[n] \/ ~s.streams[n].rd, less[n] = left[n] \/ ~s.streams[n].wr
    PROVE  Settled(s, less, more, own, peer, {})
<1>1. \A id \in Active(s) : Half(s, id, left, got, peer)
  BY DEF Settled
<1>2. \A id \in Active(s) : Half(s, id, less, more, peer)
  BY <1>1 DEF Half, Shut
<1>3. \A id \in Active(s) : Shut(s, id, less, more, peer)
  BY <1>2 DEF Half
<1> QED
  BY <1>2, <1>3 DEF Settled

-----------------------------------------------------------------------------
(* Whether an end takes what arrives.                                      *)

\* What a step may do to s without starting to take what it did not take before.
Narrows(s, t) ==
    /\ t.server = s.server /\ (Term(s) => Term(t))
    /\ s.last_recv <= t.last_recv /\ s.last_sent <= t.last_sent
    /\ nghttp2_session_want_read(t) => nghttp2_session_want_read(s)
    /\ HeadersIds(t.aob) \subseteq HeadersIds(s.aob)
    /\ \A id \in Active(t) :
          /\ id \in Active(s)
          /\ s.server /\ Resets(s, id) => Resets(t, id)
          /\ ~s.server /\ t.streams[id].state # "closing" =>
                s.streams[id].state # "closing" \/ id \in HeadersIds(s.aob)

LEMMA NarrowsReceiving ==
    ASSUME NEW s, SessionInv(s), NEW t, SessionInv(t), Narrows(s, t), NEW id \in Ids,
           Receiving(t, id)
    PROVE  Receiving(s, id)
<1>1. /\ t.server = s.server /\ ~Term(s) /\ id \in Nat
      /\ s.last_recv \in Nat /\ t.last_recv \in Nat /\ s.last_sent \in Nat /\ t.last_sent \in Nat
      /\ s.last_recv <= t.last_recv /\ s.last_sent <= t.last_sent
  BY IdsNat DEF Narrows, Receiving, SessionInv, Session
<1>2. CASE s.server
  <2>1. CASE id > t.last_recv /\ nghttp2_session_want_read(t)
    <3>1. id > s.last_recv /\ nghttp2_session_want_read(s)
      BY <1>1, <2>1 DEF Narrows
    <3> QED
      BY <1>1, <1>2, <3>1 DEF Receiving
  <2>2. CASE id \in Active(t) /\ ~Resets(t, id)
    <3>1. id \in Active(s) /\ ~Resets(s, id)
      BY <1>2, <2>2 DEF Narrows
    <3> QED
      BY <1>1, <1>2, <3>1 DEF Receiving
  <2> QED
    BY <1>1, <1>2, <2>1, <2>2 DEF Receiving
<1>3. CASE ~s.server
  <2>1. CASE id > t.last_sent
    <3>1. id > s.last_sent
      BY <1>1, <2>1
    <3> QED
      BY <1>1, <1>3, <3>1 DEF Receiving
  <2>2. CASE id \in Active(t) /\ (t.streams[id].state # "closing" \/ id \in HeadersIds(t.aob))
    <3>1. /\ id \in Active(s)
          /\ s.streams[id].state # "closing" \/ id \in HeadersIds(s.aob)
      BY <1>3, <2>2 DEF Narrows
    <3> QED
      BY <1>1, <1>3, <3>1 DEF Receiving
  <2> QED
    BY <1>1, <1>3, <2>1, <2>2 DEF Receiving
<1> QED
  BY <1>2, <1>3

LEMMA WantReadKept ==
    ASSUME NEW s, NEW t, s.goaway \subseteq t.goaway, Active(t) \subseteq Active(s),
           nghttp2_session_want_read(t)
    PROVE  nghttp2_session_want_read(s)
<1>1. "term_sent" \notin s.goaway
  BY DEF nghttp2_session_want_read
<1>2. Active(t) # {} => Active(s) # {}
  OBVIOUS
<1>3. t.goaway \cap {"sent", "recv"} = {} => s.goaway \cap {"sent", "recv"} = {}
  OBVIOUS
<1> QED
  BY <1>1, <1>2, <1>3 DEF nghttp2_session_want_read

LEMMA NarrowsMoved ==
    ASSUME NEW s, SessionInv(s), NEW t, NEW R, Moved(s, t, R),
           \A id \in Active(t) :
              t.streams[id].state # "closing" => s.streams[id].state # "closing"
    PROVE  Narrows(s, t)
<1>1. /\ t.server = s.server /\ t.aob = s.aob /\ t.last_recv = s.last_recv
      /\ t.last_sent = s.last_sent /\ s.goaway \subseteq t.goaway /\ Active(t) \subseteq Active(s)
      /\ s.last_recv \in Nat /\ s.last_sent \in Nat
  BY DEF Moved, Follows, SessionInv, Session
<1>2. nghttp2_session_want_read(t) => nghttp2_session_want_read(s)
  BY <1>1, WantReadKept
<1>3. \A id \in Active(t) : Resets(s, id) => Resets(t, id)
  BY ResetsMoved
<1> QED
  BY <1>1, <1>2, <1>3 DEF Narrows, Term

LEMMA MovedNarrows ==
    ASSUME NEW s, SessionInv(s), NEW t, NEW R, Moved(s, t, R), Calm(s, t)
    PROVE  Narrows(s, t)
<1>1. \A id \in Active(t) :
         t.streams[id].state # "closing" => s.streams[id].state # "closing"
  BY DEF Calm
<1> QED
  BY <1>1, NarrowsMoved

-----------------------------------------------------------------------------
(* The account of a body.                                                  *)

LEMMA LenInt ==
    /\ \A f \in WireFrames : \A id : DataLen(f, id) \in Int
    /\ \A f \in PreparedItems : \A id : DataLen(f, id) \in Int
<1>1. ASSUME NEW f \in WireFrames \cup PreparedItems, NEW id PROVE DataLen(f, id) \in Int
  <2>1. f.type = "DATA" => f.len \in Int
    BY DEF WireFrames, PreparedItems, RegularItems, UrgentItems, HeadersFrames, Responses,
       RequestItems, DataFrames, RstFrames, SettingsFrames, AckFrames, GoawayItems,
       GoawayFrames, UpdateFrames
  <2> QED
    BY <2>1 DEF DataLen
<1> QED
  BY <1>1

LEMMA PendingInt ==
    ASSUME NEW aob \in Seq(PreparedItems), NEW id PROVE Pending(aob, id) \in Int
<1>1. CASE aob = <<>>
  BY <1>1 DEF Pending
<1>2. CASE aob # <<>>
  <2>1. aob[1] \in PreparedItems
    BY <1>2
  <2> QED
    BY <1>2, <2>1, LenInt DEF Pending
<1> QED
  BY <1>1, <1>2

\* Octets move from what is left to the frame being written.
LEMMA AccountPending ==
    ASSUME NEW got, NEW left \in Int, NEW body, NEW N \in Seq(WireFrames), NEW id,
           NEW aob, NEW bob, NEW less \in Int, Pending(aob, id) \in Int, Pending(bob, id) \in Int,
           Pending(bob, id) + less = Pending(aob, id) + left,
           Account(got, left, body, N, aob, id)
    PROVE  Account(got, less, body, N, bob, id)
<1> DEFINE n == Len(N)
           a == Pending(aob, id)
           b == Pending(bob, id)
<1>1. n \in Nat
  OBVIOUS
<1> HIDE DEF n, a, b
<1>2. PICK g \in [0..n -> Int] :
         /\ g[0] = got
         /\ \A i \in 1..n : g[i] = g[i - 1] + DataLen(N[i], id)
         /\ \A i \in 1..n : Ends(N[i], id) => g[i] = body
         /\ g[n] + a + left = body
  BY DEF Account, n, a
<1>3. g[n] \in Int /\ a \in Int /\ b \in Int /\ b + less = a + left
  BY <1>1 DEF a, b
<1>4. g[n] + b + less = body
  <2> DEFINE k == g[n]
  <2>1. k \in Int /\ k + a + left = body
    BY <1>2, <1>3
  <2> HIDE DEF k
  <2>2. k + b + less = k + a + left
    BY <1>3, <2>1
  <2> QED
    BY <2>1, <2>2 DEF k
<1> QED
  BY <1>2, <1>4 DEF Account, n, b

\* The frame being written leaves.
LEMMA AccountAppend ==
    ASSUME NEW got, NEW left \in Int, NEW body, NEW N \in Seq(WireFrames), NEW id,
           NEW f, NEW w \in WireFrames, DataLen(w, id) = DataLen(f, id),
           Ends(w, id) => left = 0, Account(got, left, body, N, <<f>>, id)
    PROVE  Account(got, left, body, Append(N, w), <<>>, id)
<1> DEFINE n == Len(N)
           a == DataLen(w, id)
           M == Append(N, w)
<1>1. /\ n \in Nat /\ Len(M) = n + 1 /\ M[n + 1] = w
      /\ \A i \in 1..n : M[i] = N[i]
  OBVIOUS
<1>2. a \in Int
  BY LenInt
<1> HIDE DEF n, a, M
<1>3. PICK g \in [0..n -> Int] :
         /\ g[0] = got
         /\ \A i \in 1..n : g[i] = g[i - 1] + DataLen(N[i], id)
         /\ \A i \in 1..n : Ends(N[i], id) => g[i] = body
         /\ g[n] + a + left = body
  <2>1. Pending(<<f>>, id) = a
    BY DEF Pending, a
  <2> QED
    BY <2>1 DEF Account, n
<1>4. g[n] \in Int
  BY <1>1
<1> DEFINE h == [i \in 0..(n + 1) |-> IF i = n + 1 THEN g[n] + a ELSE g[i]]
<1>5. /\ h \in [0..(n + 1) -> Int]
      /\ \A i \in 0..n : h[i] = g[i]
      /\ h[n + 1] = g[n] + a
  BY <1>1, <1>2, <1>4
<1> HIDE DEF h
<1>6. h[0] = got
  BY <1>1, <1>3, <1>5
<1>7. \A i \in 1..(n + 1) : h[i] = h[i - 1] + DataLen(M[i], id)
  <2> SUFFICES ASSUME NEW i \in 1..(n + 1) PROVE h[i] = h[i - 1] + DataLen(M[i], id)
    OBVIOUS
  <2>1. CASE i = n + 1
    <3>1. M[i] = w /\ h[i - 1] = g[n] /\ h[i] = g[n] + a
      BY <1>1, <1>5, <2>1
    <3> QED
      BY <3>1 DEF a
  <2>2. CASE i # n + 1
    <3>1. i \in 1..n /\ i \in 0..n /\ i - 1 \in 0..n
      BY <1>1, <2>2
    <3> QED
      BY <1>1, <1>3, <1>5, <3>1
  <2> QED
    BY <2>1, <2>2
<1>8. \A i \in 1..(n + 1) : Ends(M[i], id) => h[i] = body
  <2> SUFFICES ASSUME NEW i \in 1..(n + 1), Ends(M[i], id) PROVE h[i] = body
    OBVIOUS
  <2>1. CASE i = n + 1
    <3>1. left = 0 /\ h[i] = g[n] + a
      BY <1>1, <1>5, <2>1
    <3> QED
      BY <1>2, <1>3, <1>4, <3>1
  <2>2. CASE i # n + 1
    <3>1. i \in 1..n /\ i \in 0..n
      BY <1>1, <2>2
    <3> QED
      BY <1>1, <1>3, <1>5, <3>1
  <2> QED
    BY <2>1, <2>2
<1>9. h[n + 1] + Pending(<<>>, id) + left = body
  <2>1. Pending(<<>>, id) = 0
    BY DEF Pending
  <2> QED
    BY <1>2, <1>3, <1>4, <1>5, <2>1
<1> QED
  BY <1>1, <1>5, <1>6, <1>7, <1>8, <1>9 DEF Account, M

\* A frame arrives: its octets are handed over, and none is missing after its END_STREAM.
LEMMA AccountTail ==
    ASSUME NEW got \in Int, NEW left, NEW body, NEW N \in Seq(WireFrames), N # <<>>, NEW id,
           NEW aob, Account(got, left, body, N, aob, id)
    PROVE  /\ Account(got + DataLen(Head(N), id), left, body, Tail(N), aob, id)
           /\ Ends(Head(N), id) => got + DataLen(Head(N), id) = body
<1> DEFINE n == Len(N)
           M == Tail(N)
           f == Head(N)
<1>1. /\ n \in Nat /\ n > 0 /\ Len(M) = n - 1 /\ f = N[1]
      /\ \A i \in 1..(n - 1) : M[i] = N[i + 1]
  OBVIOUS
<1> HIDE DEF n, M, f
<1>2. PICK g \in [0..n -> Int] :
         /\ g[0] = got
         /\ \A i \in 1..n : g[i] = g[i - 1] + DataLen(N[i], id)
         /\ \A i \in 1..n : Ends(N[i], id) => g[i] = body
         /\ g[n] + Pending(aob, id) + left = body
  BY DEF Account, n
<1>3. g[1] = got + DataLen(f, id)
  <2>1. 1 \in 1..n /\ 1 - 1 = 0
    BY <1>1
  <2> QED
    BY <1>1, <1>2, <2>1
<1> DEFINE h == [i \in 0..(n - 1) |-> g[i + 1]]
<1>4. h \in [0..(n - 1) -> Int] /\ \A i \in 0..(n - 1) : h[i] = g[i + 1]
  BY <1>1
<1> HIDE DEF h
<1>5. h[0] = got + DataLen(f, id)
  <2>1. 0 \in 0..(n - 1) /\ 0 + 1 = 1
    BY <1>1
  <2> QED
    BY <1>3, <1>4, <2>1
<1>6. ASSUME NEW i \in 1..(n - 1)
      PROVE  /\ h[i] = h[i - 1] + DataLen(M[i], id)
             /\ Ends(M[i], id) => h[i] = body
  <2>1. /\ i \in 0..(n - 1) /\ i - 1 \in 0..(n - 1) /\ i + 1 \in 1..n /\ (i + 1) - 1 = i
        /\ (i - 1) + 1 = i
    BY <1>1
  <2>2. h[i] = g[i + 1] /\ h[i - 1] = g[i] /\ M[i] = N[i + 1]
    BY <1>1, <1>4, <2>1
  <2>3. g[i + 1] = g[i] + DataLen(N[i + 1], id)
    BY <1>2, <2>1
  <2> QED
    BY <1>2, <2>1, <2>2, <2>3
<1>7. h[n - 1] = g[n]
  <2>1. n - 1 \in 0..(n - 1) /\ (n - 1) + 1 = n
    BY <1>1
  <2> QED
    BY <1>4, <2>1
<1>8. Account(got + DataLen(f, id), left, body, M, aob, id)
  BY <1>1, <1>2, <1>4, <1>5, <1>6, <1>7 DEF Account
<1>9. Ends(f, id) => got + DataLen(f, id) = body
  <2>1. 1 \in 1..n
    BY <1>1
  <2> QED
    BY <1>1, <1>2, <1>3, <2>1
<1> QED
  BY <1>8, <1>9 DEF M, f

-----------------------------------------------------------------------------
(* One side takes a step.                                                  *)

LEMMA Peers ==
    ASSUME NEW p \in Sides
    PROVE  Peer(p) \in Sides /\ Peer(p) # p /\ Peer(Peer(p)) = p /\ Sides = {p, Peer(p)}
  BY DEF Peer, Sides

LEMMA SideTypes ==
    ASSUME Inv1, NEW p \in Sides
    PROVE  /\ SessionInv(ses[p]) /\ ses[p] \in Session /\ ses \in [Sides -> Session]
           /\ net \in [Sides -> Seq(WireFrames)] /\ net[p] \in Seq(WireFrames)
           /\ app \in [Sides -> Apps] /\ app[p] \in Apps
           /\ app[p].left \in [Ids -> Int] /\ app[p].got \in [Ids -> Int]
           /\ app[p].held \in [Ids -> Int]
           /\ ses["s"].server /\ ~ses["c"].server
<1>1. /\ SessionInv(ses[p]) /\ ses[p] \in Session /\ ses \in [Sides -> Session]
      /\ ses["s"].server /\ ~ses["c"].server
  BY SideInv DEF Inv1, SessionsInv
<1>2. /\ net \in [Sides -> Seq(WireFrames)] /\ net[p] \in Seq(WireFrames)
      /\ app \in [Sides -> Apps] /\ app[p] \in Apps
  BY DEF Inv1
<1>3. app[p].left \in [Ids -> Int] /\ app[p].got \in [Ids -> Int] /\ app[p].held \in [Ids -> Int]
  BY <1>2 DEF Apps
<1> QED
  BY <1>1, <1>2, <1>3

\* What has to be shown of a step of p that makes t of its session.
LEMMA StepInv3 ==
    ASSUME Inv1, Inv3, NEW p \in Sides, NEW t, ses' = [ses EXCEPT ![p] = t],
           Side(t, app[p].left', app[p].got', BodyLen[p], BodyLen[Peer(p)]),
           app[Peer(p)].left' = app[Peer(p)].left, app[Peer(p)].got' = app[Peer(p)].got,
           Ordered(ses["c"], ses["s"], net["s"], net["c"])',
           \A id \in Ids : Receiving(t, id) =>
              Account(app[p].got[id], app[Peer(p)].left[id], BodyLen[Peer(p)], net[p],
                      ses[Peer(p)].aob, id)',
           \A id \in Ids : Receiving(ses[Peer(p)], id) =>
              Account(app[Peer(p)].got[id], app[p].left[id], BodyLen[p], net[Peer(p)],
                      ses[p].aob, id)'
    PROVE  Inv3'
<1> DEFINE q == Peer(p)
<1>1. q \in Sides /\ q # p /\ Peer(q) = p /\ Sides = {p, q}
  BY Peers
<1>2. ses \in [Sides -> Session]
  BY SideTypes
<1>3. ses'[p] = t /\ ses'[q] = ses[q]
  BY <1>1, <1>2
<1>4. Side(ses[q], app[q].left', app[q].got', BodyLen[q], BodyLen[Peer(q)])
  BY <1>1 DEF Inv3
<1> HIDE DEF q
<1>5. \A x \in Sides :
         Side(ses[x], app[x].left, app[x].got, BodyLen[x], BodyLen[Peer(x)])'
  <2>1. Side(ses[p], app[p].left, app[p].got, BodyLen[p], BodyLen[Peer(p)])'
    BY <1>3
  <2>2. Side(ses[q], app[q].left, app[q].got, BodyLen[q], BodyLen[Peer(q)])'
    BY <1>3, <1>4
  <2> QED
    BY <1>1, <2>1, <2>2
<1>6. ASSUME NEW id \in Ids, NEW x \in Sides, Receiving(ses'[x], id)
      PROVE  Account(app[x].got[id], app[Peer(x)].left[id], BodyLen[Peer(x)], net[x],
                     ses[Peer(x)].aob, id)'
  <2>1. CASE x = p
    BY <1>3, <1>6, <2>1
  <2>2. CASE x = q
    <3>1. Receiving(ses[q], id)
      BY <1>3, <1>6, <2>2
    <3>2. Account(app[q].got[id], app[p].left[id], BodyLen[p], net[q], ses[p].aob, id)'
      BY <3>1 DEF q
    <3> QED
      BY <1>1, <2>2, <3>2
  <2> QED
    BY <1>1, <2>1, <2>2
<1> QED
  BY <1>5, <1>6 DEF Inv3

\* What is handed over, left and on its way stays; t takes no more than the session of p.
LEMMA CallInv3 ==
    ASSUME Inv1, Inv3, NEW p \in Sides, NEW t, ses' = [ses EXCEPT ![p] = t], net' = net,
           SessionInv(t),
           \A x \in Sides : app[x].left' = app[x].left /\ app[x].got' = app[x].got,
           Settled(t, app[p].left, app[p].got, BodyLen[p], BodyLen[Peer(p)], {}),
           t.server = ses[p].server, t.aob = ses[p].aob, t.last_recv = ses[p].last_recv,
           t.last_sent = ses[p].last_sent, Narrows(ses[p], t)
    PROVE  Inv3'
<1> DEFINE q == Peer(p)
           s == ses[p]
<1>1. q \in Sides /\ q # p /\ Peer(q) = p /\ Sides = {p, q}
  BY Peers
<1>2. ses \in [Sides -> Session] /\ SessionInv(s)
  BY SideTypes
<1>3. ses'[p] = t /\ ses'[q] = ses[q]
  BY <1>1, <1>2
<1>4. /\ \A id \in Ids : app[p].left[id] \in 0..BodyLen[p]
      /\ Writing(s, app[p].left)
  BY DEF Inv3, Side
<1>5. Writing(t, app[p].left)
  BY <1>4 DEF Writing
<1>6. Side(t, app[p].left', app[p].got', BodyLen[p], BodyLen[Peer(p)])
  BY <1>4, <1>5 DEF Side
<1>7. /\ ses'["c"].last_sent = ses["c"].last_sent /\ ses'["c"].aob = ses["c"].aob
      /\ ses'["s"].last_recv = ses["s"].last_recv
  <2>1. \A x \in Sides : /\ ses'[x].last_sent = ses[x].last_sent /\ ses'[x].aob = ses[x].aob
                         /\ ses'[x].last_recv = ses[x].last_recv
    BY <1>1, <1>3
  <2> QED
    BY <2>1 DEF Sides
<1>8. Ordered(ses["c"], ses["s"], net["s"], net["c"])'
  <2>1. Ordered(ses["c"], ses["s"], net["s"], net["c"])
    BY DEF Inv3
  <2> QED
    BY <1>7, <2>1 DEF Ordered
<1>9. ASSUME NEW id \in Ids, Receiving(t, id)
      PROVE  Account(app[p].got[id], app[q].left[id], BodyLen[q], net[p], ses[q].aob, id)'
  <2>1. Receiving(s, id)
    BY <1>2, <1>9, NarrowsReceiving
  <2>2. Account(app[p].got[id], app[q].left[id], BodyLen[q], net[p], ses[q].aob, id)
    BY <2>1 DEF Inv3
  <2> QED
    BY <1>1, <1>3, <2>2
<1>10. ASSUME NEW id \in Ids, Receiving(ses[q], id)
       PROVE  Account(app[q].got[id], app[p].left[id], BodyLen[p], net[q], ses[p].aob, id)'
  <2>1. Account(app[q].got[id], app[Peer(q)].left[id], BodyLen[Peer(q)], net[q],
                ses[Peer(q)].aob, id)
    BY <1>1, <1>10 DEF Inv3
  <2> QED
    BY <1>1, <1>3, <2>1
<1> QED
  BY <1>1, <1>6, <1>8, <1>9, <1>10, StepInv3

LEMMA TameInv3 ==
    ASSUME Inv1, Inv3, NEW p \in Sides, NEW t, NEW R, Moved(ses[p], t, R), Calm(ses[p], t),
           ses' = [ses EXCEPT ![p] = t], net' = net,
           \A x \in Sides : app[x].left' = app[x].left /\ app[x].got' = app[x].got
    PROVE  Inv3'
<1>1. SessionInv(ses[p])
  BY SideTypes
<1>2. Settled(ses[p], app[p].left, app[p].got, BodyLen[p], BodyLen[Peer(p)], {})
  BY DEF Inv3, Side
<1>3. Settled(t, app[p].left, app[p].got, BodyLen[p], BodyLen[Peer(p)], {})
  BY <1>1, <1>2, SettledMoved
<1>4. Narrows(ses[p], t)
  BY <1>1, MovedNarrows
<1>5. /\ SessionInv(t) /\ t.server = ses[p].server /\ t.aob = ses[p].aob
      /\ t.last_recv = ses[p].last_recv /\ t.last_sent = ses[p].last_sent
  BY DEF Moved, Follows
<1> QED
  BY <1>3, <1>4, <1>5, CallInv3

LEMMA TamedInv3 ==
    ASSUME Inv1, Inv3, NEW p \in Sides,
           \/ \E id \in Ids : SubmitRstStream(p, id) \/ Consume(p, id)
           \/ \E iv \in Changes[p] : SubmitSettings(p, iv)
           \/ SubmitGoaway(p) \/ Terminate(p)
    PROVE  Inv3'
<1>1. SessionInv(ses[p]) /\ ses \in [Sides -> Session] /\ app \in [Sides -> Apps]
  BY SideTypes
<1>2. ASSUME NEW id \in Ids, SubmitRstStream(p, id) PROVE Inv3'
  <2> DEFINE t == nghttp2_session_add_rst_stream(ses[p], id, "cancel")
  <2>1. "cancel" \in Faults \ {"refused"}
    BY DEF Reasons, Faults
  <2>2. Moved(ses[p], t, {}) /\ Calm(ses[p], t)
    BY <1>1, <2>1, AddRstStream DEF Keeps, Holds
  <2>3. ses' = [ses EXCEPT ![p] = t] /\ net' = net
    BY <1>1, <1>2 DEF SubmitRstStream
  <2>4. \A x \in Sides : app[x].left' = app[x].left /\ app[x].got' = app[x].got
    BY <1>1, <1>2 DEF SubmitRstStream, Apps
  <2> QED
    BY <2>2, <2>3, <2>4, TameInv3
<1>3. ASSUME NEW id \in Ids, Consume(p, id) PROVE Inv3'
  <2> DEFINE t == nghttp2_session_consume(ses[p], id, app[p].held[id])
  <2>1. app[p].held[id] \in Int
    BY <1>1 DEF Apps
  <2>2. Moved(ses[p], t, {}) /\ Calm(ses[p], t)
    BY <1>1, <2>1, ConsumeKept DEF Keeps, Holds
  <2>3. ses' = [ses EXCEPT ![p] = t] /\ net' = net
    BY <1>1, <1>3 DEF Consume
  <2>4. \A x \in Sides : app[x].left' = app[x].left /\ app[x].got' = app[x].got
    BY <1>1, <1>3 DEF Consume, Apps
  <2> QED
    BY <2>2, <2>3, <2>4, TameInv3
<1>4. ASSUME NEW iv \in Changes[p], SubmitSettings(p, iv) PROVE Inv3'
  <2> DEFINE t == nghttp2_session_add_settings(ses[p], iv)
  <2>1. iv \in Entries
    BY Http2Constants DEF Http2Constants
  <2>2. Moved(ses[p], t, {}) /\ Calm(ses[p], t)
    BY <1>1, <2>1, AddSettings
  <2>3. ses' = [ses EXCEPT ![p] = t] /\ net' = net /\ app' = app
    BY <1>1, <1>4 DEF SubmitSettings
  <2> QED
    BY <2>2, <2>3, TameInv3
<1>5. CASE SubmitGoaway(p)
  <2> DEFINE t == nghttp2_session_add_goaway(ses[p], ses[p].last_proc, "none")
  <2>1. Moved(ses[p], t, {}) /\ Calm(ses[p], t)
    BY <1>1, AddGoaway DEF Keeps, Holds
  <2>2. ses' = [ses EXCEPT ![p] = t] /\ net' = net
    BY <1>1, <1>5 DEF SubmitGoaway
  <2>3. \A x \in Sides : app[x].left' = app[x].left /\ app[x].got' = app[x].got
    BY <1>1, <1>5 DEF SubmitGoaway, Apps
  <2> QED
    BY <2>1, <2>2, <2>3, TameInv3
<1>6. CASE Terminate(p)
  <2> DEFINE t == nghttp2_session_terminate_session(ses[p], "none")
  <2>1. "none" \in Errors
    BY DEF Errors
  <2>2. Moved(ses[p], t, {}) /\ Calm(ses[p], t)
    BY <1>1, <2>1, TerminateSession DEF Keeps, Holds
  <2>3. ses' = [ses EXCEPT ![p] = t] /\ net' = net /\ app' = app
    BY <1>1, <1>6 DEF Terminate
  <2> QED
    BY <2>2, <2>3, TameInv3
<1> QED
  BY <1>2, <1>3, <1>4, <1>5, <1>6

\* A call that only queues a frame, and no RST_STREAM.
LEMMA QueueInv3 ==
    ASSUME Inv1, Inv3, NEW p \in Sides, NEW t, ses' = [ses EXCEPT ![p] = t], net' = net,
           SessionInv(t),
           \A x \in Sides : app[x].left' = app[x].left /\ app[x].got' = app[x].got,
           t.streams = ses[p].streams, t.server = ses[p].server, t.aob = ses[p].aob,
           t.last_recv = ses[p].last_recv, t.last_sent = ses[p].last_sent,
           t.reason = ses[p].reason, t.ign_all = ses[p].ign_all,
           ses[p].goaway \subseteq t.goaway, Term(t) => Term(ses[p]),
           \A id : Rst(t.reg, id) <=> Rst(ses[p].reg, id),
           \A i \in 1..Len(t.syn) : t.syn[i].end => BodyLen[p] = 0
    PROVE  Inv3'
<1> DEFINE s == ses[p]
<1>1. SessionInv(s) /\ s \in Session
  BY SideTypes
<1>2. Settled(s, app[p].left, app[p].got, BodyLen[p], BodyLen[Peer(p)], {})
  BY DEF Inv3, Side
<1>3. /\ Active(t) = Active(s) /\ Used(t) = Used(s) /\ (Term(t) <=> Term(s))
      /\ \A id : Resets(t, id) <=> Resets(s, id)
  BY DEF Active, Used, Term, Resets
<1>4. Used(s) \in Nat /\ s.last_recv \in Nat /\ s.last_sent \in Nat
  BY <1>1 DEF Used, Session
<1>5. Passes(s, t, {})
  BY <1>3, <1>4 DEF Passes
<1>6. Settled(t, app[p].left, app[p].got, BodyLen[p], BodyLen[Peer(p)], {})
  BY <1>1, <1>2, <1>5, SettledPasses
<1>7. nghttp2_session_want_read(t) => nghttp2_session_want_read(s)
  BY <1>3, WantReadKept
<1>8. Narrows(s, t)
  BY <1>3, <1>4, <1>7 DEF Narrows
<1> QED
  BY <1>6, <1>8, CallInv3

LEMMA SubmitRequestInv3 == Inv1 /\ Inv3 /\ SubmitRequest => Inv3'
<1> SUFFICES ASSUME Inv1, Inv3, SubmitRequest PROVE Inv3'
  OBVIOUS
<1> DEFINE s == ses["c"]
           item == [type |-> "HEADERS", id |-> s.next_id, end |-> BodyLen["c"] = 0,
                    canceled |-> FALSE]
           l == Append(s.syn, item)
           t == [s EXCEPT !.syn = l, !.next_id = s.next_id + 1]
<1>0. "c" \in Sides
  BY DEF Sides
<1>1. SessionInv(s) /\ s \in Session /\ ses \in [Sides -> Session] /\ ~s.server
  BY <1>0, SideTypes
<1>2. ses' = [ses EXCEPT !["c"] = t] /\ net' = net /\ app' = app
  BY <1>1 DEF SubmitRequest, Session
<1>3. item \in RequestItems /\ item.end = (BodyLen["c"] = 0)
  <2>1. s.next_id \in Ids
    BY DEF SubmitRequest, nghttp2_session_check_request_allowed
  <2> QED
    BY <2>1 DEF RequestItems
<1>4. SessionInv(t)
  <2>1. Inv1'
    BY SubmitRequestInv1
  <2>2. SessionInv(ses'["c"])
    BY <1>0, <2>1 DEF Inv1, SessionsInv
  <2>3. ses'["c"] = t
    BY <1>0, <1>1, <1>2
  <2> QED
    BY <2>2, <2>3
<1>5. s.syn \in Seq(RequestItems)
  BY <1>1 DEF Session
<1> HIDE DEF item
<1>6. /\ Len(s.syn) \in Nat /\ Len(l) = Len(s.syn) + 1
      /\ \A i \in 1..Len(s.syn) : l[i] = s.syn[i]
      /\ l[Len(s.syn) + 1] = item
  BY <1>3, <1>5
<1> HIDE DEF l
<1>7. /\ t.streams = s.streams /\ t.server = s.server /\ t.aob = s.aob
      /\ t.last_recv = s.last_recv /\ t.last_sent = s.last_sent /\ t.reason = s.reason
      /\ t.ign_all = s.ign_all /\ t.goaway = s.goaway /\ t.reg = s.reg /\ t.syn = l
  BY <1>1 DEF Session
<1> HIDE DEF t
<1>8. \A i \in 1..Len(s.syn) : s.syn[i].end => BodyLen["c"] = 0
  BY <1>0 DEF Inv3, Side, Settled
<1>9. \A i \in 1..Len(l) : l[i].end => BodyLen["c"] = 0
  <2>1. \A i \in 1..Len(l) : i \in 1..Len(s.syn) \/ i = Len(s.syn) + 1
    BY <1>6
  <2> QED
    BY <1>3, <1>6, <1>8, <2>1
<1>10. Term(t) => Term(s)
  BY <1>7 DEF Term
<1> QED
  BY <1>0, <1>2, <1>4, <1>7, <1>9, <1>10, QueueInv3

LEMMA SubmitResponseInv3 ==
    ASSUME Inv1, Inv3, NEW id \in Ids, SubmitResponse(id) PROVE Inv3'
<1> DEFINE s == ses["s"]
           f == [type |-> "HEADERS", id |-> id, end |-> FALSE]
           l == Append(s.reg, f)
           t == [s EXCEPT !.reg = l]
<1>0. "s" \in Sides
  BY DEF Sides
<1>1. SessionInv(s) /\ s \in Session /\ ses \in [Sides -> Session] /\ app \in [Sides -> Apps]
  BY <1>0, SideTypes
<1>2. ses' = [ses EXCEPT !["s"] = t] /\ net' = net
  BY <1>1 DEF SubmitResponse, Session
<1>3. \A x \in Sides : app[x].left' = app[x].left /\ app[x].got' = app[x].got
  BY <1>1 DEF SubmitResponse, Apps
<1>4. SessionInv(t)
  <2>1. Inv1'
    BY SubmitResponseInv1
  <2>2. SessionInv(ses'["s"])
    BY <1>0, <2>1 DEF Inv1, SessionsInv
  <2>3. ses'["s"] = t
    BY <1>0, <1>1, <1>2
  <2> QED
    BY <2>2, <2>3
<1>5. s.reg \in Seq(RegularItems) /\ f \in RegularItems /\ f.type # "RST_STREAM"
  BY <1>1 DEF Session, RegularItems, Responses
<1> HIDE DEF f
<1>6. \A i : Rst(l, i) <=> Rst(s.reg, i)
  BY <1>5, AppendFrame
<1> HIDE DEF l
<1>7. /\ t.streams = s.streams /\ t.server = s.server /\ t.aob = s.aob
      /\ t.last_recv = s.last_recv /\ t.last_sent = s.last_sent /\ t.reason = s.reason
      /\ t.ign_all = s.ign_all /\ t.goaway = s.goaway /\ t.reg = l /\ t.syn = s.syn
  BY <1>1 DEF Session
<1> HIDE DEF t
<1>8. \A i \in 1..Len(s.syn) : s.syn[i].end => BodyLen["s"] = 0
  BY <1>0 DEF Inv3, Side, Settled
<1>9. Term(t) => Term(s)
  BY <1>7 DEF Term
<1> QED
  BY <1>0, <1>2, <1>3, <1>4, <1>6, <1>7, <1>8, <1>9, QueueInv3

LEMMA SubmitNoticeInv3 ==
    ASSUME Inv1, Inv3, NEW p \in Sides, SubmitShutdownNotice(p) PROVE Inv3'
<1> DEFINE s == ses[p]
           f == [type |-> "GOAWAY", last |-> LeastOf(LastStream, s.local_last), aux |-> "notice"]
           l == Append(s.reg, f)
           g == s.goaway \cup {"submitted"}
           t == [s EXCEPT !.reg = l, !.goaway = g]
<1>1. SessionInv(s) /\ s \in Session /\ ses \in [Sides -> Session]
  BY SideTypes
<1>2. ses' = [ses EXCEPT ![p] = t] /\ net' = net /\ app' = app
  BY <1>1 DEF SubmitShutdownNotice, nghttp2_session_add_goaway, Session
<1>4. SessionInv(t)
  <2>1. Inv1'
    BY SubmitNoticeInv1
  <2>2. SessionInv(ses'[p])
    BY <2>1 DEF Inv1, SessionsInv
  <2>3. ses'[p] = t
    BY <1>1, <1>2
  <2> QED
    BY <2>2, <2>3
<1>5. s.reg \in Seq(RegularItems) /\ f \in RegularItems /\ f.type # "RST_STREAM"
  <2>1. s.local_last \in Int /\ s.reg \in Seq(RegularItems)
    BY <1>1 DEF Session
  <2>2. LastStream \in Int
    BY SessionConstants DEF SessionConstants, LastStream
  <2> QED
    BY <2>1, <2>2, Least DEF RegularItems, GoawayItems
<1> HIDE DEF f
<1>6. \A i : Rst(l, i) <=> Rst(s.reg, i)
  BY <1>5, AppendFrame
<1> HIDE DEF l
<1>7. /\ t.streams = s.streams /\ t.server = s.server /\ t.aob = s.aob
      /\ t.last_recv = s.last_recv /\ t.last_sent = s.last_sent /\ t.reason = s.reason
      /\ t.ign_all = s.ign_all /\ t.goaway = g /\ t.reg = l /\ t.syn = s.syn
  BY <1>1 DEF Session
<1>9. Term(t) => Term(s)
  BY <1>7 DEF Term
<1>10. s.goaway \subseteq t.goaway
  BY <1>7
<1> HIDE DEF t
<1>8. \A i \in 1..Len(s.syn) : s.syn[i].end => BodyLen[p] = 0
  BY DEF Inv3, Side, Settled
<1> QED
  BY <1>2, <1>4, <1>6, <1>7, <1>8, <1>9, <1>10, QueueInv3

-----------------------------------------------------------------------------
(* A frame arrives.                                                        *)

LEMMA Terminated ==
    ASSUME NEW s \in Session, NEW error PROVE Term(nghttp2_session_terminate_session(s, error))
<1>1. CASE "term_on_send" \in s.goaway
  BY <1>1 DEF nghttp2_session_terminate_session, Term
<1>2. CASE "term_on_send" \notin s.goaway
  <2> DEFINE g == nghttp2_session_add_goaway(s, s.last_proc, "term")
             c == [g EXCEPT !.ign_all = TRUE, !.goaway = @ \cup {"term_on_send"},
                            !.error = error]
  <2>1. nghttp2_session_terminate_session(s, error) = c
    BY <1>2, Zenon DEF nghttp2_session_terminate_session
  <2>2. "term_on_send" \in c.goaway
    BY DEF nghttp2_session_add_goaway, Session
  <2> QED
    BY <2>1, <2>2 DEF Term
<1> QED
  BY <1>1, <1>2

LEMMA Verdicts ==
    ASSUME NEW s, NEW id
    PROVE  /\ DataVerdict(s, id) \in {"protocol", "stream_closed", "take", "ignore"}
           /\ DataVerdict(s, id) = "ignore" =>
                /\ ~session_detect_idle_stream(s, id)
                /\ id \in Active(s) => s.streams[id].state = "closing"
<1> DEFINE v == DataVerdict(s, id)
<1>1. CASE session_detect_idle_stream(s, id)
  <2>1. v = "protocol"
    BY <1>1, Zenon DEF DataVerdict
  <2> QED BY <2>1
<1>2. CASE /\ ~session_detect_idle_stream(s, id)
           /\ id \in DOMAIN s.streams /\ s.streams[id].rd
  <2>1. v = "stream_closed"
    BY <1>2, Zenon DEF DataVerdict
  <2> QED BY <2>1
<1>3. CASE /\ ~session_detect_idle_stream(s, id)
           /\ id \in DOMAIN s.streams /\ ~s.streams[id].rd
           /\ ~s.streams[id].closed /\ s.streams[id].state # "closing"
  <2>1. v = IF ~s.server /\ s.streams[id].state # "opened" THEN "protocol" ELSE "take"
    BY <1>3, Zenon DEF DataVerdict
  <2>2. v \in {"protocol", "take"}
    BY <2>1
  <2> QED BY <2>2
<1>4. CASE /\ ~session_detect_idle_stream(s, id)
           /\ ~(id \in DOMAIN s.streams /\ s.streams[id].rd)
           /\ ~(id \in DOMAIN s.streams /\ ~s.streams[id].rd /\ ~s.streams[id].closed
                /\ s.streams[id].state # "closing")
  <2>1. v = "ignore"
    BY <1>4, Zenon DEF DataVerdict
  <2> QED
    BY <1>4, <2>1 DEF Active
<1> QED
  BY <1>1, <1>2, <1>3, <1>4

\* DATA that a session reads is handed over, ignored, empty, or ends the session.
LEMMA DataHanded ==
    ASSUME NEW s \in Session, NEW f, f.type = "DATA", nghttp2_session_want_read(s),
           ~s.ign_all, IgnoresOnTerm(s)
    PROVE  \/ Term(nghttp2_session_mem_recv(s, f)) \/ DataVerdict(s, f.id) = "ignore"
           \/ f.len = 0 \/ Delivers(s, f)
<1> DEFINE t == nghttp2_session_mem_recv(s, f)
           v == DataVerdict(s, f.id)
<1>1. CASE ~s.settings_recv
  <2>1. t = nghttp2_session_terminate_session(s, "protocol")
    BY <1>1, Zenon DEF nghttp2_session_mem_recv
  <2> QED
    BY <2>1, Terminated
<1>2. CASE s.settings_recv
  <2>1. t = session_process_data_frame(s, f)
    BY <1>2, Zenon DEF nghttp2_session_mem_recv
  <2>2. CASE v \in Errors
    <3>1. session_process_data_frame(s, f) = nghttp2_session_terminate_session(s, v)
      BY <2>2, Zenon DEF session_process_data_frame
    <3> QED
      BY <2>1, <3>1, Terminated
  <2>3. CASE v = "take" /\ f.len # 0 /\ OverWindow(s, f.len)
    <3> DEFINE c == nghttp2_session_terminate_session(s, "flow_control")
    <3>1. c = nghttp2_session_update_recv_connection_window_size(s, f.len)
      BY <2>3, Zenon DEF nghttp2_session_update_recv_connection_window_size
    <3>2. v \notin Errors
      BY <2>3 DEF Errors
    <3>3. session_process_data_frame(s, f) = c \/ ~c.ign_all
      BY <2>3, <3>1, <3>2, Zenon DEF session_process_data_frame
    <3>4. c.ign_all \/ Term(s)
      <4> DEFINE g == nghttp2_session_add_goaway(s, s.last_proc, "term")
                 d == [g EXCEPT !.ign_all = TRUE, !.goaway = @ \cup {"term_on_send"},
                                !.error = "flow_control"]
      <4>1. Term(s) \/ c = d
        BY Zenon DEF nghttp2_session_terminate_session, Term
      <4>2. d.ign_all
        BY DEF nghttp2_session_add_goaway, Session
      <4> QED
        BY <4>1, <4>2
    <3> QED
      BY <2>1, <3>3, <3>4, Terminated DEF IgnoresOnTerm, Term
  <2>4. CASE v = "take" /\ (f.len = 0 \/ ~OverWindow(s, f.len))
    BY <2>4 DEF Delivers
  <2>5. CASE v = "ignore"
    BY <2>5
  <2> QED
    BY <2>2, <2>3, <2>4, <2>5, Verdicts DEF Errors
<1> QED
  BY <1>1, <1>2

\* The end of the peer's half is heard.
LEMMA HearsSettled ==
    ASSUME NEW s, SessionInv(s), NEW t, NEW f, NEW R, Hears(s, t, f, R),
           NEW left, NEW got, NEW own, NEW peer, Settled(s, left, got, own, peer, {}),
           f.end /\ f.id \in Active(s) /\ s.streams[f.id].state # "closing"
             => got[f.id] = peer \/ Excused(s, f.id)
    PROVE  Settled(t, left, got, own, peer, {})
<1>1. CASE t = s
  BY <1>1
<1>2. CASE /\ f.end /\ f.id \in DOMAIN s.streams /\ f.id \in Active(s)
           /\ s.streams[f.id].state # "closing"
           /\ Keeps(Heard(s, f.id), t, R)
  <2> DEFINE h == Heard(s, f.id)
             n == f.id
  <2>1. /\ Holds(s, h, R) /\ Retouched(s, h)
        /\ \A i \in DOMAIN s.streams \ {n} : h.streams[i] = s.streams[i]
        /\ h.streams[n].state = s.streams[n].state
        /\ h.streams[n].wr = s.streams[n].wr /\ h.streams[n].rd
    BY <1>2, HeardKept
  <2> HIDE DEF h, n
  <2>2. /\ Half(s, n, left, got, peer) /\ (got[n] = peer \/ Excused(s, n)) /\ n \in Active(s)
        /\ s.streams[n].state # "closing"
    BY <1>2 DEF Settled, n
  <2>3. /\ h.server = s.server /\ h.aob = s.aob /\ h.reg = s.reg /\ (Term(s) => Term(h))
    BY <2>1 DEF Retouched, Term
  <2>4. Resets(h, n) <=> Resets(s, n)
    BY <2>3 DEF Resets
  <2>5. Excused(s, n) => Excused(h, n)
    BY <2>1, <2>3, <2>4 DEF Excused
  <2>6. Shut(h, n, left, got, peer)
    <3>1. h.streams[n].wr => left[n] = 0
      BY <2>1, <2>2 DEF Half, Shut
    <3>2. h.streams[n].wr => ~Excused(s, n)
      BY <2>1 DEF Excused
    <3> QED
      BY <2>2, <3>1, <3>2 DEF Shut
  <2>7. h.server /\ h.streams[n].state # "closing" /\ Resets(h, n) /\ ~Term(h)
          => ~h.streams[n].wr /\ n \notin DataIds(h.aob)
    BY <2>1, <2>2, <2>3, <2>4 DEF Half
  <2>8. h.server /\ n \in HeadersIds(h.aob) => ~h.streams[n].wr
    BY <2>1, <2>2, <2>3 DEF Half
  <2>9. Half(h, n, left, got, peer)
    BY <2>1, <2>2, <2>5, <2>6, <2>7, <2>8 DEF Half
  <2>10. Settled(h, left, got, own, peer, {})
    BY <2>1, <2>9, SettledEdit
  <2>11. SessionInv(h) /\ Moved(h, t, R) /\ Calm(h, t)
    BY <1>2, <2>1 DEF Holds, Moved, Keeps, h
  <2> QED
    BY <2>10, <2>11, SettledMoved
<1> QED
  BY <1>1, <1>2 DEF Hears

LEMMA HearsNarrows ==
    ASSUME NEW s, SessionInv(s), NEW t, NEW f, NEW R, Hears(s, t, f, R)
    PROVE  /\ Active(t) \subseteq Active(s)
           /\ \A id \in Active(t) :
                 t.streams[id].state # "closing" => s.streams[id].state # "closing"
<1>1. CASE t = s
  BY <1>1
<1>2. CASE /\ f.id \in DOMAIN s.streams
           /\ Keeps(Heard(s, f.id), t, R)
  <2> DEFINE h == Heard(s, f.id)
  <2>1. /\ Active(h) = Active(s)
        /\ \A i \in DOMAIN s.streams \ {f.id} : h.streams[i] = s.streams[i]
        /\ h.streams[f.id].state = s.streams[f.id].state
    BY <1>2, HeardKept
  <2>2. /\ Active(t) \subseteq Active(h)
        /\ \A id \in Active(t) :
              t.streams[id].state # "closing" => h.streams[id].state # "closing"
    BY <1>2 DEF Keeps, Holds, Moved, Follows, Calm
  <2> HIDE DEF h
  <2>3. Active(s) \subseteq DOMAIN s.streams
    BY DEF Active
  <2> QED
    BY <2>1, <2>2, <2>3
<1> QED
  BY <1>1, <1>2 DEF Hears

\* What the server makes of a new request.
LEMMA RequestSettled ==
    ASSUME NEW s, SessionInv(s), s.server, NEW f, f.id \in Ids, f.id > s.last_recv,
           NEW t, SessionInv(t),
           \/ Keeps(Seen(s, f.id), t, {}) \/ Refuses(s, t, f.id)
           \/ \E o : Opens(s, o, f.id) /\ Holds(o, t, {}) /\ Hears(o, t, f, {}),
           nghttp2_session_want_read(s),
           NEW left, NEW got, NEW own, NEW peer, Settled(s, left, got, own, peer, {}),
           Writing(s, left), Receiving(s, f.id) /\ f.end => got[f.id] = peer, ~Term(s)
    PROVE  /\ Settled(t, left, got, own, peer, {})
           /\ \A id \in Ids : Receiving(t, id) => Receiving(s, id)
<1> DEFINE v == Seen(s, f.id)
           n == f.id
<1>1. /\ SessionInv(v) /\ v.last_recv = n /\ v.streams = s.streams /\ Active(v) = Active(s)
      /\ v.server = s.server /\ v.syn = s.syn /\ v.reg = s.reg /\ v.aob = s.aob
      /\ v.goaway = s.goaway /\ v.reason = s.reason /\ v.last_sent = s.last_sent
  BY SeenKept
<1>2. v.ign_all = s.ign_all
  BY DEF Seen, SessionInv, Session
<1> HIDE DEF v
<1>3. /\ s.last_recv \in Nat /\ n \in Nat /\ s.last_recv < n /\ s.last_sent \in Nat
      /\ n \in Ids
  BY IdsNat DEF SessionInv, Session
<1>4. n \notin Active(s)
  <2> SUFFICES ASSUME n \in Active(s) PROVE FALSE
    OBVIOUS
  <2>1. n <= Used(s) /\ Used(s) = s.last_recv
    BY UsedIds DEF Used
  <2> QED
    BY <1>3, <2>1
<1>5. \A i \in 1..Len(s.syn) : s.syn[i].end => own = 0
  BY DEF Settled
<1> HIDE DEF n
<1>6. CASE Keeps(v, t, {})
  <2>1. \A id : Resets(v, id) <=> Resets(s, id)
    BY <1>1 DEF Resets
  <2>2. Term(v) <=> Term(s)
    BY <1>1 DEF Term
  <2>3. Used(s) <= Used(v)
    BY <1>1, <1>3 DEF Used
  <2>4. Passes(s, v, {})
    BY <1>1, <1>2, <2>1, <2>2, <2>3 DEF Passes
  <2>5. Settled(v, left, got, own, peer, {})
    BY <1>1, <1>5, <2>4, SettledPasses
  <2>6. Settled(t, left, got, own, peer, {})
    BY <1>1, <1>6, <2>5, SettledMoved DEF Keeps, Holds
  <2>7. Narrows(v, t)
    BY <1>1, <1>6, MovedNarrows DEF Keeps, Holds
  <2>8. Narrows(s, v)
    BY <1>1, <1>3, <2>1, <2>2 DEF Narrows
  <2> QED
    BY <1>1, <2>6, <2>7, <2>8, NarrowsReceiving
<1>7. CASE Refuses(s, t, n)
  <2> DEFINE g == [type |-> "RST_STREAM", id |-> n, error |-> "refused"]
             l == Append(v.reg, g)
  <2>1. t = [v EXCEPT !.reg = l]
    BY <1>7 DEF Refuses, v, n
  <2>2. v \in Session /\ g \in RegularItems /\ v.reg \in Seq(RegularItems)
    BY <1>1, <1>3 DEF SessionInv, Session, RegularItems, RstFrames, Faults, Reasons
  <2>3. g.type = "RST_STREAM" /\ g.id = n
    OBVIOUS
  <2> HIDE DEF g
  <2>4. \A id : Rst(l, id) <=> Rst(v.reg, id) \/ n = id
    BY <2>2, <2>3, AppendFrame
  <2> HIDE DEF l
  <2>5. /\ t.last_recv = n /\ t.streams = s.streams /\ t.server = s.server /\ t.syn = s.syn
        /\ t.reg = l /\ t.aob = s.aob /\ t.goaway = s.goaway /\ t.reason = s.reason
        /\ t.last_sent = s.last_sent /\ t.ign_all = s.ign_all
    BY <1>1, <1>2, <2>1, <2>2 DEF Session
  <2>6. Active(t) = Active(s) /\ (Term(t) <=> Term(s)) /\ Used(s) <= Used(t)
    BY <1>3, <2>5 DEF Active, Term, Used
  <2>7. \A id \in Active(s) : Resets(t, id) <=> Resets(s, id)
    BY <1>1, <1>4, <2>4, <2>5 DEF Resets
  <2>8. Passes(s, t, {})
    BY <2>5, <2>6, <2>7 DEF Passes
  <2>9. Settled(t, left, got, own, peer, {})
    BY <1>5, <2>5, <2>8, SettledPasses
  <2>10. nghttp2_session_want_read(t) <=> nghttp2_session_want_read(s)
    BY <2>5, <2>6 DEF nghttp2_session_want_read
  <2>11. Narrows(s, t)
    BY <1>3, <2>5, <2>6, <2>7, <2>10 DEF Narrows
  <2> QED
    BY <2>9, <2>11, NarrowsReceiving
<1>8. ASSUME NEW o, Opens(s, o, n), Holds(o, t, {}), Hears(o, t, f, {})
      PROVE  /\ Settled(t, left, got, own, peer, {})
             /\ \A id \in Ids : Receiving(t, id) => Receiving(s, id)
  <2>1. /\ SessionInv(o) /\ o.server /\ Active(o) = Active(s) \cup {n}
        /\ o.reg = s.reg /\ o.aob = s.aob /\ o.goaway = s.goaway /\ o.reason = s.reason
        /\ o.last_recv = n /\ o.last_sent = s.last_sent /\ o.ign_all = s.ign_all
        /\ o.syn = s.syn /\ \A i \in Active(s) : o.streams[i] = s.streams[i]
        /\ o.streams[n].state = "opening" /\ ~o.streams[n].rd /\ ~o.streams[n].wr
    BY <1>8 DEF Opens, Fresh
  <2>2. n \notin DataIds(s.aob)
    <3> SUFFICES ASSUME n \in DataIds(s.aob) PROVE FALSE
      OBVIOUS
    <3>1. PICK i \in 1..Len(s.aob) : s.aob[i].type = "DATA" /\ s.aob[i].id = n
      BY DEF DataIds
    <3>2. n <= s.last_recv
      BY <3>1 DEF Writing
    <3> QED
      BY <1>3, <3>2
  <2>3. o.server = s.server
    BY <2>1 DEF SessionInv, Session
  <2>4. Adds(s, o, n)
    BY <1>3, <2>1, <2>2, <2>3 DEF Adds, Used
  <2>5. Settled(o, left, got, own, peer, {})
    BY <1>5, <2>1, <2>4, SettledAdds
  <2>6. Receiving(s, n)
    BY <1>3 DEF Receiving
  <2>7. Settled(t, left, got, own, peer, {})
    BY <1>8, <2>1, <2>5, <2>6, HearsSettled DEF n
  <2>8. Narrows(o, t)
    BY <1>8, <2>1, HearsNarrows, NarrowsMoved DEF Holds
  <2>9. ASSUME NEW id \in Ids, Receiving(o, id) PROVE Receiving(s, id)
    <3>1. ~Term(s) /\ id \in Nat
      BY IdsNat
    <3>2. \/ id > n \/ id = n
          \/ id \in Active(s) /\ ~Resets(o, id)
      BY <2>1, <2>9 DEF Receiving
    <3>3. Resets(o, id) <=> Resets(s, id)
      BY <2>1 DEF Resets
    <3>4. CASE id \in Active(s) /\ ~Resets(o, id)
      BY <3>1, <3>3, <3>4 DEF Receiving
    <3>5. CASE id > n \/ id = n
      <4>1. id > s.last_recv
        BY <1>3, <3>1, <3>5
      <4> QED
        BY <3>1, <4>1 DEF Receiving
    <3> QED
      BY <3>2, <3>4, <3>5
  <2> QED
    BY <2>1, <2>7, <2>8, <2>9, NarrowsReceiving
<1> QED
  BY <1>6, <1>7, <1>8 DEF v, n

\* The octets of f that are handed over when it arrives.
Handed(s, f, id) == IF Delivers(s, f) THEN DataLen(f, id) ELSE 0

LEMMA ReceivesSettled ==
    ASSUME NEW s, SessionInv(s), NEW f \in WireFrames, NEW t, SessionInv(t), Receives(s, t, f),
           nghttp2_session_want_read(s), ~Term(s),
           NEW left, NEW got, got \in [Ids -> Int], NEW own, NEW peer,
           Settled(s, left, got, own, peer, {}), Writing(s, left),
           \A id \in Ids : Receiving(s, id) /\ Ends(f, id) => got[id] + DataLen(f, id) = peer,
           NEW more, \A id \in Ids : more[id] = got[id] + Handed(s, f, id)
    PROVE  /\ Settled(t, left, more, own, peer, {})
           /\ \A id \in Ids : Receiving(t, id) => Receiving(s, id)
<1> DEFINE R == RefusedBy(f)
<1>1. Active(s) \subseteq Ids /\ IgnoresOnTerm(s) /\ ~s.ign_all
  BY UsedIds DEF Settled, IgnoresOnTerm, Term
<1>2. f.type \in {"HEADERS", "DATA"} => f.id \in Ids
  BY DEF WireFrames, UrgentItems, HeadersFrames, DataFrames, RstFrames, SettingsFrames,
     AckFrames, GoawayFrames, UpdateFrames
<1>3. \A id \in Ids : ~Delivers(s, f) \/ id # f.id => more[id] = got[id]
  BY DEF Handed, DataLen
<1>4. Settled(s, left, more, own, peer, {})
  <2>1. CASE Delivers(s, f)
    <3>1. DataVerdict(s, f.id) = "take"
      BY <2>1 DEF Delivers
    <3>2. f.id \in Active(s) /\ ~s.streams[f.id].rd
      BY <3>1, TakenStream
    <3> QED
      BY <1>1, <1>3, <3>2, SettledCounts
  <2>2. CASE ~Delivers(s, f)
    <3>1. \A id \in Ids : more[id] = got[id]
      BY <1>3, <2>2
    <3> QED
      BY <1>1, <3>1 DEF Settled, Half, Shut
  <2> QED
    BY <2>1, <2>2
<1>5. CASE Moved(s, t, R) /\ Calm(s, t)
  <2>1. Settled(t, left, more, own, peer, {})
    BY <1>4, <1>5, SettledMoved
  <2>2. Narrows(s, t)
    BY <1>5, MovedNarrows
  <2> QED
    BY <2>1, <2>2, NarrowsReceiving
<1>6. CASE /\ f.type \in {"HEADERS", "DATA"} /\ f.id \in Active(s) /\ ~s.streams[f.id].rd
           /\ f.type = "DATA" =>
                /\ DataVerdict(s, f.id) = "take"
                /\ IgnoresOnTerm(s) /\ ~s.ign_all => f.len = 0 \/ ~OverWindow(s, f.len)
           /\ Holds(s, t, R) /\ Arrives(s, t, f, R)
  <2> DEFINE n == f.id
  <2>1. PICK u : Keeps(s, u, R) /\ Hears(u, t, f, R)
    BY <1>6 DEF Arrives
  <2>2. n \in Ids /\ n \in Active(s)
    BY <1>2, <1>6
  <2>3. SessionInv(u) /\ Moved(s, u, R) /\ Calm(s, u)
    BY <2>1 DEF Keeps, Holds, Moved
  <2>4. Settled(u, left, more, own, peer, {})
    BY <1>4, <2>3, SettledMoved
  <2>5. ASSUME f.end, s.streams[n].state # "closing"
        PROVE  more[n] = peer \/ Excused(s, n)
    <3>1. CASE Receiving(s, n)
      <4>1. Ends(f, n)
        BY <1>6, <2>5 DEF Ends
      <4>2. got[n] + DataLen(f, n) = peer
        BY <2>2, <3>1, <4>1
      <4>3. more[n] = got[n] + Handed(s, f, n)
        BY <2>2
      <4>4. Handed(s, f, n) = DataLen(f, n)
        <5>1. CASE f.type = "DATA"
          <6>1. f.len = 0 \/ Delivers(s, f)
            BY <1>1, <1>6, <5>1 DEF Delivers
          <6> QED
            BY <6>1 DEF Handed, DataLen
        <5>2. CASE f.type # "DATA"
          BY <5>2 DEF Handed, DataLen
        <5> QED
          BY <5>1, <5>2
      <4> QED
        BY <4>2, <4>3, <4>4
    <3>2. CASE ~Receiving(s, n)
      <4>1. s.server /\ Resets(s, n)
        BY <2>2, <2>5, <3>2 DEF Receiving
      <4>2. Half(s, n, left, got, peer)
        BY <2>2 DEF Settled
      <4>3. ~s.streams[n].wr /\ n \notin DataIds(s.aob)
        BY <2>5, <4>1, <4>2 DEF Half
      <4> QED
        BY <4>1, <4>3 DEF Excused
    <3> QED
      BY <3>1, <3>2
  <2>6. f.end /\ n \in Active(u) /\ u.streams[n].state # "closing"
           => more[n] = peer \/ Excused(u, n)
    <3> SUFFICES ASSUME f.end, n \in Active(u), u.streams[n].state # "closing"
                 PROVE  more[n] = peer \/ Excused(u, n)
      OBVIOUS
    <3>1. s.streams[n].state # "closing" /\ (Excused(s, n) => Excused(u, n))
      BY <2>3, HalfMoved
    <3> QED
      BY <2>5, <3>1
  <2> HIDE DEF R
  <2>7. Settled(t, left, more, own, peer, {})
    BY <2>1, <2>3, <2>4, <2>6, HearsSettled
  <2>8. \A id \in Active(t) :
           t.streams[id].state # "closing" => s.streams[id].state # "closing"
    <3>1. /\ Active(t) \subseteq Active(u)
          /\ \A id \in Active(t) :
                t.streams[id].state # "closing" => u.streams[id].state # "closing"
      BY <2>1, <2>3, HearsNarrows
    <3> QED
      BY <2>3, <3>1 DEF Calm
  <2>9. Narrows(s, t)
    BY <1>6, <2>8, NarrowsMoved DEF Holds
  <2> QED
    BY <2>7, <2>9, NarrowsReceiving
<1>7. CASE /\ f.type = "HEADERS" /\ s.server /\ f.id \in Ids /\ f.id > s.last_recv
           /\ \/ Keeps(Seen(s, f.id), t, {})
              \/ Refuses(s, t, f.id)
              \/ \E o : Opens(s, o, f.id) /\ Holds(o, t, {}) /\ Hears(o, t, f, {})
  <2>1. ~Delivers(s, f)
    BY <1>7 DEF Delivers
  <2>2. Receiving(s, f.id) /\ f.end => more[f.id] = peer
    <3> SUFFICES ASSUME Receiving(s, f.id), f.end PROVE more[f.id] = peer
      OBVIOUS
    <3>1. Ends(f, f.id) /\ DataLen(f, f.id) = 0 /\ Handed(s, f, f.id) = 0
      BY <1>7, <2>1 DEF Ends, DataLen, Handed
    <3> QED
      BY <1>7, <3>1
  <2> QED
    BY <1>4, <1>7, <2>2, RequestSettled
<1> QED
  BY <1>5, <1>6, <1>7 DEF Receives

LEMMA ReceivesFields ==
    ASSUME NEW s, SessionInv(s), NEW t, NEW f, Receives(s, t, f)
    PROVE  /\ t.aob = s.aob /\ t.last_sent = s.last_sent
           /\ \/ t.last_recv = s.last_recv
              \/ /\ f.type = "HEADERS" /\ s.server /\ f.id \in Ids /\ f.id > s.last_recv
                 /\ t.last_recv = f.id
<1>1. CASE Moved(s, t, RefusedBy(f))
  BY <1>1 DEF Moved, Follows
<1>2. CASE /\ f.type = "HEADERS" /\ s.server /\ f.id \in Ids /\ f.id > s.last_recv
           /\ \/ Moved(Seen(s, f.id), t, {})
              \/ Refuses(s, t, f.id)
              \/ \E o : Opens(s, o, f.id) /\ Moved(o, t, {})
  <2> DEFINE v == Seen(s, f.id)
  <2>1. SessionInv(v) /\ v.aob = s.aob /\ v.last_sent = s.last_sent /\ v.last_recv = f.id
    BY <1>2, SeenKept
  <2>2. CASE Moved(v, t, {})
    BY <1>2, <2>1, <2>2 DEF Moved, Follows
  <2>3. CASE Refuses(s, t, f.id)
    <3> HIDE DEF v
    <3>1. t.aob = v.aob /\ t.last_sent = v.last_sent /\ t.last_recv = v.last_recv
      BY <2>1, <2>3 DEF Refuses, SessionInv, Session, v
    <3> QED
      BY <1>2, <2>1, <3>1
  <2>4. CASE \E o : Opens(s, o, f.id) /\ Moved(o, t, {})
    BY <1>2, <2>4 DEF Opens, Moved, Follows
  <2> QED
    BY <1>2, <2>2, <2>3, <2>4
<1> QED
  BY <1>1, <1>2, ReceivesShape

\* What Recv does to the applications.
LEMMA RecvApp ==
    ASSUME Inv1, NEW p \in Sides, Recv(p)
    PROVE  /\ app[p].left' = app[p].left
           /\ app[Peer(p)].left' = app[Peer(p)].left /\ app[Peer(p)].got' = app[Peer(p)].got
           /\ \A id \in Ids : app[p].got'[id] = app[p].got[id] + Handed(ses[p], Head(net[p]), id)
<1> DEFINE f == Head(net[p])
<1>1. /\ app \in [Sides -> Apps] /\ app[p] \in Apps /\ net[p] \in Seq(WireFrames)
      /\ app[p].got \in [Ids -> Int] /\ Peer(p) \in Sides /\ Peer(p) # p
  BY SideTypes, Peers
<1>2. f \in WireFrames
  BY <1>1 DEF Recv
<1>3. app' = IF Delivers(ses[p], f)
             THEN [app EXCEPT ![p].got[f.id] = @ + f.len,
                              ![p].held[f.id] = IF NoAutoWindowUpdate THEN @ + f.len ELSE @]
             ELSE app
  BY DEF Recv
<1> HIDE DEF f
<1>4. CASE Delivers(ses[p], f)
  <2>1. f.type = "DATA"
    BY <1>4 DEF Delivers
  <2>2. f.id \in Ids /\ f.len \in Int
    BY <1>2, <2>1 DEF WireFrames, UrgentItems, HeadersFrames, DataFrames, RstFrames,
       SettingsFrames, AckFrames, GoawayFrames, UpdateFrames
  <2> DEFINE n == app[p].got[f.id] + f.len
             k == IF NoAutoWindowUpdate THEN app[p].held[f.id] + f.len ELSE app[p].held[f.id]
             g == [app[p].got EXCEPT ![f.id] = n]
             h == [app[p].held EXCEPT ![f.id] = k]
             a == [app[p] EXCEPT !.got = g, !.held = h]
  <2>3. app' = [app EXCEPT ![p] = a]
    BY <1>1, <1>3, <1>4, <2>2 DEF Apps
  <2>4. g[f.id] = app[p].got[f.id] + f.len /\ \A id \in Ids : id # f.id => g[id] = app[p].got[id]
    BY <1>1, <2>2
  <2> HIDE DEF n, k, g, h
  <2>5. a.left = app[p].left /\ a.got = g
    BY <1>1 DEF Apps
  <2> HIDE DEF a
  <2>6. app'[p] = a /\ app'[Peer(p)] = app[Peer(p)]
    BY <1>1, <2>3
  <2>7. \A id \in Ids : g[id] = app[p].got[id] + Handed(ses[p], f, id)
    <3> SUFFICES ASSUME NEW id \in Ids PROVE g[id] = app[p].got[id] + Handed(ses[p], f, id)
      OBVIOUS
    <3>1. CASE id = f.id
      <4>1. Handed(ses[p], f, id) = f.len
        BY <1>4, <2>1, <3>1 DEF Handed, DataLen
      <4> QED
        BY <2>4, <3>1, <4>1
    <3>2. CASE id # f.id
      <4>1. Handed(ses[p], f, id) = 0
        BY <1>4, <3>2 DEF Handed, DataLen
      <4>2. app[p].got[id] \in Int
        BY <1>1
      <4> QED
        BY <2>4, <3>2, <4>1, <4>2
    <3> QED
      BY <3>1, <3>2
  <2> QED
    BY <2>5, <2>6, <2>7 DEF f
<1>5. CASE ~Delivers(ses[p], f)
  <2>1. app' = app
    BY <1>3, <1>5
  <2>2. \A id \in Ids : app[p].got[id] = app[p].got[id] + Handed(ses[p], f, id)
    <3>1. \A id \in Ids : app[p].got[id] \in Int /\ Handed(ses[p], f, id) = 0
      BY <1>1, <1>5 DEF Handed
    <3> QED
      BY <3>1
  <2> QED
    BY <2>1, <2>2 DEF f
<1> QED
  BY <1>4, <1>5

\* DATA for a stream that p receives is handed over.
LEMMA DataTaken ==
    ASSUME Inv1, Inv3, NEW p \in Sides, Recv(p), NEW id \in Ids, Receiving(ses[p], id),
           Receiving(nghttp2_session_mem_recv(ses[p], Head(net[p])), id)
    PROVE  Handed(ses[p], Head(net[p]), id) = DataLen(Head(net[p]), id)
<1> DEFINE s == ses[p]
           f == Head(net[p])
           t == nghttp2_session_mem_recv(s, f)
<1>1. SessionInv(s) /\ s \in Session /\ net[p] \in Seq(WireFrames) /\ id \in Nat
  BY SideTypes, IdsNat
<1>2. net[p] # <<>> /\ ~Gone(p)
  BY DEF Recv
<1>3. /\ Settled(s, app[p].left, app[p].got, BodyLen[p], BodyLen[Peer(p)], {})
      /\ Ordered(ses["c"], ses["s"], net["s"], net["c"])
  BY DEF Inv3, Side
<1>4. ~Term(s) /\ ~Term(t)
  BY DEF Receiving
<1>5. ~s.ign_all /\ IgnoresOnTerm(s)
  BY <1>3, <1>4 DEF Settled, IgnoresOnTerm, Term
<1>6. s.last_recv \in Nat /\ s.last_sent \in Nat
  BY <1>1 DEF Session
<1>7. p = "s" \/ p = "c"
  BY DEF Sides
<1>8. s.server <=> p = "s"
  <2>1. ses["s"].server /\ ~ses["c"].server
    BY SideTypes
  <2> QED
    BY <1>7, <2>1
<1> SUFFICES ASSUME f.type = "DATA", f.id = id PROVE f.len = 0 \/ Delivers(s, f)
  BY DEF Handed, DataLen
<1>9. id \in DataIds(net[p])
  BY <1>1, <1>2, TailFrame
<1>10. ~s.server => ~(id > s.last_sent) /\ id \notin HeadersIds(s.aob)
  <2> SUFFICES ASSUME ~s.server, id > s.last_sent \/ id \in HeadersIds(s.aob) PROVE FALSE
    OBVIOUS
  <2>1. p = "c"
    BY <1>7, <1>8
  <2>2. id > ses["s"].last_recv
    BY <1>3, <2>1 DEF Ordered
  <2>3. id <= ses["s"].last_recv
    BY <1>3, <1>9, <2>1 DEF Ordered
  <2>4. ses["s"].last_recv \in Nat
    BY SideTypes DEF Session, Sides
  <2> QED
    BY <1>1, <2>2, <2>3, <2>4
<1>11. nghttp2_session_want_read(s)
  <2> SUFFICES ASSUME ~nghttp2_session_want_read(s) PROVE FALSE
    OBVIOUS
  <2>1. Active(s) = {}
    BY <1>2 DEF nghttp2_session_want_read, Gone
  <2> QED
    BY <1>10, <2>1 DEF Receiving
<1>12. CASE DataVerdict(s, id) = "ignore"
  <2>1. ~session_detect_idle_stream(s, id) /\ (id \in Active(s) => s.streams[id].state = "closing")
    BY <1>12, Verdicts
  <2>2. id \in Active(s) /\ s.server /\ ~Resets(s, id)
    <3>1. CASE s.server
      <4>1. ~(id > s.last_recv)
        BY <1>1, <1>6, <2>1, <3>1 DEF session_detect_idle_stream
      <4> QED
        BY <3>1, <4>1 DEF Receiving
    <3>2. CASE ~s.server
      BY <1>10, <2>1, <3>2 DEF Receiving
    <3> QED
      BY <3>1, <3>2
  <2>3. Half(s, id, app[p].left, app[p].got, BodyLen[Peer(p)])
    BY <1>3, <2>2 DEF Settled
  <2> QED
    BY <1>4, <2>1, <2>2, <2>3 DEF Half
<1> QED
  BY <1>1, <1>4, <1>5, <1>11, <1>12, DataHanded

LEMMA RecvInv3 ==
    ASSUME Inv1, Inv3, NEW p \in Sides, Recv(p) PROVE Inv3'
<1> DEFINE s == ses[p]
           q == Peer(p)
           f == Head(net[p])
           t == nghttp2_session_mem_recv(s, f)
           left == app[p].left
           got == app[p].got
           more == app[p].got'
<1>1. /\ SessionInv(s) /\ s \in Session /\ ses \in [Sides -> Session]
      /\ net \in [Sides -> Seq(WireFrames)] /\ got \in [Ids -> Int]
  BY SideTypes
<1>2. q \in Sides /\ q # p /\ Peer(q) = p /\ Sides = {p, q}
  BY Peers
<1>3. net[p] # <<>> /\ ~Gone(p) /\ ses' = [ses EXCEPT ![p] = t]
  BY <1>1 DEF Recv
<1>4. /\ f \in WireFrames /\ Receives(s, t, f) /\ SessionInv(t) /\ t.server = s.server
      /\ net' = [net EXCEPT ![p] = Tail(net[p])]
  <2>1. PICK u : /\ ses' = [ses EXCEPT ![p] = u] /\ f \in WireFrames
                 /\ Receives(s, u, f) /\ SessionInv(u) /\ u.server = s.server
                 /\ net' = [net EXCEPT ![p] = Tail(net[p])]
    BY RecvStep
  <2>2. u = t
    <3>1. ses'[p] = u /\ ses'[p] = t
      BY <1>1, <1>3, <2>1
    <3> QED
      BY <3>1
  <2> QED
    BY <2>1, <2>2
<1>5. /\ app[p].left' = left /\ app[q].left' = app[q].left /\ app[q].got' = app[q].got
      /\ \A id \in Ids : more[id] = got[id] + Handed(s, f, id)
  BY RecvApp
<1>6. ASSUME NEW id \in Ids, Receiving(s, id), Receiving(t, id)
      PROVE  Handed(s, f, id) = DataLen(f, id)
  BY <1>6, DataTaken
<1>7. /\ net'[p] = Tail(net[p]) /\ net'[q] = net[q] /\ ses'[p] = t /\ ses'[q] = ses[q]
  BY <1>1, <1>2, <1>3, <1>4
<1>9. /\ Side(s, left, got, BodyLen[p], BodyLen[q])
      /\ Ordered(ses["c"], ses["s"], net["s"], net["c"])
      /\ \A id \in Ids : Receiving(s, id) =>
            Account(got[id], app[q].left[id], BodyLen[q], net[p], ses[q].aob, id)
      /\ \A id \in Ids : Receiving(ses[q], id) =>
            Account(app[q].got[id], left[id], BodyLen[p], net[q], s.aob, id)
  BY <1>2 DEF Inv3
<1> HIDE DEF t, f
<1>10. /\ t.aob = s.aob /\ t.last_sent = s.last_sent
       /\ \/ t.last_recv = s.last_recv
          \/ /\ f.type = "HEADERS" /\ s.server /\ f.id \in Ids /\ f.id > s.last_recv
             /\ t.last_recv = f.id
  BY <1>1, <1>4, ReceivesFields
<1>11. s.last_recv \in Nat /\ t.last_recv \in Nat /\ s.last_recv <= t.last_recv
  <2>1. s.last_recv \in Nat /\ t.last_recv \in Nat
    BY <1>1, <1>4 DEF Session, SessionInv
  <2> QED
    BY <1>10, <2>1
<1>12. \A id \in Ids : Receiving(s, id) =>
          /\ Account(got[id] + DataLen(f, id), app[q].left[id], BodyLen[q], Tail(net[p]),
                     ses[q].aob, id)
          /\ Ends(f, id) => got[id] + DataLen(f, id) = BodyLen[q]
  <2> SUFFICES ASSUME NEW id \in Ids, Receiving(s, id)
               PROVE  /\ Account(got[id] + DataLen(f, id), app[q].left[id], BodyLen[q],
                                 Tail(net[p]), ses[q].aob, id)
                      /\ Ends(f, id) => got[id] + DataLen(f, id) = BodyLen[q]
    OBVIOUS
  <2>1. Account(got[id], app[q].left[id], BodyLen[q], net[p], ses[q].aob, id) /\ got[id] \in Int
    BY <1>1, <1>9
  <2>2. net[p] \in Seq(WireFrames)
    BY <1>1
  <2> HIDE DEF got, q
  <2> QED
    BY <1>3, <2>1, <2>2, AccountTail DEF f
<1>13. /\ Settled(t, left, more, BodyLen[p], BodyLen[q], {})
       /\ \A id \in Ids : Receiving(t, id) => Receiving(s, id)
  <2>1. /\ Settled(s, left, got, BodyLen[p], BodyLen[q], {}) /\ Writing(s, left)
    BY <1>9 DEF Side
  <2>2. CASE ~nghttp2_session_want_read(s) \/ s.ign_all
    <3>1. t = s
      BY <2>2, Zenon DEF nghttp2_session_mem_recv, t
    <3>2. ~Delivers(s, f)
      BY <2>2 DEF Delivers
    <3>3. \A id \in Ids : more[id] = got[id]
      <4>1. \A id \in Ids : got[id] \in Int /\ Handed(s, f, id) = 0
        BY <1>1, <3>2 DEF Handed
      <4> QED
        BY <1>5, <4>1
    <3>4. Active(s) \subseteq Ids
      BY <1>1, UsedIds
    <3> HIDE DEF s, left, got, more, q
    <3>5. Settled(s, left, more, BodyLen[p], BodyLen[q], {})
      BY <2>1, <3>3, <3>4 DEF Settled, Half, Shut
    <3> QED
      BY <3>1, <3>5
  <2>3. CASE nghttp2_session_want_read(s) /\ ~s.ign_all
    <3>1. ~Term(s)
      BY <2>1, <2>3 DEF Settled, IgnoresOnTerm, Term
    <3> HIDE DEF s, left, got, more, q
    <3>2. /\ \A id \in Ids : Receiving(s, id) /\ Ends(f, id) =>
                got[id] + DataLen(f, id) = BodyLen[q]
          /\ \A id \in Ids : more[id] = got[id] + Handed(s, f, id)
      BY <1>5, <1>12
    <3>3. /\ SessionInv(s) /\ f \in WireFrames /\ SessionInv(t) /\ Receives(s, t, f)
          /\ got \in [Ids -> Int] /\ nghttp2_session_want_read(s)
      BY <1>1, <1>4, <2>3
    <3> QED
      BY <2>1, <3>1, <3>2, <3>3, ReceivesSettled
  <2> QED
    BY <2>2, <2>3
<1>14. Writing(t, left)
  <2>1. Writing(s, left) /\ s.aob \in Seq(PreparedItems)
    BY <1>1, <1>9 DEF Side, Session
  <2>2. \A i \in 1..Len(s.aob) : s.aob[i].type = "DATA" => s.aob[i].id \in Nat
    <3>1. \A i \in 1..Len(s.aob) : s.aob[i] \in PreparedItems
      BY <2>1
    <3> QED
      BY <3>1, IdsNat DEF PreparedItems, RegularItems, UrgentItems, Responses, RequestItems,
         DataFrames, RstFrames, SettingsFrames, AckFrames, GoawayItems, UpdateFrames
  <2> HIDE DEF s, left
  <2>3. \A i \in 1..Len(s.aob) : s.server /\ s.aob[i].type = "DATA" => s.aob[i].id <= t.last_recv
    <3> SUFFICES ASSUME NEW i \in 1..Len(s.aob), s.server, s.aob[i].type = "DATA"
                 PROVE  s.aob[i].id <= t.last_recv
      OBVIOUS
    <3>1. s.aob[i].id <= s.last_recv /\ s.aob[i].id \in Nat
      BY <2>1, <2>2 DEF Writing
    <3> QED
      BY <1>11, <3>1
  <2> QED
    BY <1>4, <1>10, <2>1, <2>3 DEF Writing
<1>15. Side(t, app[p].left', app[p].got', BodyLen[p], BodyLen[q])
  BY <1>5, <1>9, <1>13, <1>14 DEF Side
<1>16. Ordered(ses["c"], ses["s"], net["s"], net["c"])'
  <2>1. net[p] \in Seq(WireFrames)
    BY <1>1
  <2>2. CASE p = "c"
    <3>1. q = "s"
      BY <2>2 DEF Peer
    <3>2. /\ ses'["s"] = ses["s"] /\ ses'["c"].last_sent = ses["c"].last_sent
          /\ ses'["c"].aob = ses["c"].aob /\ net'["s"] = net["s"]
          /\ net'["c"] = Tail(net["c"])
      BY <1>7, <1>10, <2>2, <3>1
    <3>3. DataIds(net'["c"]) \subseteq DataIds(net["c"])
      BY <1>3, <2>1, <2>2, <3>2, TailFrame
    <3> QED
      BY <1>9, <3>2, <3>3 DEF Ordered
  <2>3. CASE p = "s"
    <3>1. q = "c"
      BY <2>3 DEF Peer
    <3>2. /\ ses'["c"] = ses["c"] /\ ses'["s"] = t /\ net'["c"] = net["c"]
          /\ net'["s"] = Tail(net["s"])
      BY <1>7, <2>3, <3>1
    <3>3. /\ HeadersIds(net'["s"]) \subseteq HeadersIds(net["s"])
          /\ f.type = "HEADERS" /\ f.id \in Ids => f.id \in HeadersIds(net["s"])
      BY <1>3, <2>1, <2>3, <3>2, TailFrame DEF f
    <3>4. ASSUME NEW id \in Ids, id > ses["c"].last_sent \/ id \in HeadersIds(ses["c"].aob)
          PROVE  id > t.last_recv /\ \A h \in HeadersIds(net'["s"]) : h < id
      <4>1. id > s.last_recv /\ \A h \in HeadersIds(net["s"]) : h < id
        BY <1>9, <2>3, <3>4 DEF Ordered
      <4>2. id \in Nat
        BY IdsNat
      <4>3. CASE t.last_recv = s.last_recv
        BY <3>3, <4>1, <4>3
      <4>4. CASE f.type = "HEADERS" /\ f.id \in Ids /\ t.last_recv = f.id
        <5>1. f.id < id
          BY <3>3, <4>1, <4>4
        <5> QED
          BY <1>11, <3>3, <4>1, <4>2, <4>4, <5>1
      <4> QED
        BY <1>10, <4>3, <4>4
    <3>5. ASSUME NEW id \in DataIds(net["c"]) PROVE id <= t.last_recv
      <4>1. id <= s.last_recv
        BY <1>9, <2>3 DEF Ordered
      <4>2. id \in Nat
        BY IdsNat DEF DataIds
      <4> QED
        BY <1>11, <4>1, <4>2
    <3> QED
      BY <3>2, <3>4, <3>5 DEF Ordered
  <2> QED
    BY <2>2, <2>3 DEF Sides
<1>17. ASSUME NEW id \in Ids, Receiving(t, id)
       PROVE  Account(app[p].got[id], app[q].left[id], BodyLen[q], net[p], ses[q].aob, id)'
  <2>1. Receiving(s, id)
    BY <1>13, <1>17
  <2>2. Handed(s, f, id) = DataLen(f, id)
    BY <1>6, <1>17, <2>1
  <2>3. more[id] = got[id] + DataLen(f, id)
    BY <1>5, <2>2
  <2>4. Account(more[id], app[q].left[id], BodyLen[q], Tail(net[p]), ses[q].aob, id)
    BY <1>12, <2>1, <2>3
  <2> QED
    BY <1>5, <1>7, <2>4
<1>18. ASSUME NEW id \in Ids, Receiving(ses[q], id)
       PROVE  Account(app[q].got[id], app[p].left[id], BodyLen[p], net[q], ses[p].aob, id)'
  <2>1. Account(app[q].got[id], left[id], BodyLen[p], net[q], s.aob, id)
    BY <1>9, <1>18
  <2> QED
    BY <1>5, <1>7, <1>10, <2>1
<1> QED
  BY <1>3, <1>5, <1>15, <1>16, <1>17, <1>18, StepInv3

-----------------------------------------------------------------------------
(* A frame leaves.                                                         *)

\* v is s without the frame it was writing.
Emptied(s, v) ==
    /\ SessionInv(v) /\ v.streams = s.streams /\ v.server = s.server /\ v.aob = <<>>
    /\ v.reg = s.reg /\ v.syn = s.syn /\ v.reason = s.reason /\ v.ign_all = s.ign_all
    /\ v.last_recv = s.last_recv /\ v.last_sent = s.last_sent
    /\ s.goaway \subseteq v.goaway /\ (Term(v) <=> Term(s))

LEMMA EmptiedPasses ==
    ASSUME NEW s, SessionInv(s), NEW f, s.aob = <<f>>, NEW v, Emptied(s, v),
           NEW ex, f.type = "RST_STREAM" => f.id \in ex,
           NEW left, NEW got, NEW own, NEW peer, Settled(s, left, got, own, peer, {})
    PROVE  /\ Settled(v, left, got, own, peer, ex)
           /\ Active(v) = Active(s)
           /\ \A id : id \notin ex => (Resets(v, id) <=> Resets(s, id))
<1>1. \A id : Resets(s, id) <=> Rst(s.reg, id) \/ (f.type = "RST_STREAM" /\ f.id = id)
  BY OneFrame DEF Resets
<1>2. \A id : Resets(v, id) <=> Rst(s.reg, id)
  BY NoFrames DEF Resets, Emptied
<1>3. Active(v) = Active(s) /\ Used(v) = Used(s) /\ Used(s) \in Nat
  BY DEF Emptied, Active, Used, SessionInv, Session
<1>4. \A id : id \notin ex => (Resets(v, id) <=> Resets(s, id))
  BY <1>1, <1>2
<1>5. \A id : id \notin DataIds(v.aob) /\ id \notin HeadersIds(v.aob)
  BY NoFrames DEF Emptied
<1>6. Passes(s, v, ex)
  BY <1>3, <1>4, <1>5 DEF Passes, Emptied
<1>7. \A i \in 1..Len(v.syn) : v.syn[i].end => own = 0
  BY DEF Emptied, Settled
<1>8. SessionInv(v)
  BY DEF Emptied
<1> QED
  BY <1>3, <1>4, <1>6, <1>7, <1>8, SettledPasses

LEMMA EmptiedNarrows ==
    ASSUME NEW s, SessionInv(s), NEW f, s.aob = <<f>>, NEW v, Emptied(s, v),
           NEW t, NEW R, Moved(v, t, R), f.type = "RST_STREAM" => f.id \notin Active(t),
           \A id \in Active(t) : t.streams[id].state # "closing" =>
              s.streams[id].state # "closing" \/ (f.type = "HEADERS" /\ f.id = id)
    PROVE  Narrows(s, t) /\ t.aob = <<>> /\ t.last_recv = s.last_recv /\ t.last_sent = s.last_sent
<1>1. Active(v) = Active(s) /\ SessionInv(v)
  BY DEF Emptied, Active
<1>2. /\ t.server = s.server /\ t.aob = <<>> /\ t.last_recv = s.last_recv
      /\ t.last_sent = s.last_sent /\ s.goaway \subseteq t.goaway /\ Active(t) \subseteq Active(s)
      /\ s.last_recv \in Nat /\ s.last_sent \in Nat
  BY <1>1 DEF Moved, Follows, Emptied, SessionInv, Session
<1>3. nghttp2_session_want_read(t) => nghttp2_session_want_read(s)
  BY <1>2, WantReadKept
<1>4. ASSUME NEW id \in Active(t), Resets(s, id) PROVE Resets(t, id)
  <2>1. Rst(s.reg, id) \/ (f.type = "RST_STREAM" /\ f.id = id)
    BY <1>4, OneFrame DEF Resets
  <2>2. Rst(v.reg, id)
    BY <2>1 DEF Emptied
  <2>3. Resets(v, id)
    BY <2>2 DEF Resets
  <2> QED
    BY <1>1, <2>3, ResetsMoved
<1>5. ASSUME NEW id \in Active(t), t.streams[id].state # "closing"
      PROVE  s.streams[id].state # "closing" \/ id \in HeadersIds(s.aob)
  <2>1. id \in Ids
    BY <1>2, UsedIds
  <2>2. f.type = "HEADERS" /\ f.id = id => id \in HeadersIds(s.aob)
    BY <2>1, OneFrame
  <2> QED
    BY <1>5, <2>2
<1>6. HeadersIds(t.aob) \subseteq HeadersIds(s.aob)
  BY <1>2, NoFrames
<1> QED
  BY <1>2, <1>3, <1>4, <1>5, <1>6 DEF Narrows, Term

LEMMA WrittenEmptied ==
    ASSUME NEW s, SessionInv(s)
    PROVE  Emptied(s, Written(s))
  BY WrittenKept DEF Emptied, SameStreams, Term

LEMMA GoawayEmptied ==
    ASSUME NEW s, SessionInv(s), NEW f, SessionInv(GoawayOut(Written(s), f))
    PROVE  Emptied(s, GoawayOut(Written(s), f))
<1> DEFINE w == Written(s)
           v == GoawayOut(w, f)
<1>1. Emptied(s, w) /\ w \in Session
  BY WrittenEmptied DEF Emptied, SessionInv
<1> HIDE DEF w
<1>2. /\ v.aob = w.aob /\ v.reg = w.reg /\ v.syn = w.syn /\ SameStreams(w, v)
      /\ v.reason = w.reason /\ w.goaway \subseteq v.goaway /\ v.ign_all = w.ign_all
      /\ "term_on_send" \in v.goaway <=> "term_on_send" \in w.goaway
  BY <1>1, OutFields
<1>3. SessionInv(v)
  BY DEF w
<1> HIDE DEF v
<1> QED
  BY <1>1, <1>2, <1>3 DEF Emptied, SameStreams, Term, v, w

\* The HEADERS f of the open stream n left.
LEMMA HeadedSettled ==
    ASSUME NEW s, SessionInv(s), NEW f, s.aob = <<f>>, f.type = "HEADERS", NEW end \in BOOLEAN,
           end = f.end, NEW n, n = f.id, n \in Active(s),
           NEW v, Emptied(s, v), NEW left, NEW got, NEW own, NEW peer,
           Settled(s, left, got, own, peer, {}), Settled(v, left, got, own, peer, {}),
           Writing(s, left)
    PROVE  LET h == Headed(v, n, end)
           IN  /\ SessionInv(h) /\ Settled(h, left, got, own, peer, {})
               /\ \A id \in Active(s) \ {n} : h.streams[id] = s.streams[id]
<1> DEFINE h == Headed(v, n, end)
<1>1. /\ SessionInv(v) /\ v.streams = s.streams /\ v.server = s.server /\ v.aob = <<>>
      /\ v.reg = s.reg /\ (Term(v) <=> Term(s)) /\ Active(v) = Active(s)
      /\ Active(s) \subseteq DOMAIN s.streams
  BY DEF Emptied, Active
<1>2. n \in DOMAIN v.streams
  BY <1>1
<1>3. /\ Holds(v, h, {}) /\ Retouched(v, h)
      /\ \A i \in DOMAIN v.streams \ {n} : h.streams[i] = v.streams[i]
      /\ h.streams[n].state # "closing" /\ h.streams[n].rd = v.streams[n].rd
      /\ h.streams[n].wr <=> v.streams[n].wr \/ end
  <2>1. SessionInv(v)
    BY <1>1
  <2> QED
    BY <1>2, <2>1, HeadedKept
<1> HIDE DEF h
<1>4. /\ h.server = s.server /\ h.aob = <<>> /\ (Term(s) => Term(h)) /\ h.reg = s.reg
  BY <1>1, <1>3 DEF Retouched, Term
<1>5. Resets(h, n) <=> Resets(s, n)
  <2>1. ~Rst(s.aob, n) /\ ~Rst(<<>>, n)
    BY OneFrame, NoFrames
  <2> QED
    BY <1>4, <2>1 DEF Resets
<1>6. Half(s, n, left, got, peer)
  BY DEF Settled
<1>7. n \in Ids /\ n \in HeadersIds(s.aob)
  BY UsedIds, OneFrame
<1>8. Len(s.aob) = 1 /\ s.aob[1] = f /\ 1 \in 1..1
  OBVIOUS
<1>9. end => left[n] = 0 /\ ~s.server
  <2>1. Ends(f, n) <=> end
    BY DEF Ends
  <2> QED
    BY <1>7, <1>8, <2>1 DEF Writing
<1>10. n \notin DataIds(h.aob) /\ n \notin HeadersIds(h.aob)
  BY <1>4, NoFrames
<1>11. s.server => ~h.streams[n].wr
  BY <1>1, <1>3, <1>6, <1>7, <1>9 DEF Half
<1>12. h.streams[n].rd => got[n] = peer \/ Excused(h, n)
  BY <1>1, <1>3, <1>4, <1>5, <1>6, <1>10, <1>11 DEF Half, Excused
<1>13. Shut(h, n, left, got, peer)
  <2>1. h.streams[n].wr => left[n] = 0
    BY <1>1, <1>3, <1>6, <1>9 DEF Half, Shut
  <2>2. h.streams[n].rd /\ h.streams[n].wr => got[n] = peer
    BY <1>12 DEF Excused
  <2> QED
    BY <2>1, <2>2 DEF Shut
<1>14. Half(h, n, left, got, peer)
  BY <1>3, <1>4, <1>10, <1>11, <1>12, <1>13 DEF Half
<1>15. Settled(h, left, got, own, peer, {})
  BY <1>1, <1>3, <1>14, SettledEdit
<1> QED
  BY <1>1, <1>3, <1>15 DEF Holds, Moved, h

\* The last DATA f of the open stream n left.
LEMMA DrainedSettled ==
    ASSUME NEW s, SessionInv(s), NEW f, s.aob = <<f>>, f.type = "DATA", f.end,
           NEW n, n = f.id, n \in Active(s),
           NEW v, Emptied(s, v), NEW u, Quiet(v, u), NEW left, NEW got, NEW own, NEW peer,
           Settled(s, left, got, own, peer, {}), Settled(v, left, got, own, peer, {}),
           Writing(s, left)
    PROVE  LET d == Drained(u, n)
           IN  /\ SessionInv(d) /\ Settled(d, left, got, own, peer, {})
               /\ \A id \in Active(s) :
                     d.streams[id].state = "closing" <=> s.streams[id].state = "closing"
<1> DEFINE d == Drained(u, n)
<1>1. /\ SessionInv(v) /\ v.streams = s.streams /\ v.server = s.server /\ v.aob = <<>>
      /\ v.reg = s.reg /\ (Term(v) <=> Term(s)) /\ Active(v) = Active(s)
      /\ Active(s) \subseteq DOMAIN s.streams
  BY DEF Emptied, Active
<1>2. Keeps(v, u, {}) /\ SessionInv(u)
  BY <1>1, QuietKeeps DEF Keeps, Holds, Moved
<1>3. Settled(u, left, got, own, peer, {})
  BY <1>1, <1>2, SettledMoved DEF Keeps, Holds
<1>4. /\ u.server = s.server /\ u.aob = <<>> /\ u.reg = s.reg /\ (Term(s) => Term(u))
      /\ DOMAIN u.streams = DOMAIN s.streams
      /\ \A id \in DOMAIN s.streams :
            /\ u.streams[id].rd = s.streams[id].rd /\ u.streams[id].wr = s.streams[id].wr
            /\ u.streams[id].state = "closing" <=> s.streams[id].state = "closing"
  BY <1>1 DEF Quiet, Retouched, Term
<1>5. n \in DOMAIN u.streams
  BY <1>1, <1>4
<1>6. /\ Holds(u, d, {}) /\ Retouched(u, d)
      /\ \A i \in DOMAIN u.streams \ {n} : d.streams[i] = u.streams[i]
      /\ d.streams[n].state = u.streams[n].state
      /\ d.streams[n].rd = u.streams[n].rd /\ d.streams[n].wr
  BY <1>2, <1>5, DrainedKept
<1> HIDE DEF d
<1>7. /\ d.server = s.server /\ d.aob = <<>> /\ d.reg = s.reg /\ (Term(s) => Term(d))
  BY <1>4, <1>6 DEF Retouched, Term
<1>8. Resets(d, n) <=> Resets(s, n)
  <2>1. ~Rst(s.aob, n) /\ ~Rst(<<>>, n)
    BY OneFrame, NoFrames
  <2> QED
    BY <1>7, <2>1 DEF Resets
<1>9. Half(s, n, left, got, peer)
  BY DEF Settled
<1>10. n \in Ids /\ n \in DataIds(s.aob)
  BY UsedIds, OneFrame
<1>11. left[n] = 0
  <2>1. Len(s.aob) = 1 /\ s.aob[1] = f /\ 1 \in 1..1
    OBVIOUS
  <2>2. Ends(f, n)
    BY DEF Ends
  <2> QED
    BY <1>10, <2>1, <2>2 DEF Writing
<1>12. d.streams[n].rd => got[n] = peer
  BY <1>4, <1>5, <1>6, <1>9, <1>10 DEF Half, Excused
<1>19. d.streams[n].state = "closing" <=> s.streams[n].state = "closing"
  BY <1>4, <1>5, <1>6
<1>13. d.streams[n].state = "closing" => Term(d) \/ Resets(d, n)
  BY <1>7, <1>8, <1>9, <1>19 DEF Half
<1>14. ~(d.server /\ d.streams[n].state # "closing" /\ Resets(d, n) /\ ~Term(d))
  BY <1>7, <1>8, <1>9, <1>10, <1>19 DEF Half
<1>15. n \notin HeadersIds(d.aob)
  BY <1>7, NoFrames
<1>16. Half(d, n, left, got, peer)
  BY <1>11, <1>12, <1>13, <1>14, <1>15 DEF Half, Shut
<1>17. Settled(d, left, got, own, peer, {})
  BY <1>2, <1>3, <1>6, <1>16, SettledEdit
<1>18. \A id \in Active(s) :
          d.streams[id].state = "closing" <=> s.streams[id].state = "closing"
  BY <1>1, <1>4, <1>6
<1> QED
  BY <1>6, <1>17, <1>18 DEF Holds, Moved, d

LEMMA SendsSettled ==
    ASSUME NEW s, SessionInv(s), NEW f \in PreparedItems, s.aob = <<f>>,
           NEW t, SessionInv(t), Sends(s, t, f),
           NEW left, NEW got, NEW own, NEW peer,
           Settled(s, left, got, own, peer, {}), Writing(s, left)
    PROVE  /\ Settled(t, left, got, own, peer, {}) /\ Narrows(s, t)
           /\ t.aob = <<>> /\ t.last_recv = s.last_recv /\ t.last_sent = s.last_sent
<1> DEFINE w == Written(s)
           R == RefusedBy(f)
           ex == IF f.type = "RST_STREAM" THEN {f.id} ELSE {}
<1>1. Emptied(s, w)
  BY WrittenEmptied
<1>2. Settled(w, left, got, own, peer, ex) /\ Active(w) = Active(s)
  BY <1>1, EmptiedPasses
<1>3. SessionInv(w) /\ w.streams = s.streams
  BY <1>1 DEF Emptied
<1> HIDE DEF w, R
<1>4. CASE /\ Holds(w, t, R) /\ (f.type = "RST_STREAM" => f.id \notin Active(t)) /\ Calm(w, t)
  <2>1. Settled(t, left, got, own, peer, ex)
    BY <1>2, <1>3, <1>4, SettledMoved DEF Holds
  <2>2. Settled(t, left, got, own, peer, {})
    BY <1>4, <2>1, SettledAll
  <2>3. \A id \in Active(t) : t.streams[id].state # "closing" => s.streams[id].state # "closing"
    BY <1>3, <1>4 DEF Calm
  <2> QED
    BY <1>1, <1>4, <2>2, <2>3, EmptiedNarrows DEF Holds
<1>5. CASE /\ Holds(w, t, R) /\ f.type = "HEADERS" /\ f.id \in Active(s)
           /\ Keeps(Headed(w, f.id, f.end), t, R)
  <2> DEFINE h == Headed(w, f.id, f.end)
             n == f.id
  <2>1. f.end \in BOOLEAN
    BY <1>5 DEF PreparedItems, RegularItems, UrgentItems, Responses, RequestItems,
       DataFrames, RstFrames, SettingsFrames, AckFrames, GoawayItems, UpdateFrames
  <2>2. Settled(w, left, got, own, peer, {})
    BY <1>2, <1>5
  <2>3. /\ SessionInv(h) /\ Settled(h, left, got, own, peer, {})
        /\ \A id \in Active(s) \ {n} : h.streams[id] = s.streams[id]
    BY <1>1, <1>5, <2>1, <2>2, HeadedSettled
  <2> HIDE DEF h
  <2>4. Moved(h, t, R) /\ Calm(h, t) /\ Moved(w, t, R)
    BY <1>5 DEF Keeps, Holds, h
  <2>5. Settled(t, left, got, own, peer, {})
    BY <2>3, <2>4, SettledMoved
  <2>6. \A id \in Active(t) : t.streams[id].state # "closing" =>
           s.streams[id].state # "closing" \/ f.id = id
    <3>1. Active(t) \subseteq Active(s)
      BY <1>2, <2>4 DEF Moved, Follows
    <3> QED
      BY <2>3, <2>4, <3>1 DEF Calm
  <2> QED
    BY <1>1, <1>5, <2>4, <2>5, <2>6, EmptiedNarrows
<1>6. CASE /\ Holds(w, t, R) /\ f.type = "DATA" /\ f.end /\ f.id \in Active(s)
           /\ \E u : Quiet(w, u) /\ Keeps(Drained(u, f.id), t, R)
  <2>1. PICK u : Quiet(w, u) /\ Keeps(Drained(u, f.id), t, R)
    BY <1>6
  <2> DEFINE d == Drained(u, f.id)
  <2>2. Settled(w, left, got, own, peer, {})
    BY <1>2, <1>6
  <2>3. /\ SessionInv(d) /\ Settled(d, left, got, own, peer, {})
        /\ \A id \in Active(s) :
              d.streams[id].state = "closing" <=> s.streams[id].state = "closing"
    BY <1>1, <1>6, <2>1, <2>2, DrainedSettled
  <2> HIDE DEF d
  <2>4. Moved(d, t, R) /\ Calm(d, t) /\ Moved(w, t, R)
    BY <1>6, <2>1 DEF Keeps, Holds, d
  <2>5. Settled(t, left, got, own, peer, {})
    BY <2>3, <2>4, SettledMoved
  <2>6. \A id \in Active(t) : t.streams[id].state # "closing" => s.streams[id].state # "closing"
    <3>1. Active(t) \subseteq Active(s)
      BY <1>2, <2>4 DEF Moved, Follows
    <3> QED
      BY <2>3, <2>4, <3>1 DEF Calm
  <2> QED
    BY <1>1, <1>6, <2>4, <2>5, <2>6, EmptiedNarrows
<1>7. CASE /\ f.type = "GOAWAY"
           /\ SessionInv(GoawayOut(w, f)) /\ Keeps(GoawayOut(w, f), t, Ids)
  <2> DEFINE v == GoawayOut(w, f)
  <2>1. Emptied(s, v)
    BY <1>7, GoawayEmptied DEF w
  <2>2. Moved(v, t, Ids) /\ Calm(v, t) /\ SessionInv(v)
    BY <1>7 DEF Keeps, Holds
  <2> HIDE DEF v
  <2>3. Settled(v, left, got, own, peer, {}) /\ v.streams = s.streams
    <3>1. f.type = "RST_STREAM" => f.id \in {}
      BY <1>7
    <3> QED
      BY <2>1, <3>1, EmptiedPasses DEF Emptied
  <2>4. Settled(t, left, got, own, peer, {})
    BY <2>2, <2>3, SettledMoved
  <2>5. \A id \in Active(t) : t.streams[id].state # "closing" => s.streams[id].state # "closing"
    BY <2>2, <2>3 DEF Calm
  <2> QED
    BY <1>7, <2>1, <2>2, <2>4, <2>5, EmptiedNarrows
<1> QED
  <2>1. \/ /\ Holds(w, t, R) /\ (f.type = "RST_STREAM" => f.id \notin Active(t)) /\ Calm(w, t)
        \/ /\ Holds(w, t, R) /\ f.type = "HEADERS" /\ f.id \in Active(s)
           /\ Keeps(Headed(w, f.id, f.end), t, R)
        \/ /\ Holds(w, t, R) /\ f.type = "DATA" /\ f.end /\ f.id \in Active(s)
           /\ \E u : Quiet(w, u) /\ Keeps(Drained(u, f.id), t, R)
        \/ /\ f.type = "GOAWAY"
           /\ SessionInv(GoawayOut(w, f)) /\ Keeps(GoawayOut(w, f), t, Ids)
    BY Zenon DEF Sends, w, R
  <2> QED
    BY <1>4, <1>5, <1>6, <1>7, <2>1

LEMMA OneWritten ==
    ASSUME Inv1, Inv2, NEW p \in Sides, ses[p].aob # <<>>
    PROVE  ses[p].aob = <<ses[p].aob[1]>>
<1>1. ses[p].aob \in Seq(PreparedItems)
  BY SideTypes DEF Session
<1>2. Len(ses[p].aob) <= 1
  BY DEF Inv2, Conn, ClientPart, ServerPart, Sides
<1> DEFINE a == ses[p].aob
<1> HIDE DEF a
<1>3. a \in Seq(PreparedItems) /\ Len(a) <= 1 /\ a # <<>>
  BY <1>1, <1>2 DEF a
<1>4. Len(a) = 1
  <2> DEFINE n == Len(a)
  <2>1. n \in Nat /\ n # 0 /\ n <= 1
    BY <1>3
  <2> HIDE DEF n
  <2>2. n = 1
    BY <2>1
  <2> QED
    BY <2>2 DEF n
<1>5. a = <<a[1]>>
  BY <1>3, <1>4
<1> QED
  BY <1>5 DEF a

\* What the frame says of a body reaches the peer.
LEMMA WireSays ==
    ASSUME NEW f \in PreparedItems, NEW id
    PROVE  /\ Wire(f) \in WireFrames /\ Wire(f).type = f.type
           /\ DataLen(Wire(f), id) = DataLen(f, id) /\ (Ends(Wire(f), id) => Ends(f, id))
           /\ f.type \in {"HEADERS", "DATA"} => Wire(f).id = f.id
<1>1. /\ Wire(f) \in WireFrames /\ Wire(f).type = f.type
      /\ f.type = "HEADERS" => Wire(f).id = f.id /\ Wire(f).end = f.end
      /\ f.type \notin {"HEADERS", "GOAWAY"} => Wire(f) = f
  BY WireKept
<1>2. DataLen(Wire(f), id) = DataLen(f, id)
  <2>1. CASE f.type = "DATA"
    BY <1>1, <2>1
  <2>2. CASE f.type # "DATA"
    BY <1>1, <2>2 DEF DataLen
  <2> QED
    BY <2>1, <2>2
<1>3. Ends(Wire(f), id) => Ends(f, id)
  <2>1. CASE f.type = "DATA"
    BY <1>1, <2>1
  <2>2. CASE f.type = "HEADERS"
    BY <1>1, <2>2 DEF Ends
  <2>3. CASE f.type \notin {"HEADERS", "DATA"}
    BY <1>1, <2>3 DEF Ends
  <2> QED
    BY <2>1, <2>2, <2>3
<1> QED
  BY <1>1, <1>2, <1>3

LEMMA SentInv3 ==
    ASSUME Inv1, Inv2, Inv3, NEW p \in Sides, Sent(p) PROVE Inv3'
<1> DEFINE q == Peer(p)
           s == ses[p]
           f == ses[p].aob[1]
           left == app[p].left
           got == app[p].got
<1>1. q \in Sides /\ q # p /\ Peer(q) = p /\ Sides = {p, q}
  BY Peers
<1>2. PICK t : /\ ses' = [ses EXCEPT ![p] = t] /\ f \in PreparedItems
               /\ Sends(s, t, f) /\ SessionInv(t)
               /\ net' = [net EXCEPT ![q] = Append(net[q], Wire(f))]
               /\ app' = IF p = "s" /\ f.type = "HEADERS"
                         THEN [app EXCEPT ![p].answered = @ \cup {f.id}] ELSE app
  BY SentStep
<1>3. /\ SessionInv(s) /\ ses \in [Sides -> Session] /\ net \in [Sides -> Seq(WireFrames)]
      /\ app \in [Sides -> Apps]
  BY SideTypes
<1>4. s.aob = <<f>>
  BY OneWritten DEF Sent
<1>5. \A x \in Sides : app[x].left' = app[x].left /\ app[x].got' = app[x].got
  <2>1. CASE p = "s" /\ f.type = "HEADERS"
    <3> DEFINE a == [app[p] EXCEPT !.answered = app[p].answered \cup {f.id}]
    <3>1. a.left = app[p].left /\ a.got = app[p].got
      BY <1>3 DEF Apps
    <3>2. app' = [app EXCEPT ![p] = a]
      BY <1>2, <1>3, <2>1 DEF Apps
    <3> HIDE DEF a
    <3> QED
      BY <1>3, <3>1, <3>2
  <2>2. CASE ~(p = "s" /\ f.type = "HEADERS")
    <3>1. app' = app
      BY <1>2, <2>2
    <3> QED
      BY <3>1
  <2> QED
    BY <2>1, <2>2
<1>6. /\ ses'[p] = t /\ ses'[q] = ses[q] /\ net'[p] = net[p] /\ net'[q] = Append(net[q], Wire(f))
      /\ net[q] \in Seq(WireFrames)
  BY <1>1, <1>2, <1>3
<1>7. /\ Settled(s, left, got, BodyLen[p], BodyLen[q], {}) /\ Writing(s, left)
      /\ \A id \in Ids : left[id] \in 0..BodyLen[p]
  BY DEF Inv3, Side
<1> HIDE DEF q, s, f, left, got
<1>8. /\ Settled(t, left, got, BodyLen[p], BodyLen[q], {}) /\ Narrows(s, t)
      /\ t.aob = <<>> /\ t.last_recv = s.last_recv /\ t.last_sent = s.last_sent
  BY <1>2, <1>3, <1>4, <1>7, SendsSettled
<1>9. Side(t, left, got, BodyLen[p], BodyLen[q])
  <2>1. Writing(t, left)
    BY <1>8 DEF Writing
  <2> QED
    BY <1>7, <1>8, <2>1 DEF Side
<1>10. ASSUME NEW id \in Ids, Receiving(t, id)
       PROVE  Account(app[p].got[id], app[q].left[id], BodyLen[q], net[p], ses[q].aob, id)'
  <2>1. Receiving(s, id)
    BY <1>2, <1>3, <1>8, <1>10, NarrowsReceiving
  <2>2. Account(app[p].got[id], app[q].left[id], BodyLen[q], net[p], ses[q].aob, id)
    BY <2>1 DEF Inv3, s, q
  <2> QED
    BY <1>1, <1>5, <1>6, <2>2
<1>11. ASSUME NEW id \in Ids, Receiving(ses[q], id)
       PROVE  Account(app[q].got[id], app[p].left[id], BodyLen[p], net[q], ses[p].aob, id)'
  <2>1. Account(app[q].got[id], left[id], BodyLen[p], net[q], <<f>>, id)
    <3>1. Account(app[q].got[id], app[Peer(q)].left[id], BodyLen[Peer(q)], net[q],
                  ses[Peer(q)].aob, id)
      BY <1>1, <1>11 DEF Inv3
    <3> QED
      BY <1>1, <1>4, <3>1 DEF s, left
  <2>2. left[id] \in Int
    BY SideTypes DEF left
  <2>3. /\ Wire(f) \in WireFrames /\ DataLen(Wire(f), id) = DataLen(f, id)
        /\ Ends(Wire(f), id) => Ends(f, id)
    BY <1>2, WireSays
  <2>4. Ends(f, id) => left[id] = 0
    <3>1. 1 \in 1..Len(s.aob) /\ s.aob[1] = f
      BY <1>4
    <3> QED
      BY <1>7, <3>1 DEF Writing
  <2>5. Account(app[q].got[id], left[id], BodyLen[p], Append(net[q], Wire(f)), <<>>, id)
    BY <1>6, <2>1, <2>2, <2>3, <2>4, AccountAppend
  <2> QED
    BY <1>1, <1>5, <1>6, <1>8, <2>5 DEF left
<1>12. Ordered(ses["c"], ses["s"], net["s"], net["c"])'
  <2>1. Ordered(ses["c"], ses["s"], net["s"], net["c"])
    BY DEF Inv3
  <2>2. CASE p = "c"
    <3>1. /\ q = "s" /\ ses'["c"] = t /\ ses'["s"] = ses["s"] /\ s = ses["c"]
          /\ net'["s"] = Append(net["s"], Wire(f)) /\ net'["c"] = net["c"]
          /\ net["s"] \in Seq(WireFrames)
      BY <1>6, <2>2 DEF q, s, Peer
    <3>2. \A h : h \in HeadersIds(Append(net["s"], Wire(f))) =>
             h \in HeadersIds(net["s"]) \/ h \in HeadersIds(s.aob)
      <4>1. Wire(f) \in WireFrames /\ Wire(f).type = f.type
            /\ (f.type = "HEADERS" => Wire(f).id = f.id)
        BY <1>2, WireSays
      <4>2. \A h : h \in HeadersIds(Append(net["s"], Wire(f))) =>
               h \in HeadersIds(net["s"]) \/ (Wire(f).type = "HEADERS" /\ Wire(f).id = h)
        BY <3>1, <4>1, AppendIds
      <4>3. \A h : h \in HeadersIds(Append(net["s"], Wire(f))) => h \in Ids
        BY DEF HeadersIds
      <4> QED
        BY <1>4, <4>1, <4>2, <4>3, OneFrame
    <3>3. \A id \in HeadersIds(s.aob) : id <= s.last_sent
      BY <3>1 DEF Inv2, Conn, ClientPart
    <3>4. s.last_sent \in Nat
      BY <1>3 DEF SessionInv, Session
    <3>5. \A id : id \notin HeadersIds(t.aob)
      BY <1>8, NoFrames
    <3>6. ASSUME NEW id \in Ids, id > t.last_sent
          PROVE  /\ id > ses["s"].last_recv
                 /\ \A h \in HeadersIds(Append(net["s"], Wire(f))) : h < id
      <4>1. id > s.last_sent /\ id \in Nat
        BY <1>8, <3>6, IdsNat
      <4>2. id > ses["s"].last_recv /\ \A h \in HeadersIds(net["s"]) : h < id
        BY <2>1, <3>1, <4>1 DEF Ordered
      <4>3. \A h \in HeadersIds(s.aob) : h < id
        <5> SUFFICES ASSUME NEW h \in HeadersIds(s.aob) PROVE h < id
          OBVIOUS
        <5>1. h \in Nat /\ h <= s.last_sent
          BY <3>3, IdsNat DEF HeadersIds
        <5> QED
          BY <3>4, <4>1, <5>1
      <4> QED
        BY <3>2, <4>2, <4>3
    <3>7. Ordered(t, ses["s"], Append(net["s"], Wire(f)), net["c"])
      BY <2>1, <3>5, <3>6 DEF Ordered
    <3> QED
      BY <3>1, <3>7
  <2>3. CASE p = "s"
    <3>1. /\ q = "c" /\ ses'["s"] = t /\ ses'["c"] = ses["c"] /\ s = ses["s"]
          /\ net'["c"] = Append(net["c"], Wire(f)) /\ net'["s"] = net["s"]
          /\ net["c"] \in Seq(WireFrames) /\ s.server
      BY <1>6, <2>3, SideTypes DEF q, s, Peer
    <3>2. ASSUME NEW id \in DataIds(Append(net["c"], Wire(f))) PROVE id <= t.last_recv
      <4>1. /\ Wire(f) \in WireFrames /\ Wire(f).type = f.type
            /\ f.type = "DATA" => Wire(f).id = f.id
        BY <1>2, WireSays
      <4>2. id \in DataIds(net["c"]) \/ (Wire(f).type = "DATA" /\ Wire(f).id = id)
        BY <3>1, <3>2, <4>1, AppendFrame
      <4>3. CASE id \in DataIds(net["c"])
        BY <1>8, <2>1, <3>1, <4>3 DEF Ordered
      <4>4. CASE Wire(f).type = "DATA" /\ Wire(f).id = id
        <5>1. 1 \in 1..Len(s.aob) /\ s.aob[1] = f
          BY <1>4
        <5>2. f.id <= s.last_recv
          BY <1>7, <3>1, <4>1, <4>4, <5>1 DEF Writing
        <5> QED
          BY <1>8, <4>1, <4>4, <5>2
      <4> QED
        BY <4>2, <4>3, <4>4
    <3>3. Ordered(ses["c"], t, net["s"], Append(net["c"], Wire(f)))
      BY <1>8, <2>1, <3>1, <3>2 DEF Ordered
    <3> QED
      BY <3>1, <3>3
  <2> QED
    BY <2>2, <2>3 DEF Sides
<1> QED
  <2>1. Side(t, app[p].left', app[p].got', BodyLen[p], BodyLen[Peer(p)])
    BY <1>5, <1>9 DEF left, got, q
  <2>2. app[Peer(p)].left' = app[Peer(p)].left /\ app[Peer(p)].got' = app[Peer(p)].got
    BY <1>1, <1>5 DEF q
  <2>3. \A id \in Ids : Receiving(t, id) =>
           Account(app[p].got[id], app[Peer(p)].left[id], BodyLen[Peer(p)], net[p],
                   ses[Peer(p)].aob, id)'
    BY <1>10 DEF q
  <2>4. \A id \in Ids : Receiving(ses[Peer(p)], id) =>
           Account(app[Peer(p)].got[id], app[p].left[id], BodyLen[p], net[Peer(p)],
                   ses[p].aob, id)'
    BY <1>11 DEF q
  <2> QED
    BY <1>2, <1>12, <2>1, <2>2, <2>3, <2>4, StepInv3

-----------------------------------------------------------------------------
(* The next frame is prepared.                                             *)

\* p prepares a frame that carries no octets of a body, or none at all.
LEMMA PrepInv3 ==
    ASSUME Inv1, Inv3, NEW p \in Sides, NEW t, ses' = [ses EXCEPT ![p] = t], net' = net,
           \A x \in Sides : app[x].left' = app[x].left /\ app[x].got' = app[x].got,
           Settled(t, app[p].left, app[p].got, BodyLen[p], BodyLen[Peer(p)], {}),
           Writing(t, app[p].left), ses[p].aob = <<>>,
           \A id \in Ids : Pending(t.aob, id) = 0,
           \A id \in Ids : Receiving(t, id) => Receiving(ses[p], id),
           t.last_recv = ses[p].last_recv, t.last_sent \in Nat,
           ses[p].last_sent <= t.last_sent,
           ~ses[p].server => \A id \in HeadersIds(t.aob) : ses[p].last_sent < id
    PROVE  Inv3'
<1> DEFINE q == Peer(p)
           s == ses[p]
<1>1. q \in Sides /\ q # p /\ Peer(q) = p /\ Sides = {p, q}
  BY Peers
<1>2. ses \in [Sides -> Session] /\ net[q] \in Seq(WireFrames) /\ s.last_sent \in Nat
  BY <1>1, SideTypes DEF Session
<1>3. ses'[p] = t /\ ses'[q] = ses[q]
  BY <1>1, <1>2
<1>4. Side(t, app[p].left', app[p].got', BodyLen[p], BodyLen[Peer(p)])
  BY DEF Inv3, Side
<1>5. Ordered(ses["c"], ses["s"], net["s"], net["c"])'
  <2>1. Ordered(ses["c"], ses["s"], net["s"], net["c"])
    BY DEF Inv3
  <2>2. CASE p = "c"
    <3>1. ses'["c"] = t /\ ses'["s"] = ses["s"] /\ s = ses["c"] /\ ~s.server
      BY <1>3, <2>2, SideTypes DEF Peer
    <3>2. ASSUME NEW id \in Ids, id > t.last_sent \/ id \in HeadersIds(t.aob)
          PROVE  id > s.last_sent
      <4>1. CASE id > t.last_sent
        BY <1>2, <4>1, IdsNat
      <4>2. CASE id \in HeadersIds(t.aob)
        BY <1>2, <3>1, <4>2, IdsNat
      <4> QED
        BY <3>2, <4>1, <4>2
    <3>3. Ordered(t, ses["s"], net["s"], net["c"])
      BY <2>1, <3>1, <3>2 DEF Ordered
    <3> QED
      BY <3>1, <3>3
  <2>3. CASE p = "s"
    <3>1. ses'["s"] = t /\ ses'["c"] = ses["c"] /\ s = ses["s"]
      BY <1>3, <2>3 DEF Peer
    <3>2. Ordered(ses["c"], t, net["s"], net["c"])
      BY <2>1, <3>1 DEF Ordered
    <3> QED
      BY <3>1, <3>2
  <2> QED
    BY <2>2, <2>3 DEF Sides
<1>6. ASSUME NEW id \in Ids, Receiving(t, id)
      PROVE  Account(app[p].got[id], app[q].left[id], BodyLen[q], net[p], ses[q].aob, id)'
  <2>1. Account(app[p].got[id], app[q].left[id], BodyLen[q], net[p], ses[q].aob, id)
    BY <1>6 DEF Inv3
  <2> QED
    BY <1>1, <1>3, <2>1
<1>7. ASSUME NEW id \in Ids, Receiving(ses[q], id)
      PROVE  Account(app[q].got[id], app[p].left[id], BodyLen[p], net[q], ses[p].aob, id)'
  <2>1. Account(app[q].got[id], app[Peer(q)].left[id], BodyLen[Peer(q)], net[q],
                ses[Peer(q)].aob, id)
    BY <1>1, <1>7 DEF Inv3
  <2>2. Account(app[q].got[id], app[p].left[id], BodyLen[p], net[q], <<>>, id)
    BY <1>1, <2>1
  <2>3. app[p].left[id] \in Int /\ Pending(<<>>, id) = 0 /\ Pending(t.aob, id) = 0 /\ 0 \in Int
    BY SideTypes DEF Pending
  <2> HIDE DEF q
  <2>4. Account(app[q].got[id], app[p].left[id], BodyLen[p], net[q], t.aob, id)
    BY <1>2, <2>2, <2>3, AccountPending
  <2> QED
    BY <1>1, <1>3, <2>4
<1> QED
  BY <1>1, <1>4, <1>5, <1>6, <1>7, StepInv3

\* What the queues of the session lose when the frame f is taken from them.
Takes(s, r, f) ==
    /\ Requeued(s, r) /\ f \in RegularItems \cup UrgentItems
    /\ \A id : Rst(s.reg, id) <=> Rst(r.reg, id) \/ (f.type = "RST_STREAM" /\ f.id = id)

\* The frame f is dropped, or prepared.
Handles(r, t, f) ==
    \/ t = r /\ (f.type = "RST_STREAM" => session_is_closing(r))
    \/ /\ Prepared(r, t, f)
       /\ f.type = "HEADERS" => session_predicate_response_headers_send(r, f.id)

LEMMA HandledPasses ==
    ASSUME NEW s, SessionInv(s), s.aob = <<>>, "term_sent" \notin s.goaway,
           NEW r, NEW f, Takes(s, r, f), NEW t, Handles(r, t, f)
    PROVE  /\ Passes(s, t, {}) /\ SessionInv(t) /\ t.syn = s.syn /\ t.streams = s.streams
           /\ t.goaway = s.goaway /\ t.server = s.server
           /\ t.last_recv = s.last_recv /\ t.last_sent = s.last_sent
           /\ t.aob = <<>> \/ t.aob = <<f>>
<1>1. /\ SessionInv(r) /\ Active(r) = Active(s) /\ SameStreams(s, r)
      /\ r.syn = s.syn /\ r.aob = <<>> /\ r.goaway = s.goaway /\ r.reason = s.reason
      /\ r.ign_all = s.ign_all
  BY DEF Takes, Requeued
<1>2. /\ SessionInv(t) /\ Active(t) = Active(s) /\ t.streams = s.streams
      /\ t.server = s.server /\ t.last_recv = s.last_recv /\ t.last_sent = s.last_sent
      /\ t.syn = s.syn /\ t.goaway = s.goaway /\ t.reason = s.reason
      /\ t.ign_all = s.ign_all /\ t.reg = r.reg
      /\ t.aob = <<>> \/ t.aob = <<f>>
  <2>1. CASE t = r
    BY <1>1, <2>1 DEF SameStreams
  <2>2. CASE Prepared(r, t, f)
    BY <1>1, <2>2 DEF Prepared, SameStreams
  <2> QED
    BY <2>1, <2>2 DEF Handles
<1>3. f.type # "DATA"
  BY DEF Takes, RegularItems, UrgentItems, Responses, RstFrames, GoawayItems, UpdateFrames,
     SettingsFrames, AckFrames
<1>4. \A id : Resets(s, id) <=> Rst(r.reg, id) \/ (f.type = "RST_STREAM" /\ f.id = id)
  BY NoFrames DEF Resets, Takes
<1>5. ASSUME NEW id \in Active(s) PROVE Term(s) \/ (Resets(t, id) <=> Resets(s, id))
  <2>1. CASE Prepared(r, t, f)
    <3>1. \A i : Resets(t, i) <=> Rst(r.reg, i) \/ (f.type = "RST_STREAM" /\ f.id = i)
      BY <2>1, OneFrame DEF Resets, Prepared
    <3> QED
      BY <1>4, <3>1
  <2>2. CASE t = r /\ f.type # "RST_STREAM"
    <3>1. \A i : Resets(t, i) <=> Rst(r.reg, i)
      BY <1>1, <2>2, NoFrames DEF Resets
    <3> QED
      BY <1>4, <2>2, <3>1
  <2>3. CASE t = r /\ session_is_closing(r)
    <3>1. nghttp2_session_want_read(r)
      BY <1>1, <1>5 DEF nghttp2_session_want_read
    <3>2. "term_on_send" \in r.goaway
      BY <2>3, <3>1 DEF session_is_closing
    <3> QED
      BY <1>1, <3>2 DEF Term
  <2> QED
    BY <2>1, <2>2, <2>3 DEF Handles
<1>6. \A id : id \notin DataIds(t.aob)
  BY <1>2, <1>3, NoFrames, OneFrame
<1>7. ASSUME NEW id \in Active(s), id \in HeadersIds(t.aob) PROVE ~s.streams[id].wr
  <2>1. t.aob = <<f>>
    BY <1>2, <1>7, NoFrames
  <2>2. f.type = "HEADERS" /\ f.id = id
    BY <1>7, <2>1, OneFrame
  <2>3. t # r
    <3>1. <<f>> # <<>>
      OBVIOUS
    <3> QED
      BY <1>1, <2>1, <3>1
  <2>4. session_predicate_response_headers_send(r, id)
    BY <2>2, <2>3 DEF Handles
  <2> QED
    BY <1>1, <2>4
       DEF session_predicate_response_headers_send, session_predicate_for_stream_send, SameStreams
<1>8. Used(t) = Used(s) /\ Used(s) \in Nat
  BY <1>2 DEF Used, SessionInv, Session
<1>9. Passes(s, t, {})
  BY <1>2, <1>5, <1>6, <1>7, <1>8 DEF Passes, Term
<1> QED
  BY <1>2, <1>9

LEMMA HandledInv3 ==
    ASSUME Inv1, Inv3, NEW p \in Sides, NEW r, NEW f, Takes(ses[p], r, f),
           NEW t, Handles(r, t, f), ses[p].aob = <<>>, ~Gone(p),
           ~ses[p].server => f.type # "HEADERS",
           ses' = [ses EXCEPT ![p] = t], net' = net, app' = app
    PROVE  Inv3'
<1> DEFINE s == ses[p]
           left == app[p].left
           got == app[p].got
<1>1. SessionInv(s) /\ s.last_sent \in Nat
  BY SideTypes DEF Session
<1>2. Settled(s, left, got, BodyLen[p], BodyLen[Peer(p)], {})
  BY DEF Inv3, Side
<1>3. "term_sent" \notin s.goaway
  BY DEF Gone
<1>4. /\ Passes(s, t, {}) /\ SessionInv(t) /\ t.syn = s.syn /\ t.streams = s.streams
      /\ t.goaway = s.goaway /\ t.server = s.server
      /\ t.last_recv = s.last_recv /\ t.last_sent = s.last_sent
      /\ t.aob = <<>> \/ t.aob = <<f>>
  BY <1>1, <1>3, HandledPasses
<1> HIDE DEF s, left, got
<1>5. /\ f.type # "DATA"
      /\ f.type = "HEADERS" => ~f.end
  BY DEF Takes, RegularItems, UrgentItems, Responses, RstFrames, GoawayItems, UpdateFrames,
     SettingsFrames, AckFrames
<1>6. Settled(t, left, got, BodyLen[p], BodyLen[Peer(p)], {})
  <2>1. \A i \in 1..Len(t.syn) : t.syn[i].end => BodyLen[p] = 0
    BY <1>2, <1>4 DEF Settled
  <2> QED
    BY <1>1, <1>2, <1>4, <2>1, SettledPasses
<1>7. Writing(t, left)
  <2>1. CASE t.aob = <<>>
    BY <2>1 DEF Writing
  <2>2. CASE t.aob = <<f>>
    <3>1. \A i \in 1..Len(t.aob) : t.aob[i] = f
      BY <2>2
    <3> QED
      BY <1>5, <3>1 DEF Writing, Ends
  <2> QED
    BY <1>4, <2>1, <2>2
<1>8. \A id \in Ids : Pending(t.aob, id) = 0
  <2>1. CASE t.aob = <<>>
    BY <2>1 DEF Pending
  <2>2. CASE t.aob = <<f>>
    <3>1. t.aob # <<>> /\ t.aob[1] = f
      BY <2>2
    <3> QED
      BY <1>5, <3>1 DEF Pending, DataLen
  <2> QED
    BY <1>4, <2>1, <2>2
<1>9. ~s.server => \A id : id \notin HeadersIds(t.aob)
  BY <1>4, NoFrames, OneFrame DEF s
<1>10. ASSUME NEW id \in Ids, Receiving(t, id) PROVE Receiving(s, id)
  <2>1. Active(t) = Active(s) /\ ~Term(s) /\ (Term(t) <=> Term(s))
    BY <1>4, <1>10 DEF Passes, Receiving
  <2>2. nghttp2_session_want_read(t) <=> nghttp2_session_want_read(s)
    BY <1>4, <2>1 DEF nghttp2_session_want_read
  <2>3. id \in Active(s) => (Resets(t, id) <=> Resets(s, id))
    BY <1>4, <2>1 DEF Passes
  <2>4. CASE s.server
    BY <1>4, <1>10, <2>1, <2>2, <2>3, <2>4 DEF Receiving
  <2>5. CASE ~s.server
    BY <1>4, <1>9, <1>10, <2>1, <2>5 DEF Receiving
  <2> QED
    BY <2>4, <2>5
<1> QED
  <2>1. \A x \in Sides : app[x].left' = app[x].left /\ app[x].got' = app[x].got
    OBVIOUS
  <2>2. /\ t.last_recv = ses[p].last_recv /\ t.last_sent \in Nat
        /\ ses[p].last_sent <= t.last_sent
        /\ ~ses[p].server => \A id \in HeadersIds(t.aob) : ses[p].last_sent < id
    BY <1>1, <1>4, <1>9 DEF s
  <2> QED
    BY <1>6, <1>7, <1>8, <1>10, <2>1, <2>2, PrepInv3 DEF s, left, got

LEMMA PopUrgentInv3 ==
    ASSUME Inv1, Inv3, NEW p \in Sides, Pop(p), PopUrgent(p) PROVE Inv3'
<1> DEFINE s == ses[p]
           r == [s EXCEPT !.urgent = Tail(@)]
           f == Head(s.urgent)
           t == PrepControl(r, f)
<1>1. SessionInv(s) /\ ses \in [Sides -> Session]
  BY SideTypes
<1>2. ses' = [ses EXCEPT ![p] = t] /\ app' = app /\ s.urgent # <<>>
  BY <1>1 DEF PopUrgent
<1>3. /\ SessionInv(r) /\ Active(r) = Active(s) /\ f \in UrgentItems
      /\ SameStreams(s, r) /\ SameElsewhere(s, r) /\ r.reg = s.reg
  BY <1>1, <1>2, UrgentTaken
<1> HIDE DEF r, f
<1>4. f.type \notin {"HEADERS", "RST_STREAM"}
  BY <1>3 DEF UrgentItems, SettingsFrames, AckFrames
<1>5. Takes(s, r, f)
  BY <1>3, <1>4 DEF Takes, Requeued, SameElsewhere
<1>6. Handles(r, t, f)
  BY <1>3, PrepControlKept DEF Handles
<1>7. s.aob = <<>> /\ ~Gone(p) /\ net' = net
  BY DEF Pop
<1> HIDE DEF t
<1> QED
  BY <1>2, <1>4, <1>5, <1>6, <1>7, HandledInv3

LEMMA PopRegularInv3 ==
    ASSUME Inv1, Inv2, Inv3, NEW p \in Sides, Pop(p), PopRegular(p) PROVE Inv3'
<1> DEFINE s == ses[p]
           r == [s EXCEPT !.reg = Tail(@)]
           f == Head(s.reg)
           t == PrepControl(r, f)
<1>1. SessionInv(s) /\ ses \in [Sides -> Session] /\ s.reg \in Seq(RegularItems)
  BY SideTypes DEF Session
<1>2. ses' = [ses EXCEPT ![p] = t] /\ app' = app /\ s.reg # <<>>
  BY <1>1 DEF PopRegular
<1>3. Requeued(s, r) /\ r.reg = Tail(s.reg) /\ f \in RegularItems
  BY <1>1, <1>2, RegularTaken
<1>4. /\ \A id : Rst(s.reg, id) <=> Rst(Tail(s.reg), id) \/ (f.type = "RST_STREAM" /\ f.id = id)
      /\ \A id \in Ids : f.type = "HEADERS" /\ f.id = id => id \in HeadersIds(s.reg)
  BY <1>1, <1>2, TailFrame
<1>5. ~s.server => f.type # "HEADERS"
  <2> SUFFICES ASSUME ~s.server, f.type = "HEADERS" PROVE FALSE
    OBVIOUS
  <2>1. p = "c"
    BY SideTypes DEF Sides
  <2>2. HeadersIds(s.reg) = {}
    BY <2>1 DEF Inv2, Conn, ClientPart
  <2>3. f.id \in Ids
    BY <1>3 DEF RegularItems, Responses, RstFrames, GoawayItems, UpdateFrames
  <2> QED
    BY <1>4, <2>2, <2>3
<1> HIDE DEF r, f
<1>6. Takes(s, r, f)
  BY <1>3, <1>4 DEF Takes
<1>7. Handles(r, t, f)
  <2>1. SessionInv(r)
    BY <1>3 DEF Requeued
  <2> QED
    BY <1>3, <2>1, PrepControlKept DEF Handles
<1>8. s.aob = <<>> /\ ~Gone(p) /\ net' = net
  BY DEF Pop
<1> HIDE DEF t
<1> QED
  BY <1>2, <1>5, <1>6, <1>7, <1>8, HandledInv3

LEMMA PopRequestInv3 ==
    ASSUME Inv1, Inv3, NEW p \in Sides, Pop(p), PopRequest(p) PROVE Inv3'
<1> DEFINE s == ses[p]
           item == Head(s.syn)
           t == PrepRequest([s EXCEPT !.syn = Tail(@)], item)
           left == app[p].left
           got == app[p].got
           own == BodyLen[p]
           peer == BodyLen[Peer(p)]
<1>1. /\ SessionInv(s) /\ ses \in [Sides -> Session] /\ s.syn \in Seq(RequestItems)
      /\ s.last_sent \in Nat
  BY SideTypes DEF Session
<1>2. ses' = [ses EXCEPT ![p] = t] /\ app' = app /\ s.syn # <<>>
  BY <1>1 DEF PopRequest, SynReady
<1>3. Requested(s, t)
  BY <1>1, <1>2, PrepRequestKept
<1>4. ~s.server
  BY <1>1, <1>2, SynTaken
<1>5. s.aob = <<>> /\ net' = net
  BY DEF Pop
<1>6. /\ Settled(s, left, got, own, peer, {})
      /\ \A id \in Ids : left[id] \in 0..own
  BY DEF Inv3, Side
<1> HIDE DEF t
<1>7. /\ SessionInv(t) /\ item \in RequestItems /\ t.server = s.server /\ t.syn = Tail(s.syn)
      /\ t.reg = s.reg /\ t.goaway = s.goaway /\ t.last_recv = s.last_recv
      /\ t.ign_all = s.ign_all /\ item.id \notin Active(s) /\ s.last_sent < item.id
      /\ t.last_sent \in Nat
  BY <1>3 DEF Requested, SessionInv, Session
<1>8. \A i \in 1..Len(t.syn) : t.syn[i].end => own = 0
  <2> DEFINE l == Tail(s.syn)
  <2>1. \A i \in 1..Len(l) : i + 1 \in 1..Len(s.syn) /\ l[i] = s.syn[i + 1]
    BY <1>1, <1>2
  <2> HIDE DEF l
  <2>2. \A i \in 1..Len(l) : l[i].end => own = 0
    BY <1>6, <2>1 DEF Settled
  <2> QED
    BY <1>7, <2>2 DEF l
<1>9. item.end => own = 0
  <2>1. 1 \in 1..Len(s.syn) /\ item = s.syn[1]
    BY <1>1, <1>2
  <2> QED
    BY <1>6, <2>1 DEF Settled
<1>10. item.id \in Ids /\ item.id \in Nat /\ item.type = "HEADERS"
  BY <1>7, IdsNat DEF RequestItems
<1> HIDE DEF item, s, left, got, own, peer
<1>11. Used(s) = s.last_sent /\ Used(t) = t.last_sent /\ (Term(t) <=> Term(s))
  BY <1>4, <1>7 DEF Used, Term
<1>12. CASE /\ t.aob = <<item>> /\ t.last_sent = item.id /\ t.reason = s.reason
            /\ Active(t) = Active(s) \cup {item.id} /\ Fresh(t, item.id, "initial")
            /\ \A i \in Active(s) : t.streams[i] = s.streams[i]
  <2>1. \A id : ~Rst(t.aob, id) /\ ~Rst(s.aob, id)
    BY <1>5, <1>10, <1>12, NoFrames, OneFrame DEF s
  <2>2. Adds(s, t, item.id)
    <3>1. /\ Used(s) < item.id /\ item.id <= Used(t) /\ item.id \in Ids
          /\ Active(t) = Active(s) \cup {item.id} /\ t.server = s.server
      BY <1>7, <1>10, <1>11, <1>12
    <3>2. t.streams[item.id].state # "closing" /\ ~t.streams[item.id].rd /\ ~t.streams[item.id].wr
      BY <1>12 DEF Fresh
    <3>3. /\ \A id \in Active(s) : t.streams[id] = s.streams[id]
          /\ t.reason = s.reason /\ t.goaway = s.goaway /\ t.ign_all = s.ign_all /\ t.reg = s.reg
      BY <1>7, <1>12
    <3>4. ~s.server /\ \A id \in Ids : Rst(t.aob, id) <=> Rst(s.aob, id)
      BY <1>4, <2>1
    <3> QED
      BY <3>1, <3>2, <3>3, <3>4 DEF Adds
  <2>3. Settled(t, left, got, own, peer, {})
    BY <1>1, <1>6, <1>7, <1>8, <2>2, SettledAdds DEF s
  <2>4. \A i \in 1..Len(t.aob) : t.aob[i] = item
    BY <1>12
  <2>5. Writing(t, left)
    <3>1. ASSUME NEW id \in Ids, Ends(item, id) PROVE left[id] = 0
      <4>1. own = 0
        BY <1>9, <3>1 DEF Ends
      <4>2. left[id] \in 0..own
        BY <1>6
      <4> QED
        BY <4>1, <4>2
    <3>2. ~t.server
      BY <1>4, <1>7
    <3> QED
      BY <2>4, <3>1, <3>2 DEF Writing
  <2>6. \A id \in Ids : Pending(t.aob, id) = 0
    <3>1. t.aob # <<>> /\ t.aob[1] = item
      BY <1>12
    <3> QED
      BY <1>10, <3>1 DEF Pending, DataLen
  <2>7. ASSUME NEW id \in Ids, Receiving(t, id) PROVE Receiving(s, id)
    <3>1. ~Term(s) /\ id \in Nat
      BY <1>11, <2>7, IdsNat DEF Receiving
    <3>2. CASE id > t.last_sent
      <4>1. id > s.last_sent
        BY <1>1, <1>7, <1>10, <1>12, <3>1, <3>2 DEF s
      <4> QED
        BY <1>4, <3>1, <4>1 DEF Receiving
    <3>3. CASE id = item.id
      BY <1>1, <1>4, <1>7, <1>10, <3>1, <3>3 DEF Receiving, s
    <3>4. CASE id \in Active(s) /\ id # item.id /\ ~(id > t.last_sent)
      <4>1. id \notin HeadersIds(t.aob)
        BY <1>12, <3>4, OneFrame
      <4>2. t.streams[id].state # "closing"
        BY <1>4, <1>7, <2>7, <3>4, <4>1 DEF Receiving
      <4>3. s.streams[id].state # "closing"
        BY <1>12, <3>4, <4>2
      <4> QED
        BY <1>4, <3>1, <3>4, <4>3 DEF Receiving
    <3> QED
      BY <1>4, <1>7, <1>12, <2>7, <3>2, <3>3, <3>4 DEF Receiving
  <2>8. /\ s.last_sent <= t.last_sent
        /\ \A id \in HeadersIds(t.aob) : s.last_sent < id
    <3>1. s.last_sent <= t.last_sent
      BY <1>1, <1>7, <1>10, <1>12 DEF s
    <3>2. \A id \in HeadersIds(t.aob) : id = item.id
      BY <1>12, OneFrame
    <3> QED
      BY <1>7, <3>1, <3>2
  <2> QED
    BY <1>2, <1>5, <1>7, <2>3, <2>5, <2>6, <2>7, <2>8, PrepInv3 DEF s, left, got, own, peer
<1>13. CASE /\ t.aob = s.aob /\ t.last_sent = s.last_sent /\ Active(t) = Active(s)
            /\ t.streams = s.streams /\ t.reason[item.id] \in {"cancel", "refused"}
            /\ \A i \in Ids : i # item.id => t.reason[i] = s.reason[i]
  <2>1. \A id : Resets(t, id) <=> Resets(s, id)
    BY <1>7, <1>13 DEF Resets
  <2>2. \A id \in Ids : t.reason[id] = "no_error" => s.reason[id] = "no_error"
    BY <1>13
  <2>3. Passes(s, t, {})
    <3>1. Used(s) <= Used(t)
      BY <1>1, <1>11, <1>13 DEF s
    <3> QED
      BY <1>7, <1>11, <1>13, <2>1, <2>2, <3>1 DEF Passes
  <2>4. Settled(t, left, got, own, peer, {})
    BY <1>1, <1>6, <1>7, <1>8, <2>3, SettledPasses DEF s
  <2>5. t.aob = <<>>
    BY <1>5, <1>13 DEF s
  <2>6. Writing(t, left) /\ \A id \in Ids : Pending(t.aob, id) = 0
    BY <2>5 DEF Writing, Pending
  <2>7. ASSUME NEW id \in Ids, Receiving(t, id) PROVE Receiving(s, id)
    BY <1>4, <1>7, <1>11, <1>13, <2>7 DEF Receiving
  <2>8. \A id : id \notin HeadersIds(t.aob)
    BY <2>5, NoFrames
  <2>9. s.last_sent <= t.last_sent
    BY <1>1, <1>13 DEF s
  <2> QED
    BY <1>2, <1>5, <1>7, <2>4, <2>6, <2>7, <2>8, <2>9, PrepInv3 DEF s, left, got, own, peer
<1> QED
  BY <1>3, <1>12, <1>13 DEF Requested, item

\* The frame f carries octets of the n that are left of the body of id, and ends it with
\* the last.
Carries(f, id, n) ==
    /\ f.id = id /\ f.len <= n /\ (n >= 0 => f.len >= 0)
    /\ f.end <=> f.len = n
Deducted(left, less, id, n) ==
    \A i \in Ids : less[i] = IF i = id THEN left[i] - n ELSE left[i]

Idle(s) == s.aob = <<>> /\ s.reg = <<>>
Remains(left, own) ==
    left \in [Ids -> Int] /\ own \in Nat /\ \A id \in Ids : left[id] \in 0..own
Moves(aob, left, less) ==
    /\ \A id : id \notin HeadersIds(aob)
    /\ \A id \in Ids : Pending(aob, id) \in Int /\ less[id] \in Int
                       /\ Pending(aob, id) + less[id] = left[id]

\* The next octets of the body of id are read into the DATA frame f.
LEMMA DataRead ==
    ASSUME NEW s, SessionInv(s), Idle(s), NEW id \in DOMAIN s.streams,
           nghttp2_session_predicate_data_send(s, id),
           NEW f \in DataFrames, NEW t, Prepared(s, t, f),
           NEW left, NEW got, NEW own, NEW peer, Remains(left, own),
           Settled(s, left, got, own, peer, {}),
           Carries(f, id, left[id]), NEW less, Deducted(left, less, id, f.len)
    PROVE  Side(t, less, got, own, peer) /\ Narrows(s, t) /\ Moves(t.aob, left, less)
<1>1. /\ SessionInv(t) /\ Active(t) = Active(s) /\ t.streams = s.streams /\ t.server = s.server
      /\ t.last_recv = s.last_recv /\ t.last_sent = s.last_sent /\ t.aob = <<f>>
      /\ t.reg = <<>> /\ t.syn = s.syn /\ t.goaway = s.goaway /\ t.reason = s.reason
      /\ t.ign_all = s.ign_all /\ s.aob = <<>> /\ s.reg = <<>>
  BY DEF Prepared, SameStreams, Idle
<1>a. /\ left \in [Ids -> Int] /\ own \in Nat
      /\ \A i \in Ids : left[i] \in 0..own
  BY DEF Remains
<1>2. /\ f.type = "DATA" /\ f.len \in Int /\ f.id = id /\ f.len <= left[id]
      /\ left[id] >= 0 => f.len >= 0
      /\ f.end <=> f.len = left[id]
  BY DEF DataFrames, Carries
<1>3. id \in Active(s) /\ ~s.streams[id].wr /\ ~Term(s)
  BY DEF nghttp2_session_predicate_data_send, session_predicate_for_stream_send, Live, Active,
     session_is_closing, Term
<1>4. id \in Ids /\ id \in Nat /\ id <= Used(s) /\ Active(s) \subseteq Ids
  BY <1>3, UsedIds
<1>5. \A i : ~Resets(s, i) /\ ~Resets(t, i) /\ i \notin HeadersIds(t.aob)
  BY <1>1, <1>2, NoFrames, OneFrame DEF Resets
<1>6. /\ \A i \in Ids : i # id => less[i] = left[i]
      /\ less[id] = left[id] - f.len /\ left[id] \in Int
  BY <1>4, <1>a DEF Deducted
<1>7. s.last_recv \in Nat /\ s.last_sent \in Nat /\ Used(s) = Used(t) /\ Used(s) \in Nat
  BY <1>1 DEF Used, SessionInv, Session
<1>8. Settled(s, less, got, own, peer, {})
  BY <1>3, <1>4, <1>6, SettledCounts
<1>9. Passes(s, t, {})
  <2>1. Term(t) <=> Term(s)
    BY <1>1 DEF Term
  <2>2. Used(s) <= Used(t)
    BY <1>7
  <2> QED
    BY <1>1, <1>3, <1>5, <2>1, <2>2 DEF Passes
<1>10. Settled(t, less, got, own, peer, {})
  <2>1. \A i \in 1..Len(t.syn) : t.syn[i].end => own = 0
    BY <1>1, <1>8 DEF Settled
  <2> QED
    BY <1>1, <1>8, <1>9, <2>1, SettledPasses
<1>11. left[id] \in 0..own
  BY <1>4, <1>a
<1>12. \A i \in Ids : less[i] \in 0..own
  <2>1. less[id] \in 0..own
    BY <1>2, <1>6, <1>11, <1>a
  <2> QED
    BY <1>6, <1>a, <2>1
<1>13. Writing(t, less)
  <2>1. \A i \in 1..Len(t.aob) : t.aob[i] = f
    BY <1>1
  <2>2. ASSUME NEW i \in Ids, Ends(f, i) PROVE less[i] = 0
    <3>1. i = id /\ f.len = left[id]
      BY <1>2, <2>2 DEF Ends
    <3> QED
      BY <1>2, <1>6, <3>1
  <2>3. t.server => f.id <= t.last_recv
    BY <1>1, <1>2, <1>4 DEF Used
  <2> QED
    BY <1>2, <2>1, <2>2, <2>3 DEF Writing
<1>14. Narrows(s, t)
  <2>1. nghttp2_session_want_read(t) => nghttp2_session_want_read(s)
    BY <1>1 DEF nghttp2_session_want_read
  <2>2. s.last_recv <= t.last_recv /\ s.last_sent <= t.last_sent
    BY <1>1, <1>7
  <2> QED
    BY <1>1, <1>5, <2>1, <2>2 DEF Narrows, Term
<1>15. ASSUME NEW i \in Ids
       PROVE  /\ Pending(t.aob, i) \in Int /\ less[i] \in Int
              /\ Pending(t.aob, i) + less[i] = left[i]
  <2>1. t.aob # <<>> /\ t.aob[1] = f
    BY <1>1
  <2>2. Pending(t.aob, i) = IF i = id THEN f.len ELSE 0
    BY <1>2, <2>1 DEF Pending, DataLen
  <2>3. left[i] \in Int
    BY <1>a
  <2>4. CASE i = id
    BY <1>2, <1>6, <2>2, <2>4
  <2>5. CASE i # id
    BY <1>6, <2>2, <2>3, <2>5
  <2> QED
    BY <2>4, <2>5
<1> QED
  BY <1>5, <1>10, <1>12, <1>13, <1>14, <1>15 DEF Side, Moves

LEMMA PopDataInv3 ==
    ASSUME Inv1, Inv3, NEW p \in Sides, Pop(p), PopData(p) PROVE Inv3'
<1> DEFINE q == Peer(p)
           s == ses[p]
           left == app[p].left
           got == app[p].got
           own == BodyLen[p]
           peer == BodyLen[Peer(p)]
<1>1. /\ SessionInv(s) /\ ses \in [Sides -> Session] /\ app \in [Sides -> Apps]
      /\ left \in [Ids -> Int] /\ net \in [Sides -> Seq(WireFrames)]
  BY SideTypes
<1>2. s.aob = <<>> /\ net' = net
  BY DEF Pop
<1>3. PICK id \in Sendable(s) :
         LET u == PrepData(s, id, left[id])
         IN  /\ ses' = [ses EXCEPT ![p] = u]
             /\ app' = IF u.aob = <<>> THEN app
                       ELSE [app EXCEPT ![p].left[id] = @ - u.aob[1].len]
  BY DEF PopData
<1> DEFINE t == PrepData(s, id, left[id])
<1>4. id \in DOMAIN s.streams /\ id \in Ids /\ left[id] \in Int
  BY <1>1, StreamType DEF Sendable, SessionInv
<1>5. s.reg = <<>>
  BY DEF PopData
<1>6. /\ ses' = [ses EXCEPT ![p] = t]
      /\ app' = IF t.aob = <<>> THEN app
                ELSE [app EXCEPT ![p].left[id] = @ - t.aob[1].len]
  BY <1>3
<1>7. \/ Quiet(s, t)
      \/ \E f \in DataFrames :
            /\ Prepared(s, t, f) /\ nghttp2_session_predicate_data_send(s, id)
            /\ Carries(f, id, left[id])
  <2> DEFINE n == left[id]
  <2>1. SessionInv(s) /\ id \in DOMAIN s.streams /\ n \in Int /\ t = PrepData(s, id, n)
    BY <1>1, <1>4
  <2> HIDE DEF s, n, t
  <2>2. \/ Quiet(s, t)
        \/ \E f \in DataFrames :
              /\ Prepared(s, t, f) /\ nghttp2_session_predicate_data_send(s, id)
              /\ Carries(f, id, n)
    BY <2>1, PrepDataKept DEF Carries
  <2> QED
    BY <2>2 DEF n
<1> HIDE DEF t
<1>8. CASE Quiet(s, t)
  <2>1. Moved(s, t, {}) /\ Calm(s, t)
    BY <1>1, <1>8, QuietKeeps DEF Keeps, Holds
  <2>2. t.aob = <<>>
    BY <1>2, <1>8 DEF Quiet, Retouched
  <2>3. app' = app
    BY <1>6, <2>2
  <2> QED
    BY <1>2, <1>6, <2>1, <2>3, TameInv3
<1>9. ASSUME NEW f \in DataFrames, Prepared(s, t, f), Carries(f, id, left[id]),
             nghttp2_session_predicate_data_send(s, id)
      PROVE  Inv3'
  <2> DEFINE less == [left EXCEPT ![id] = left[id] - f.len]
             a == [app[p] EXCEPT !.left = less]
  <2>1. t.aob = <<f>> /\ t.aob # <<>> /\ t.aob[1] = f
    BY <1>9 DEF Prepared
  <2>2. app' = [app EXCEPT ![p] = a]
    <3>1. app' = [app EXCEPT ![p].left[id] = @ - f.len]
      BY <1>6, <2>1
    <3> QED
      BY <1>1, <1>4, <3>1 DEF Apps
  <2> HIDE DEF less
  <2>3. a.left = less /\ a.got = got
    BY <1>1 DEF Apps
  <2> HIDE DEF a
  <2>4. q \in Sides /\ q # p /\ Peer(q) = p /\ Sides = {p, q}
    BY Peers
  <2>5. /\ app[p].left' = less /\ app[p].got' = got
        /\ app[q].left' = app[q].left /\ app[q].got' = app[q].got
    BY <1>1, <2>2, <2>3, <2>4
  <2>6. ses'[p] = t /\ ses'[q] = ses[q]
    BY <1>1, <1>6, <2>4
  <2>7. /\ Settled(s, left, got, own, peer, {})
        /\ \A i \in Ids : left[i] \in 0..own
    BY DEF Inv3, Side
  <2>8. own \in Nat
    BY Http2Constants DEF Http2Constants
  <2> HIDE DEF s, left, got, own, peer, q
  <2>9. Side(t, less, got, own, peer) /\ Narrows(s, t) /\ Moves(t.aob, left, less)
    <3>1. Deducted(left, less, id, f.len)
      BY <1>1 DEF less, Deducted
    <3>2. SessionInv(s) /\ Idle(s) /\ id \in DOMAIN s.streams /\ Remains(left, own)
      BY <1>1, <1>2, <1>4, <1>5, <2>7, <2>8 DEF Idle, Remains
    <3> QED
      BY <1>9, <2>7, <3>1, <3>2, DataRead
  <2>10. SessionInv(t) /\ t.last_recv = s.last_recv /\ t.last_sent = s.last_sent
    BY <1>9 DEF Prepared, SameStreams
  <2>11. ASSUME NEW i \in Ids, Receiving(t, i)
         PROVE  Account(app[p].got[i], app[q].left[i], BodyLen[q], net[p], ses[q].aob, i)'
    <3>1. Receiving(s, i)
      BY <1>1, <2>9, <2>10, <2>11, NarrowsReceiving
    <3>2. Account(app[p].got[i], app[q].left[i], BodyLen[q], net[p], ses[q].aob, i)
      BY <3>1 DEF Inv3, s, q
    <3> QED
      BY <1>2, <2>5, <2>6, <3>2 DEF got
  <2>12. ASSUME NEW i \in Ids, Receiving(ses[q], i)
         PROVE  Account(app[q].got[i], app[p].left[i], BodyLen[p], net[q], ses[p].aob, i)'
    <3>1. Account(app[q].got[i], app[Peer(q)].left[i], BodyLen[Peer(q)], net[q],
                  ses[Peer(q)].aob, i)
      BY <2>4, <2>12 DEF Inv3
    <3>2. Account(app[q].got[i], left[i], BodyLen[p], net[q], <<>>, i)
      BY <1>2, <2>4, <3>1 DEF s, left
    <3>3. Pending(<<>>, i) = 0 /\ 0 \in Int /\ left[i] \in Int
      BY <1>1 DEF Pending
    <3>4. /\ Pending(t.aob, i) \in Int /\ less[i] \in Int
          /\ Pending(t.aob, i) + less[i] = Pending(<<>>, i) + left[i]
      BY <2>9, <3>3 DEF Moves
    <3>5. net[q] \in Seq(WireFrames)
      BY <1>1, <2>4
    <3>6. Account(app[q].got[i], less[i], BodyLen[p], net[q], t.aob, i)
      BY <3>2, <3>3, <3>4, <3>5, AccountPending
    <3> QED
      BY <1>2, <2>5, <2>6, <3>6
  <2>13. Ordered(ses["c"], ses["s"], net["s"], net["c"])'
    <3>1. Ordered(ses["c"], ses["s"], net["s"], net["c"])
      BY DEF Inv3
    <3>2. CASE p = "c"
      <4>1. ses'["c"] = t /\ ses'["s"] = ses["s"] /\ s = ses["c"]
        BY <2>6, <3>2 DEF q, Peer, s
      <4>2. Ordered(t, ses["s"], net["s"], net["c"])
        BY <2>9, <2>10, <3>1, <4>1 DEF Ordered, Moves
      <4> QED
        BY <1>2, <4>1, <4>2
    <3>3. CASE p = "s"
      <4>1. ses'["s"] = t /\ ses'["c"] = ses["c"] /\ s = ses["s"]
        BY <2>6, <3>3 DEF q, Peer, s
      <4>2. Ordered(ses["c"], t, net["s"], net["c"])
        BY <2>10, <3>1, <4>1 DEF Ordered
      <4> QED
        BY <1>2, <4>1, <4>2
    <3> QED
      BY <3>2, <3>3 DEF Sides
  <2>14. Side(t, app[p].left', app[p].got', BodyLen[p], BodyLen[Peer(p)])
    BY <2>5, <2>9 DEF own, peer
  <2> QED
    BY <1>6, <2>5, <2>11, <2>12, <2>13, <2>14, StepInv3 DEF q
<1> QED
  BY <1>7, <1>8, <1>9

LEMMA PopInv3 ==
    ASSUME Inv1, Inv2, Inv3, NEW p \in Sides, Pop(p) PROVE Inv3'
  BY PopUrgentInv3, PopRegularInv3, PopRequestInv3, PopDataInv3 DEF Pop

-----------------------------------------------------------------------------
(* The invariant holds.                                                    *)

LEMMA InitInv3 == Init => Inv3
<1> SUFFICES ASSUME Init PROVE Inv3
  OBVIOUS
<1>1. ASSUME NEW p \in Sides
      PROVE  /\ ses[p].streams = <<>> /\ ses[p].reg = <<>> /\ ses[p].syn = <<>>
             /\ ses[p].aob = <<>> /\ ses[p].goaway = {} /\ ~ses[p].ign_all
             /\ ses[p].last_recv = 0 /\ ses[p].last_sent = 0
             /\ ses[p].reason = [id \in Ids |-> "open"]
             /\ net[p] = <<>> /\ app[p] = NewApp(p)
  BY DEF Init, NewSession
<1>2. \A p \in Sides : BodyLen[p] \in Nat
  BY Http2Constants DEF Http2Constants
<1>3. \A p \in Sides : Active(ses[p]) = {}
  <2>1. \A m : m = <<>> => OpenIn(m) = {}
    BY DEF OpenIn
  <2> QED
    BY <1>1, <2>1 DEF Active, OpenIn
<1>4. ASSUME NEW p \in Sides, NEW id \in Ids
      PROVE  app[p].left[id] = BodyLen[p] /\ app[p].got[id] = 0
  <2>1. app[p] = NewApp(p)
    BY <1>1
  <2> QED
    BY <2>1 DEF NewApp
<1>5. ASSUME NEW p \in Sides
      PROVE  Side(ses[p], app[p].left, app[p].got, BodyLen[p], BodyLen[Peer(p)])
  <2>1. IgnoresOnTerm(ses[p])
    BY <1>1 DEF IgnoresOnTerm
  <2>2. \A id \in Ids : ses[p].reason[id] # "no_error"
    BY <1>1
  <2>3. \A i \in 1..Len(ses[p].syn) : FALSE
    BY <1>1
  <2>4. Settled(ses[p], app[p].left, app[p].got, BodyLen[p], BodyLen[Peer(p)], {})
    BY <1>3, <2>1, <2>2, <2>3 DEF Settled
  <2>5. Writing(ses[p], app[p].left)
    BY <1>1 DEF Writing
  <2>6. \A id \in Ids : app[p].left[id] \in 0..BodyLen[p]
    BY <1>2, <1>4
  <2> QED
    BY <2>4, <2>5, <2>6 DEF Side
<1>6. Ordered(ses["c"], ses["s"], net["s"], net["c"])
  <2>1. \A p \in Sides : /\ net[p] = <<>> /\ ses[p].aob = <<>> /\ ses[p].last_recv = 0
                         /\ ses[p].last_sent = 0
    BY <1>1
  <2>2. "c" \in Sides /\ "s" \in Sides
    BY DEF Sides
  <2>3. \A id : id \notin HeadersIds(<<>>) /\ id \notin DataIds(<<>>)
    BY NoFrames
  <2> QED
    BY <2>1, <2>2, <2>3 DEF Ordered
<1>7. ASSUME NEW p \in Sides, NEW id \in Ids
      PROVE  Account(app[p].got[id], app[Peer(p)].left[id], BodyLen[Peer(p)], net[p],
                     ses[Peer(p)].aob, id)
  <2>1. Peer(p) \in Sides
    BY Peers
  <2> DEFINE b == BodyLen[Peer(p)]
             g == [i \in 0..0 |-> 0]
  <2>2. b \in Nat
    BY <1>2, <2>1
  <2>3. /\ app[p].got[id] = 0 /\ app[Peer(p)].left[id] = b /\ net[p] = <<>>
        /\ ses[Peer(p)].aob = <<>>
    BY <1>1, <1>4, <2>1
  <2> HIDE DEF b
  <2>4. Len(<<>>) = 0 /\ g \in [0..Len(<<>>) -> Int] /\ g[0] = 0 /\ g[Len(<<>>)] = 0
    OBVIOUS
  <2>5. g[Len(<<>>)] + Pending(<<>>, id) + b = b
    <3>1. Pending(<<>>, id) = 0
      BY DEF Pending
    <3> QED
      BY <2>2, <2>4, <3>1
  <2>6. \A i \in 1..Len(<<>>) : FALSE
    OBVIOUS
  <2> HIDE DEF g
  <2>7. Account(0, b, b, <<>>, <<>>, id)
    BY <2>4, <2>5, <2>6 DEF Account
  <2> QED
    BY <2>3, <2>7 DEF b
<1> QED
  BY <1>5, <1>6, <1>7 DEF Inv3

LEMMA NextInv3 == Inv1 /\ Inv2 /\ Inv3 /\ [Next]_vars => Inv3'
<1> SUFFICES ASSUME Inv1, Inv2, Inv3, [Next]_vars PROVE Inv3'
  OBVIOUS
<1>1. CASE SubmitRequest
  BY <1>1, SubmitRequestInv3
<1>2. ASSUME NEW id \in Ids, SubmitResponse(id) PROVE Inv3'
  BY <1>2, SubmitResponseInv3
<1>3. ASSUME NEW p \in Sides,
             \/ \E id \in Ids : SubmitRstStream(p, id) \/ Consume(p, id)
             \/ \E iv \in Changes[p] : SubmitSettings(p, iv)
             \/ SubmitGoaway(p) \/ Terminate(p)
      PROVE  Inv3'
  BY <1>3, TamedInv3
<1>4. ASSUME NEW p \in Sides, SubmitShutdownNotice(p) PROVE Inv3'
  BY <1>4, SubmitNoticeInv3
<1>5. ASSUME NEW p \in Sides, Pop(p) PROVE Inv3'
  BY <1>5, PopInv3
<1>6. ASSUME NEW p \in Sides, Sent(p) PROVE Inv3'
  BY <1>6, SentInv3
<1>7. ASSUME NEW p \in Sides, Recv(p) PROVE Inv3'
  BY <1>7, RecvInv3
<1>8. CASE UNCHANGED vars
  BY <1>8 DEF vars, Inv3
<1> QED
  BY <1>1, <1>2, <1>3, <1>4, <1>5, <1>6, <1>7, <1>8 DEF Next

\* A stream that on_stream_close_callback reports as closed without error
\* (NGHTTP2_NO_ERROR) carried both bodies completely: END_STREAM goes out with the last
\* octets of a body only, no frame that arrives is lost before it but on a stream that is
\* then reset, and a session that was told to terminate or to reset the stream never
\* reports the end it believes in.
THEOREM CleanEndIsCompleteAlways == Spec => []CleanEndIsComplete
<1>1. Inv3 => CleanEndIsComplete
  BY DEF Inv3, Side, Settled, CleanEndIsComplete
<1> QED
  BY <1>1, Inv1Always, InitInv2, NextInv2, InitInv3, NextInv3, PTL DEF Spec
=============================================================================
