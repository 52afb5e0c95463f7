----------------------------- MODULE Http2Proof -----------------------------
(***************************************************************************)
(* Each end of every HTTP/2 connection of Http2 counts its open streams    *)
(* exactly (StreamsCounted), however many streams there are and whatever   *)
(* the windows, limits and settings are.                                   *)
(*                                                                         *)
(* A session is changed by some thirty functions that call one another.    *)
(* What nearly all of them leave alone is the relation Follows, which is   *)
(* transitive; each function has one lemma that says it keeps SessionInv   *)
(* and, unless it opens a stream or prepares a frame, Follows.             *)
(***************************************************************************)
EXTENDS Http2, FoldFacts, SequenceTheorems

-----------------------------------------------------------------------------
(* Types.                                                                  *)

Stream == [state : {"initial", "opening", "opened", "closing"}, closed : BOOLEAN,
           rd : BOOLEAN, wr : BOOLEAN, item : {"none", "ready", "deferred"},
           remote_win : Int, local_win : Int, recv_win : Int, consumed : Int,
           wuq : BOOLEAN]
StreamMaps == UNION {[D -> Stream] : D \in SUBSET Ids}

\* Why an RST_STREAM ends a stream.
Faults == Reasons \ {"open", "no_error"}

HeadersFrames == [type : {"HEADERS"}, id : Ids, end : BOOLEAN]
Responses == [type : {"HEADERS"}, id : Ids, end : {FALSE}]
RequestItems == [type : {"HEADERS"}, id : Ids, end : BOOLEAN, canceled : BOOLEAN]
DataFrames == [type : {"DATA"}, id : Ids, len : Int, end : BOOLEAN]
RstFrames == [type : {"RST_STREAM"}, id : Ids, error : Faults]
SettingsFrames == [type : {"SETTINGS"}, iv : Entries]
AckFrames == [type : {"ACK"}]
GoawayItems == [type : {"GOAWAY"}, last : Int, aux : {"none", "notice", "term"}]
GoawayFrames == [type : {"GOAWAY"}, last : Int]
UpdateFrames == [type : {"WINDOW_UPDATE"}, id : Ids \cup {0}, inc : Int]

RegularItems == Responses \cup RstFrames \cup GoawayItems \cup UpdateFrames
UrgentItems == SettingsFrames \cup AckFrames
PreparedItems == RegularItems \cup UrgentItems \cup RequestItems \cup DataFrames
WireFrames == HeadersFrames \cup RstFrames \cup GoawayFrames \cup UpdateFrames
              \cup UrgentItems \cup DataFrames

Flags == {"submitted", "sent", "recv", "term_on_send", "term_sent"}

Session ==
    [server : BOOLEAN, streams : StreamMaps, num : Int, closed_q : Seq(Ids),
     urgent : Seq(UrgentItems), reg : Seq(RegularItems), syn : Seq(RequestItems),
     aob : Seq(PreparedItems),
     remote_win : Int, local_win : Int, recv_win : Int, consumed : Int, wuq : BOOLEAN,
     remote_iw : Int, remote_mc : Int, local_iw : Int, local_mc : Int, pending_mc : Int,
     settings_recv : BOOLEAN, inflight : Seq(Entries),
     next_id : Nat, last_sent : Nat, last_recv : Nat, last_proc : Nat,
     local_last : Int, remote_last : Int,
     goaway : SUBSET Flags, ign_all : BOOLEAN, ratelim : Int,
     reason : [Ids -> Reasons], error : Errors]

-----------------------------------------------------------------------------
(* What the functions of a session keep.                                   *)

\* The streams in the map have ids that were used, the open ones are counted, the streams
\* kept for priorities are closed, and the requests that wait in ob_syn have the ids that
\* follow.
SessionInv(s) ==
    /\ s \in Session
    /\ s.num = Cardinality(Active(s))
    /\ s.last_proc <= s.last_recv /\ s.last_sent < s.next_id
    /\ s.server => /\ \A id \in DOMAIN s.streams : id <= s.last_proc
                   /\ s.syn = <<>>
    /\ ~s.server => /\ \A id \in DOMAIN s.streams : id <= s.last_sent
                    /\ s.last_proc = 0
    /\ \A i \in 1..Len(s.closed_q) :
         s.closed_q[i] \notin Active(s) /\ s.closed_q[i] <= s.last_proc
    /\ \A i \in 1..Len(s.syn) : s.last_sent < s.syn[i].id /\ s.syn[i].id < s.next_id
    /\ \A i, j \in 1..Len(s.syn) : i < j => s.syn[i].id < s.syn[j].id

\* A frame that a function queues besides responses, refusals and shutdown notices.
Harmless(s, t, f) ==
    /\ f.type # "HEADERS"
    /\ f.type = "RST_STREAM" => f.error # "refused"
    /\ f.type = "GOAWAY" => /\ f.aux # "notice" /\ "submitted" \in t.goaway
                            /\ \/ f.last = LeastOf(s.last_proc, s.local_last)
                               \/ f.last = LeastOf(s.last_recv, s.local_last)

\* t comes from s without opening a stream or preparing a frame; of the streams that end
\* on the way only those in R end as "refused".
Follows(s, t, R) ==
    /\ t.server = s.server
    /\ DOMAIN t.streams \subseteq DOMAIN s.streams
    /\ Active(t) \subseteq Active(s)
    /\ Len(t.syn) = Len(s.syn)
    /\ \A i \in 1..Len(s.syn) : t.syn[i].id = s.syn[i].id
    /\ t.aob = s.aob /\ t.next_id = s.next_id /\ t.last_sent = s.last_sent
    /\ t.last_recv = s.last_recv /\ t.last_proc = s.last_proc
    /\ t.local_last = s.local_last
    /\ s.goaway \subseteq t.goaway
    /\ "sent" \in t.goaway => "sent" \in s.goaway
    /\ Len(s.reg) <= Len(t.reg)
    /\ \A i \in 1..Len(s.reg) : t.reg[i] = s.reg[i]
    /\ \A i \in Len(s.reg) + 1 .. Len(t.reg) : Harmless(s, t, t.reg[i])
    /\ \A id \in Ids : t.reason[id] = "refused" => s.reason[id] = "refused" \/ id \in R

Moved(s, t, R) == SessionInv(t) /\ Follows(s, t, R)
Holds(s, t, R) == Moved(s, t, R) /\ t.inflight = s.inflight

\* Frames are ignored from the moment the session is told to terminate.
IgnoresOnTerm(s) == s.ign_all <=> "term_on_send" \in s.goaway

\* What nearly every function does to the two halves of a stream: it leaves them alone,
\* resets the stream, which queues an RST_STREAM, or closes it; a stream is closed without
\* error only when both halves ended before.
Calm(s, t) ==
    /\ \A id \in Active(t) :
          /\ t.streams[id].rd = s.streams[id].rd /\ t.streams[id].wr = s.streams[id].wr
          /\ \/ t.streams[id].state = "closing" <=> s.streams[id].state = "closing"
             \/ /\ t.streams[id].state = "closing"
                /\ \E i \in Len(s.reg) + 1 .. Len(t.reg) :
                      t.reg[i].type = "RST_STREAM" /\ t.reg[i].id = id
    /\ \A i \in Len(s.reg) + 1 .. Len(t.reg) :
          t.reg[i].type = "RST_STREAM" /\ t.reg[i].id \in Active(t)
            => t.streams[t.reg[i].id].state = "closing"
    /\ IgnoresOnTerm(s) => IgnoresOnTerm(t)
    /\ \A id \in Ids : t.reason[id] = "no_error" =>
          \/ s.reason[id] = "no_error"
          \/ /\ id \in Active(s) /\ id \notin Active(t)
             /\ s.streams[id].rd /\ s.streams[id].wr
    /\ \A i \in 1..Len(s.syn) : t.syn[i].end = s.syn[i].end

Keeps(s, t, R) == Holds(s, t, R) /\ Calm(s, t)

\* t differs from s in windows, flags and states of streams only.
Retouched(s, t) ==
    /\ t \in Session
    /\ DOMAIN t.streams = DOMAIN s.streams
    /\ \A id \in DOMAIN s.streams : t.streams[id].closed = s.streams[id].closed
    /\ t.server = s.server /\ t.num = s.num /\ t.closed_q = s.closed_q
    /\ t.reg = s.reg /\ t.syn = s.syn /\ t.aob = s.aob
    /\ t.next_id = s.next_id /\ t.last_sent = s.last_sent
    /\ t.last_recv = s.last_recv /\ t.last_proc = s.last_proc
    /\ t.local_last = s.local_last
    /\ s.goaway \subseteq t.goaway
    /\ "sent" \in t.goaway => "sent" \in s.goaway
    /\ t.reason = s.reason /\ t.inflight = s.inflight
    /\ IgnoresOnTerm(s) => IgnoresOnTerm(t)

\* t differs from s in windows and flags only.
Quiet(s, t) ==
    /\ Retouched(s, t)
    /\ \A id \in DOMAIN s.streams :
          /\ t.streams[id].rd = s.streams[id].rd /\ t.streams[id].wr = s.streams[id].wr
          /\ t.streams[id].state = "closing" <=> s.streams[id].state = "closing"

-----------------------------------------------------------------------------
(* The relations.                                                          *)

LEMMA MapsDef ==
    ASSUME NEW m
    PROVE  m \in StreamMaps <=> m \in [DOMAIN m -> Stream] /\ DOMAIN m \subseteq Ids
  BY DEF StreamMaps

LEMMA IdsNat == \A id \in Ids : id \in Nat /\ id >= 1 /\ id < LastStream
  BY SessionConstants DEF Ids, LastStream, SessionConstants

LEMMA Lengths ==
    ASSUME NEW s \in Session
    PROVE  /\ Len(s.reg) \in Nat /\ Len(s.syn) \in Nat /\ Len(s.closed_q) \in Nat
           /\ Len(s.urgent) \in Nat /\ Len(s.aob) \in Nat
<1>1. /\ s.reg \in Seq(RegularItems) /\ s.syn \in Seq(RequestItems) /\ s.closed_q \in Seq(Ids)
      /\ s.urgent \in Seq(UrgentItems) /\ s.aob \in Seq(PreparedItems)
  BY DEF Session
<1> QED
  BY <1>1

LEMMA FollowsRefl ==
    ASSUME NEW s, SessionInv(s), NEW R PROVE Keeps(s, s, R)
<1>1. Len(s.reg) \in Nat
  BY Lengths DEF SessionInv
<1>2. Calm(s, s)
  BY <1>1 DEF Calm
<1> QED
  BY <1>1, <1>2 DEF Keeps, Holds, Moved, Follows

LEMMA HoldsTrans ==
    ASSUME NEW s, NEW t, NEW u, NEW R, SessionInv(s), Holds(s, t, R), Holds(t, u, R)
    PROVE  Holds(s, u, R)
<1>1. /\ Len(s.reg) \in Nat /\ Len(t.reg) \in Nat /\ Len(u.reg) \in Nat
      /\ Len(s.syn) \in Nat
  BY Lengths DEF Holds, Moved, SessionInv
<1>2. \A i \in Len(s.reg) + 1 .. Len(u.reg) : Harmless(s, u, u.reg[i])
  <2> SUFFICES ASSUME NEW i \in Len(s.reg) + 1 .. Len(u.reg) PROVE Harmless(s, u, u.reg[i])
    OBVIOUS
  <2>1. CASE i <= Len(t.reg)
    <3>1. Harmless(s, t, t.reg[i]) /\ u.reg[i] = t.reg[i]
      BY <1>1, <2>1 DEF Holds, Moved, Follows
    <3> QED
      BY <3>1 DEF Harmless, Holds, Moved, Follows
  <2>2. CASE i > Len(t.reg)
    <3>1. Harmless(t, u, u.reg[i])
      BY <1>1, <2>2 DEF Holds, Moved, Follows
    <3> QED
      BY <3>1 DEF Harmless, Holds, Moved, Follows
  <2> QED
    BY <1>1, <2>1, <2>2
<1>3. \A i \in 1 .. Len(s.reg) : u.reg[i] = s.reg[i]
  BY <1>1 DEF Holds, Moved, Follows
<1>4. \A i \in 1 .. Len(s.syn) : u.syn[i].id = s.syn[i].id
  BY <1>1 DEF Holds, Moved, Follows
<1> QED
  BY <1>1, <1>2, <1>3, <1>4 DEF Holds, Moved, Follows

LEMMA CalmTrans ==
    ASSUME NEW s, NEW t, NEW u, NEW R, NEW Q, SessionInv(s), Moved(s, t, R), Moved(t, u, Q),
           Calm(s, t), Calm(t, u)
    PROVE  Calm(s, u)
<1>1. /\ Len(s.reg) \in Nat /\ Len(t.reg) \in Nat /\ Len(u.reg) \in Nat
      /\ Len(s.reg) <= Len(t.reg) /\ Len(t.reg) <= Len(u.reg)
      /\ \A i \in 1..Len(t.reg) : u.reg[i] = t.reg[i]
      /\ Active(u) \subseteq Active(t) /\ Active(t) \subseteq Active(s)
      /\ t.goaway \subseteq u.goaway
      /\ Len(t.syn) = Len(s.syn)
  BY Lengths DEF Moved, SessionInv, Follows
<1>2. /\ \A i \in Len(s.reg) + 1 .. Len(t.reg) : i \in Len(s.reg) + 1 .. Len(u.reg)
      /\ \A i \in Len(t.reg) + 1 .. Len(u.reg) : i \in Len(s.reg) + 1 .. Len(u.reg)
      /\ \A i \in Len(s.reg) + 1 .. Len(t.reg) : u.reg[i] = t.reg[i]
      /\ \A i \in Len(s.reg) + 1 .. Len(u.reg) :
            i \in Len(s.reg) + 1 .. Len(t.reg) \/ i \in Len(t.reg) + 1 .. Len(u.reg)
  BY <1>1
<1>3. ASSUME NEW id \in Active(u)
      PROVE  /\ u.streams[id].rd = s.streams[id].rd /\ u.streams[id].wr = s.streams[id].wr
             /\ \/ u.streams[id].state = "closing" <=> s.streams[id].state = "closing"
                \/ /\ u.streams[id].state = "closing"
                   /\ \E i \in Len(s.reg) + 1 .. Len(u.reg) :
                         u.reg[i].type = "RST_STREAM" /\ u.reg[i].id = id
  <2>1. id \in Active(t)
    BY <1>1
  <2>2. /\ u.streams[id].rd = t.streams[id].rd /\ u.streams[id].wr = t.streams[id].wr
        /\ t.streams[id].rd = s.streams[id].rd /\ t.streams[id].wr = s.streams[id].wr
    BY <2>1 DEF Calm
  <2>3. CASE u.streams[id].state = "closing" <=> t.streams[id].state = "closing"
    <3>1. CASE t.streams[id].state = "closing" <=> s.streams[id].state = "closing"
      BY <2>2, <2>3, <3>1
    <3>2. CASE ~(t.streams[id].state = "closing" <=> s.streams[id].state = "closing")
      <4>1. t.streams[id].state = "closing"
        BY <2>1, <3>2 DEF Calm
      <4>2. PICK i \in Len(s.reg) + 1 .. Len(t.reg) :
                t.reg[i].type = "RST_STREAM" /\ t.reg[i].id = id
        BY <2>1, <3>2 DEF Calm
      <4>3. i \in Len(s.reg) + 1 .. Len(u.reg) /\ u.reg[i] = t.reg[i]
        BY <1>2
      <4> QED
        BY <2>2, <2>3, <4>1, <4>2, <4>3
    <3> QED
      BY <3>1, <3>2
  <2>4. CASE ~(u.streams[id].state = "closing" <=> t.streams[id].state = "closing")
    <3>1. u.streams[id].state = "closing"
      BY <2>4 DEF Calm
    <3>2. PICK i \in Len(t.reg) + 1 .. Len(u.reg) :
              u.reg[i].type = "RST_STREAM" /\ u.reg[i].id = id
      BY <2>4 DEF Calm
    <3>3. i \in Len(s.reg) + 1 .. Len(u.reg)
      BY <1>2
    <3> QED
      BY <2>2, <3>1, <3>2, <3>3
  <2> QED
    BY <2>3, <2>4
<1>4. ASSUME NEW i \in Len(s.reg) + 1 .. Len(u.reg), u.reg[i].type = "RST_STREAM",
             u.reg[i].id \in Active(u)
      PROVE  u.streams[u.reg[i].id].state = "closing"
  <2>1. CASE i \in Len(s.reg) + 1 .. Len(t.reg)
    <3>1. u.reg[i] = t.reg[i]
      BY <1>2, <2>1
    <3>2. t.streams[t.reg[i].id].state = "closing"
      BY <1>1, <1>4, <2>1, <3>1 DEF Calm
    <3>3. \A id \in Active(u) : t.streams[id].state = "closing" => u.streams[id].state = "closing"
      BY DEF Calm
    <3> QED
      BY <1>4, <3>1, <3>2, <3>3
  <2>2. CASE i \in Len(t.reg) + 1 .. Len(u.reg)
    BY <1>4, <2>2 DEF Calm
  <2> QED
    BY <1>2, <2>1, <2>2
<1>5. IgnoresOnTerm(s) => IgnoresOnTerm(u)
  BY DEF Calm
<1>6. ASSUME NEW id \in Ids, u.reason[id] = "no_error"
      PROVE  \/ s.reason[id] = "no_error"
             \/ /\ id \in Active(s) /\ id \notin Active(u)
                /\ s.streams[id].rd /\ s.streams[id].wr
  <2>1. CASE t.reason[id] = "no_error"
    BY <1>1, <2>1 DEF Calm
  <2>2. CASE t.reason[id] # "no_error"
    <3>1. /\ id \in Active(t) /\ id \notin Active(u)
          /\ t.streams[id].rd /\ t.streams[id].wr
      BY <1>6, <2>2 DEF Calm
    <3>2. t.streams[id].rd = s.streams[id].rd /\ t.streams[id].wr = s.streams[id].wr
      BY <3>1 DEF Calm
    <3> QED
      BY <1>1, <3>1, <3>2
  <2> QED
    BY <2>1, <2>2
<1>7. \A i \in 1..Len(s.syn) : u.syn[i].end = s.syn[i].end
  BY <1>1 DEF Calm
<1> QED
  BY <1>3, <1>4, <1>5, <1>6, <1>7 DEF Calm

LEMMA FollowsTrans ==
    ASSUME NEW s, NEW t, NEW u, NEW R, SessionInv(s), Keeps(s, t, R), Keeps(t, u, R)
    PROVE  Keeps(s, u, R)
  BY HoldsTrans, CalmTrans DEF Keeps, Holds

LEMMA RetouchedHolds ==
    ASSUME NEW s, NEW t, NEW R, SessionInv(s), Retouched(s, t) PROVE Holds(s, t, R)
<1>1. Active(t) = Active(s)
  BY DEF Retouched, Active
<1>2. Len(s.reg) \in Nat
  BY DEF SessionInv, Session
<1>3. SessionInv(t)
  BY <1>1 DEF SessionInv, Retouched
<1>4. Follows(s, t, R)
  BY <1>1, <1>2 DEF Follows, Retouched
<1> QED
  BY <1>3, <1>4 DEF Holds, Moved, Retouched

LEMMA QuietKeeps ==
    ASSUME NEW s, NEW t, NEW R, SessionInv(s), Quiet(s, t) PROVE Keeps(s, t, R)
<1>1. Active(t) = Active(s) /\ Active(s) \subseteq DOMAIN s.streams
  BY DEF Quiet, Retouched, Active
<1>2. Len(s.reg) \in Nat
  BY DEF SessionInv, Session
<1>3. Calm(s, t)
  BY <1>1, <1>2 DEF Calm, Quiet, Retouched
<1> QED
  BY <1>3, RetouchedHolds DEF Keeps, Quiet

LEMMA QuietTrans ==
    ASSUME NEW s, NEW t, NEW u, Quiet(s, t), Quiet(t, u) PROVE Quiet(s, u)
  BY DEF Quiet, Retouched

LEMMA RetouchedTrans ==
    ASSUME NEW s, NEW t, NEW u, Retouched(s, t), Retouched(t, u) PROVE Retouched(s, u)
  BY DEF Retouched

LEMMA KeepsQuiet ==
    ASSUME NEW s, NEW t, NEW u, NEW R, SessionInv(s), Keeps(s, t, R), Quiet(t, u)
    PROVE  Keeps(s, u, R) /\ DOMAIN u.streams = DOMAIN t.streams
<1>1. Keeps(t, u, R)
  BY QuietKeeps DEF Keeps, Holds, Moved
<1>2. DOMAIN u.streams = DOMAIN t.streams
  BY DEF Quiet, Retouched
<1> QED
  BY <1>1, <1>2, FollowsTrans

LEMMA InflightSet ==
    ASSUME NEW s, NEW t, NEW R, Keeps(s, t, R), NEW l \in Seq(Entries)
    PROVE  Moved(s, [t EXCEPT !.inflight = l], R) /\ Calm(s, [t EXCEPT !.inflight = l])
<1> DEFINE u == [t EXCEPT !.inflight = l]
<1>1. t \in Session
  BY DEF Keeps, Holds, Moved, SessionInv
<1>2. u \in Session
  BY <1>1 DEF Session
<1>3. /\ u.streams = t.streams /\ u.server = t.server /\ u.reg = t.reg
      /\ u.num = t.num /\ u.closed_q = t.closed_q /\ u.syn = t.syn /\ u.aob = t.aob
      /\ u.next_id = t.next_id /\ u.last_sent = t.last_sent
      /\ u.last_recv = t.last_recv /\ u.last_proc = t.last_proc
      /\ u.local_last = t.local_last /\ u.goaway = t.goaway /\ u.reason = t.reason
      /\ u.ign_all = t.ign_all
  BY <1>1 DEF Session
<1>4. Active(u) = Active(t)
  BY <1>3 DEF Active
<1> HIDE DEF u
<1>5. SessionInv(u)
  BY <1>2, <1>3, <1>4 DEF SessionInv, Keeps, Holds, Moved
<1>6. Follows(s, u, R)
  BY <1>3, <1>4 DEF Follows, Keeps, Holds, Moved, Harmless
<1>7. Calm(s, u)
  BY <1>3, <1>4 DEF Calm, Keeps, IgnoresOnTerm
<1> QED
  BY <1>5, <1>6, <1>7 DEF Moved, u

\* A stream that stays open or closed may change otherwise.
LEMMA StreamEdited ==
    ASSUME NEW s \in Session, NEW id \in DOMAIN s.streams, NEW st \in Stream,
           st.closed = s.streams[id].closed
    PROVE  /\ Retouched(s, [s EXCEPT !.streams[id] = st])
           /\ \/ st.rd # s.streams[id].rd \/ st.wr # s.streams[id].wr
              \/ ~(st.state = "closing" <=> s.streams[id].state = "closing")
              \/ Quiet(s, [s EXCEPT !.streams[id] = st])
           /\ [s EXCEPT !.streams[id] = st].streams[id] = st
           /\ \A i \in DOMAIN s.streams \ {id} :
                 [s EXCEPT !.streams[id] = st].streams[i] = s.streams[i]
<1> DEFINE m == [s.streams EXCEPT ![id] = st]
           t == [s EXCEPT !.streams = m]
<1>1. s.streams \in [DOMAIN s.streams -> Stream] /\ DOMAIN s.streams \subseteq Ids
  BY MapsDef DEF Session
<1>2. /\ m \in StreamMaps /\ DOMAIN m = DOMAIN s.streams /\ m[id] = st
      /\ \A i \in DOMAIN m : m[i].closed = s.streams[i].closed
      /\ \A i \in DOMAIN m \ {id} : m[i] = s.streams[i]
  BY <1>1, MapsDef
<1>3. t.streams = m
  BY DEF Session
<1>4. Retouched(s, t)
  <2> HIDE DEF m
  <2>1. t \in Session
    BY <1>2 DEF Session
  <2> QED
    BY <1>2, <2>1 DEF Session, Retouched, IgnoresOnTerm
<1>5. [s EXCEPT !.streams[id] = st] = t
  OBVIOUS
<1> HIDE DEF m, t
<1>6. ASSUME st.rd = s.streams[id].rd, st.wr = s.streams[id].wr,
             st.state = "closing" <=> s.streams[id].state = "closing"
      PROVE  Quiet(s, t)
  BY <1>2, <1>3, <1>4, <1>6 DEF Quiet
<1> QED
  BY <1>2, <1>3, <1>4, <1>5, <1>6

LEMMA StreamType ==
    ASSUME NEW s \in Session, NEW id \in DOMAIN s.streams
    PROVE  s.streams[id] \in Stream /\ id \in Ids
<1>1. s.streams \in [DOMAIN s.streams -> Stream] /\ DOMAIN s.streams \subseteq Ids
  BY MapsDef DEF Session
<1> QED
  BY <1>1

\* The open streams are finitely many, and what Live says of one.
LEMMA ActiveFinite ==
    ASSUME NEW s \in Session
    PROVE  /\ Active(s) \subseteq Ids /\ IsFiniteSet(Active(s))
           /\ \A id : Live(s, id) <=> id \in Active(s)
<1>1. DOMAIN s.streams \subseteq Ids
  BY MapsDef DEF Session
<1>2. IsFiniteSet(Ids)
  BY FS_Interval, SessionConstants DEF Ids, SessionConstants
<1>3. Active(s) \subseteq Ids
  BY <1>1 DEF Active
<1>4. \A id : Live(s, id) <=> id \in Active(s)
  BY DEF Live, Active
<1> QED
  BY <1>2, <1>3, <1>4, FS_Subset

LEMMA StreamsFinite ==
    ASSUME NEW s \in Session PROVE IsFiniteSet(DOMAIN s.streams)
<1>1. DOMAIN s.streams \subseteq Ids
  BY MapsDef DEF Session
<1>2. IsFiniteSet(Ids)
  BY FS_Interval, SessionConstants DEF Ids, SessionConstants
<1> QED
  BY <1>1, <1>2, FS_Subset

-----------------------------------------------------------------------------
(* Queueing frames.                                                        *)

\* One harmless frame more waits to be sent.
LEMMA Queued ==
    ASSUME NEW s, SessionInv(s), NEW f \in RegularItems, Harmless(s, s, f), NEW R
    PROVE  /\ Holds(s, [s EXCEPT !.reg = Append(@, f)], R)
           /\ (f.type = "RST_STREAM" => f.id \notin Active(s))
                => Keeps(s, [s EXCEPT !.reg = Append(@, f)], R)
<1> DEFINE t == [s EXCEPT !.reg = Append(@, f)]
<1>1. s \in Session /\ s.reg \in Seq(RegularItems)
  BY DEF SessionInv, Session
<1>2. /\ t.reg = Append(s.reg, f) /\ t.streams = s.streams /\ t.server = s.server
      /\ t.num = s.num /\ t.closed_q = s.closed_q /\ t.syn = s.syn /\ t.aob = s.aob
      /\ t.next_id = s.next_id /\ t.last_sent = s.last_sent
      /\ t.last_recv = s.last_recv /\ t.last_proc = s.last_proc
      /\ t.local_last = s.local_last /\ t.goaway = s.goaway /\ t.reason = s.reason
      /\ t.inflight = s.inflight /\ t.ign_all = s.ign_all
  BY <1>1 DEF Session
<1>3. /\ Append(s.reg, f) \in Seq(RegularItems)
      /\ Len(s.reg) \in Nat /\ Len(Append(s.reg, f)) = Len(s.reg) + 1
      /\ \A i \in 1..Len(s.reg) : Append(s.reg, f)[i] = s.reg[i]
      /\ Append(s.reg, f)[Len(s.reg) + 1] = f
  BY <1>1
<1>4. t \in Session
  BY <1>1, <1>3 DEF Session
<1>5. Active(t) = Active(s)
  BY <1>2 DEF Active
<1> HIDE DEF t
<1>6. SessionInv(t)
  BY <1>2, <1>4, <1>5 DEF SessionInv
<1>7. \A i \in Len(s.reg) + 1 .. Len(t.reg) : Harmless(s, t, t.reg[i])
  BY <1>2, <1>3 DEF Harmless
<1>8. Follows(s, t, R)
  BY <1>2, <1>3, <1>5, <1>7 DEF Follows
<1>9. ASSUME f.type = "RST_STREAM" => f.id \notin Active(s) PROVE Calm(s, t)
  <2>1. \A i \in Len(s.reg) + 1 .. Len(t.reg) : t.reg[i] = f
    BY <1>2, <1>3
  <2> QED
    BY <1>2, <1>5, <1>9, <2>1 DEF Calm, IgnoresOnTerm
<1> QED
  BY <1>2, <1>6, <1>8, <1>9 DEF Keeps, Holds, Moved, t

LEMMA Least ==
    ASSUME NEW a \in Int, NEW b \in Int
    PROVE  LeastOf(a, b) \in Int /\ LeastOf(a, b) <= a /\ LeastOf(a, b) <= b
  BY DEF LeastOf

LEMMA AddGoaway ==
    ASSUME NEW s, SessionInv(s), NEW last, last \in {s.last_proc, s.last_recv},
           NEW aux \in {"none", "term"}, NEW R
    PROVE  Keeps(s, nghttp2_session_add_goaway(s, last, aux), R)
<1> DEFINE f == [type |-> "GOAWAY", last |-> LeastOf(last, s.local_last), aux |-> aux]
           q == [s EXCEPT !.goaway = @ \cup {"submitted"}]
<1>1. s \in Session
  BY DEF SessionInv
<1>2. /\ Quiet(s, q) /\ q.local_last = s.local_last /\ q.last_proc = s.last_proc
      /\ q.last_recv = s.last_recv /\ "submitted" \in q.goaway
  BY <1>1 DEF Session, Quiet, Retouched, IgnoresOnTerm, Flags
<1>3. f \in RegularItems
  <2>1. LeastOf(last, s.local_last) \in Int
    BY <1>1, Least DEF Session
  <2> QED
    BY <2>1 DEF RegularItems, GoawayItems
<1>4. Harmless(q, q, f)
  BY <1>2 DEF Harmless
<1>5. Keeps(s, q, R)
  BY <1>2, QuietKeeps
<1>8. f.type # "RST_STREAM"
  OBVIOUS
<1>6. nghttp2_session_add_goaway(s, last, aux) = [q EXCEPT !.reg = Append(@, f)]
  BY <1>1 DEF nghttp2_session_add_goaway, Session
<1> HIDE DEF q, f
<1>7. Keeps(q, [q EXCEPT !.reg = Append(@, f)], R)
  BY <1>3, <1>4, <1>5, <1>8, Queued DEF Keeps, Holds, Moved
<1> QED
  BY <1>5, <1>6, <1>7, FollowsTrans

LEMMA TerminateSession ==
    ASSUME NEW s, SessionInv(s), NEW error \in Errors, NEW R
    PROVE  Keeps(s, nghttp2_session_terminate_session(s, error), R)
<1> DEFINE g == nghttp2_session_add_goaway(s, s.last_proc, "term")
<1>1. CASE "term_on_send" \in s.goaway
  BY <1>1, FollowsRefl DEF nghttp2_session_terminate_session
<1>2. CASE "term_on_send" \notin s.goaway
  <2>1. Keeps(s, g, R)
    BY AddGoaway
  <2>2. nghttp2_session_terminate_session(s, error)
          = [g EXCEPT !.ign_all = TRUE, !.goaway = @ \cup {"term_on_send"}, !.error = error]
    BY <1>2 DEF nghttp2_session_terminate_session
  <2> HIDE DEF g
  <2>3. g \in Session
    BY <2>1 DEF Keeps, Holds, Moved, SessionInv
  <2>4. Quiet(g, nghttp2_session_terminate_session(s, error))
    <3> DEFINE t == [g EXCEPT !.ign_all = TRUE, !.goaway = @ \cup {"term_on_send"},
                              !.error = error]
    <3>1. t \in Session
      BY <2>3 DEF Session, Flags
    <3>2. Quiet(g, t)
      BY <2>3, <3>1 DEF Session, Quiet, Retouched, IgnoresOnTerm
    <3> QED
      BY <2>2, <3>2
  <2>5. Keeps(g, nghttp2_session_terminate_session(s, error), R)
    BY <2>1, <2>4, QuietKeeps DEF Keeps, Holds, Moved
  <2> QED
    BY <2>1, <2>5, FollowsTrans
<1> QED
  BY <1>1, <1>2

LEMMA TerminateKept ==
    ASSUME NEW s, SessionInv(s), NEW R
    PROVE  \A error \in {"protocol", "flow_control", "stream_closed"} :
              /\ Keeps(s, nghttp2_session_terminate_session(s, error), R)
              /\ DOMAIN nghttp2_session_terminate_session(s, error).streams
                   = DOMAIN s.streams
<1> SUFFICES ASSUME NEW error \in {"protocol", "flow_control", "stream_closed"}
             PROVE  /\ Keeps(s, nghttp2_session_terminate_session(s, error), R)
                    /\ DOMAIN nghttp2_session_terminate_session(s, error).streams
                         = DOMAIN s.streams
  OBVIOUS
<1>1. error \in Errors
  BY DEF Errors
<1>2. Keeps(s, nghttp2_session_terminate_session(s, error), R)
  BY <1>1, TerminateSession
<1>3. nghttp2_session_terminate_session(s, error).streams = s.streams
  BY DEF nghttp2_session_terminate_session, nghttp2_session_add_goaway, SessionInv, Session
<1> QED
  BY <1>2, <1>3

LEMMA AddWindowUpdate ==
    ASSUME NEW s, SessionInv(s), NEW id \in Ids \cup {0}, NEW inc \in Int, NEW R
    PROVE  /\ Keeps(s, nghttp2_session_add_window_update(s, id, inc), R)
           /\ DOMAIN nghttp2_session_add_window_update(s, id, inc).streams = DOMAIN s.streams
<1> DEFINE f == [type |-> "WINDOW_UPDATE", id |-> id, inc |-> inc]
           q == [s EXCEPT !.reg = Append(@, f)]
           w == nghttp2_session_add_window_update(s, id, inc)
<1>1. s \in Session
  BY DEF SessionInv
<1>2. f \in RegularItems /\ Harmless(s, s, f) /\ f.type # "RST_STREAM"
  BY DEF RegularItems, UpdateFrames, Harmless
<1>3. q.streams = s.streams
  BY <1>1 DEF Session
<1>4. Keeps(s, q, R)
  <2> HIDE DEF f
  <2> QED BY <1>2, Queued
<1>5. q \in Session
  BY <1>4 DEF Keeps, Holds, Moved, SessionInv
<1>6. CASE id = 0
  <2>1. w = [q EXCEPT !.wuq = TRUE]
    BY <1>6 DEF nghttp2_session_add_window_update
  <2> HIDE DEF q
  <2>2. Quiet(q, [q EXCEPT !.wuq = TRUE])
    BY <1>5 DEF Session, Quiet, Retouched, IgnoresOnTerm
  <2>3. Keeps(q, [q EXCEPT !.wuq = TRUE], R)
    BY <1>4, <2>2, QuietKeeps DEF Keeps, Holds, Moved
  <2> QED
    BY <1>3, <1>4, <2>1, <2>2, <2>3, FollowsTrans DEF Quiet, Retouched
<1>7. CASE id # 0 /\ Live(s, id)
  <2> DEFINE st == [q.streams[id] EXCEPT !.wuq = TRUE]
  <2>1. w = [q EXCEPT !.streams[id].wuq = TRUE]
    BY <1>7, Zenon DEF nghttp2_session_add_window_update
  <2> HIDE DEF q
  <2>2. id \in DOMAIN q.streams
    BY <1>3, <1>7 DEF Live
  <2>3. /\ st \in Stream /\ st.closed = q.streams[id].closed /\ st.rd = q.streams[id].rd
        /\ st.wr = q.streams[id].wr /\ st.state = q.streams[id].state
    BY <1>5, <2>2, StreamType DEF Stream
  <2>4. w = [q EXCEPT !.streams[id] = st]
    BY <2>1
  <2> HIDE DEF st
  <2>5. Quiet(q, w)
    BY <1>5, <2>2, <2>3, <2>4, StreamEdited
  <2>6. Keeps(q, w, R)
    BY <1>4, <2>5, QuietKeeps DEF Keeps, Holds, Moved
  <2> QED
    BY <1>3, <1>4, <2>5, <2>6, FollowsTrans DEF Quiet, Retouched
<1>8. CASE id # 0 /\ ~Live(s, id)
  <2>1. w = q
    BY <1>8, Zenon DEF nghttp2_session_add_window_update
  <2> QED
    BY <1>3, <1>4, <2>1
<1> QED
  BY <1>6, <1>7, <1>8

LEMMA AddRstStream ==
    ASSUME NEW s, SessionInv(s), NEW id \in Ids, NEW error \in Faults \ {"refused"}, NEW R
    PROVE  /\ Keeps(s, nghttp2_session_add_rst_stream(s, id, error), R)
           /\ DOMAIN nghttp2_session_add_rst_stream(s, id, error).streams = DOMAIN s.streams
<1> DEFINE waiting == {i \in DOMAIN s.syn : s.syn[i].id = id /\ ~s.syn[i].canceled}
           never == IF s.server THEN s.last_recv < id ELSE id >= s.next_id
           f == [type |-> "RST_STREAM", id |-> id, error |-> error]
           q == [s EXCEPT !.reg = Append(@, f)]
           w == nghttp2_session_add_rst_stream(s, id, error)
<1>1. s \in Session
  BY DEF SessionInv
<1>2. CASE never \/ (Live(s, id) /\ s.streams[id].state = "closing")
  <2>1. w = s
    BY <1>2 DEF nghttp2_session_add_rst_stream
  <2> QED
    BY <2>1, FollowsRefl
<1>3. CASE ~(never \/ (Live(s, id) /\ s.streams[id].state = "closing")) /\ waiting # {}
  <2> DEFINE k == CHOOSE i \in waiting : TRUE
             y == [s.syn EXCEPT ![k].canceled = TRUE]
  <2>1. w = [s EXCEPT !.syn[k].canceled = TRUE]
    BY <1>3, Zenon DEF nghttp2_session_add_rst_stream
  <2>2. k \in DOMAIN s.syn
    BY <1>3
  <2> HIDE DEF k
  <2>3. s.syn \in Seq(RequestItems)
    BY <1>1 DEF Session
  <2>4. /\ y \in Seq(RequestItems) /\ Len(y) = Len(s.syn)
        /\ \A i \in 1..Len(s.syn) : y[i].id = s.syn[i].id /\ y[i].end = s.syn[i].end
    <3> DEFINE e == [s.syn[k] EXCEPT !.canceled = TRUE]
    <3>1. s.syn[k] \in RequestItems /\ DOMAIN s.syn = 1..Len(s.syn)
      BY <2>2, <2>3
    <3>2. e \in RequestItems /\ e.id = s.syn[k].id /\ e.end = s.syn[k].end
      BY <3>1 DEF RequestItems
    <3>3. y = [s.syn EXCEPT ![k] = e]
      OBVIOUS
    <3> HIDE DEF e, y
    <3> QED BY <2>2, <2>3, <3>1, <3>2, <3>3
  <2>5. w = [s EXCEPT !.syn = y]
    BY <2>1
  <2> HIDE DEF y, w
  <2>6. w \in Session
    BY <1>1, <2>4, <2>5 DEF Session
  <2>7. /\ w.syn = y /\ w.streams = s.streams /\ w.server = s.server /\ w.reg = s.reg
        /\ w.num = s.num /\ w.closed_q = s.closed_q /\ w.aob = s.aob
        /\ w.next_id = s.next_id /\ w.last_sent = s.last_sent
        /\ w.last_recv = s.last_recv /\ w.last_proc = s.last_proc
        /\ w.local_last = s.local_last /\ w.goaway = s.goaway /\ w.reason = s.reason
        /\ w.inflight = s.inflight /\ w.ign_all = s.ign_all
    BY <1>1, <2>5 DEF Session
  <2>8. Active(w) = Active(s)
    BY <2>7 DEF Active
  <2>9. SessionInv(w)
    <3>1. w.server => w.syn = <<>>
      BY <2>3, <2>4, <2>7 DEF SessionInv
    <3>2. /\ \A i \in 1..Len(y) : w.last_sent < y[i].id /\ y[i].id < w.next_id
          /\ \A i, j \in 1..Len(y) : i < j => y[i].id < y[j].id
      BY <2>4, <2>7 DEF SessionInv
    <3> QED
      BY <2>6, <2>7, <2>8, <3>1, <3>2 DEF SessionInv
  <2>10. Len(s.reg) \in Nat
    BY <1>1, Lengths
  <2>11. Follows(s, w, R)
    BY <2>4, <2>7, <2>8, <2>10 DEF Follows
  <2>12. Calm(s, w)
    BY <2>4, <2>7, <2>8, <2>10 DEF Calm, IgnoresOnTerm
  <2> QED
    BY <2>7, <2>9, <2>11, <2>12 DEF Keeps, Holds, Moved, w
<1>4. CASE ~(never \/ (Live(s, id) /\ s.streams[id].state = "closing")) /\ waiting = {}
  <2>1. f \in RegularItems /\ Harmless(s, s, f) /\ f.type = "RST_STREAM" /\ f.id = id
    BY DEF RegularItems, RstFrames, Harmless, Faults
  <2>2. Holds(s, q, R) /\ (id \notin Active(s) => Keeps(s, q, R))
    <3> HIDE DEF f
    <3> QED BY <2>1, Queued
  <2>3. q \in Session /\ q.streams = s.streams
    <3>1. q.streams = s.streams
      BY <1>1 DEF Session
    <3> QED
      BY <2>2, <3>1 DEF Holds, Moved, SessionInv
  <2>4. w = IF Live(s, id) THEN [q EXCEPT !.streams[id].state = "closing"] ELSE q
    BY <1>4, Zenon DEF nghttp2_session_add_rst_stream
  <2>5. q.reg = Append(s.reg, f) /\ q.ign_all = s.ign_all /\ q.reason = s.reason
        /\ q.syn = s.syn /\ q.goaway = s.goaway /\ s.reg \in Seq(RegularItems)
    BY <1>1 DEF Session
  <2> HIDE DEF q, w, f
  <2>6. CASE Live(s, id)
    <3> DEFINE st == [q.streams[id] EXCEPT !.state = "closing"]
    <3>1. id \in DOMAIN q.streams
      BY <2>3, <2>6 DEF Live
    <3>2. /\ st \in Stream /\ st.closed = q.streams[id].closed /\ st.rd = q.streams[id].rd
          /\ st.wr = q.streams[id].wr /\ st.state = "closing"
      BY <2>3, <3>1, StreamType DEF Stream
    <3>3. w = [q EXCEPT !.streams[id] = st]
      BY <2>4, <2>6
    <3> HIDE DEF st
    <3>4. /\ Retouched(q, w) /\ w.streams[id] = st
          /\ \A i \in DOMAIN q.streams \ {id} : w.streams[i] = q.streams[i]
      BY <2>3, <3>1, <3>2, <3>3, StreamEdited
    <3>5. Holds(s, w, R)
      BY <2>2, <3>4, RetouchedHolds, HoldsTrans DEF Holds, Moved
    <3>6. Calm(s, w)
      <4>1. /\ Len(s.reg) \in Nat /\ Len(w.reg) = Len(s.reg) + 1
            /\ w.reg[Len(s.reg) + 1] = f
        BY <2>1, <2>5, <3>4 DEF Retouched
      <4>2. /\ \A i \in Len(s.reg) + 1 .. Len(w.reg) : w.reg[i] = f
            /\ Len(s.reg) + 1 \in Len(s.reg) + 1 .. Len(w.reg)
        BY <4>1
      <4>3. /\ w.syn = s.syn /\ w.reason = s.reason
            /\ IgnoresOnTerm(s) => IgnoresOnTerm(w)
        BY <2>5, <3>4 DEF Retouched, IgnoresOnTerm
      <4>4. \A i \in Active(w) : i \in DOMAIN s.streams
        BY <2>3, <3>4 DEF Active, Retouched
      <4>5. \A i \in Active(w) :
               /\ w.streams[i].rd = s.streams[i].rd /\ w.streams[i].wr = s.streams[i].wr
               /\ i # id => w.streams[i].state = s.streams[i].state
               /\ i = id => w.streams[i].state = "closing"
        BY <2>3, <3>2, <3>4, <4>4
      <4> QED
        BY <2>1, <4>2, <4>3, <4>5 DEF Calm
    <3> QED
      BY <2>3, <3>4, <3>5, <3>6 DEF Retouched, Keeps, w
  <2>7. CASE ~Live(s, id)
    <3>1. id \notin Active(s)
      BY <2>7 DEF Live, Active
    <3> QED
      BY <2>2, <2>3, <2>4, <2>7, <3>1 DEF w
  <2> QED
    BY <2>6, <2>7
<1> QED
  BY <1>2, <1>3, <1>4

\* SETTINGS that were sent are remembered until their ACK.
LEMMA AddSettings ==
    ASSUME NEW s, SessionInv(s), NEW iv \in Entries, NEW R
    PROVE  /\ Moved(s, nghttp2_session_add_settings(s, iv), R)
           /\ Calm(s, nghttp2_session_add_settings(s, iv))
<1> DEFINE f == [type |-> "SETTINGS", iv |-> iv]
           n == IF iv.mc = Unset THEN s.pending_mc ELSE iv.mc
           q == [s EXCEPT !.urgent = Append(s.urgent, f), !.pending_mc = n]
           l == Append(s.inflight, iv)
           t == [q EXCEPT !.inflight = l]
<1>1. /\ s \in Session /\ s.urgent \in Seq(UrgentItems) /\ s.inflight \in Seq(Entries)
      /\ s.pending_mc \in Int
  BY DEF SessionInv, Session
<1>2. f \in UrgentItems /\ n \in Int
  BY <1>1 DEF UrgentItems, SettingsFrames, Entries
<1>3. Append(s.urgent, f) \in Seq(UrgentItems) /\ l \in Seq(Entries)
  BY <1>1, <1>2
<1>4. nghttp2_session_add_settings(s, iv) = t
  BY <1>1 DEF nghttp2_session_add_settings, Session
<1>5. Quiet(s, q)
  <2> HIDE DEF n, f
  <2> QED BY <1>1, <1>2, <1>3 DEF Session, Quiet, Retouched, IgnoresOnTerm
<1> HIDE DEF q, l
<1>6. Keeps(s, q, R)
  BY <1>5, QuietKeeps
<1>7. Moved(s, t, R) /\ Calm(s, t)
  BY <1>3, <1>6, InflightSet
<1> QED
  BY <1>4, <1>7

-----------------------------------------------------------------------------
(* Closing streams.                                                        *)

OpenIn(m) == {i \in DOMAIN m : ~m[i].closed}
ClosedIn(s, id, error, m, q) ==
    [s EXCEPT !.num = @ - 1, !.reason[id] = error, !.streams = m, !.closed_q = q]

\* m is the map without id, or with id kept as closed; q the list of those kept.
Without(s, id, m, q) ==
    /\ m \in StreamMaps /\ DOMAIN m \subseteq DOMAIN s.streams
    /\ OpenIn(m) = Active(s) \ {id}
    /\ \A i \in OpenIn(m) : m[i] = s.streams[i]
    /\ q \in Seq(Ids)
    /\ \A i \in 1..Len(q) : q[i] \notin Active(s) \ {id} /\ q[i] <= s.last_proc

LEMMA StreamClosed ==
    ASSUME NEW s, SessionInv(s), NEW id \in Active(s), NEW error \in Reasons, NEW R,
           error = "refused" => id \in R,
           error = "no_error" => s.streams[id].rd /\ s.streams[id].wr,
           NEW m, NEW q, Without(s, id, m, q)
    PROVE  /\ Keeps(s, ClosedIn(s, id, error, m, q), R)
           /\ Active(ClosedIn(s, id, error, m, q)) = Active(s) \ {id}
           /\ ClosedIn(s, id, error, m, q).reason[id] = error
<1> DEFINE t == ClosedIn(s, id, error, m, q)
<1> USE DEF Without
<1>1. s \in Session /\ id \in Ids
  BY ActiveFinite DEF SessionInv
<1>2. s.reason \in [Ids -> Reasons] /\ s.num \in Int
  BY <1>1 DEF Session
<1> DEFINE r == [s.reason EXCEPT ![id] = error]
<1>3. /\ r \in [Ids -> Reasons]
      /\ \A i \in Ids : r[i] = "refused" => s.reason[i] = "refused" \/ i \in R
      /\ \A i \in Ids \ {id} : r[i] = s.reason[i]
      /\ r[id] = error
  BY <1>1, <1>2
<1>4. t = [s EXCEPT !.num = s.num - 1, !.reason = r, !.streams = m, !.closed_q = q]
  BY <1>1 DEF Session, ClosedIn
<1> HIDE DEF r, t
<1>5. t \in Session
  <2>1. s.num - 1 \in Int
    BY <1>2
  <2>2. [s EXCEPT !.num = s.num - 1, !.reason = r, !.streams = m, !.closed_q = q] \in Session
    BY <1>1, <1>3, <2>1 DEF Session
  <2> QED
    BY <1>4, <2>2
<1>6. /\ t.num = s.num - 1 /\ t.reason = r /\ t.streams = m /\ t.closed_q = q
      /\ t.syn = s.syn /\ t.server = s.server /\ t.reg = s.reg /\ t.aob = s.aob
      /\ t.next_id = s.next_id /\ t.last_sent = s.last_sent
      /\ t.last_recv = s.last_recv /\ t.last_proc = s.last_proc
      /\ t.local_last = s.local_last /\ t.goaway = s.goaway /\ t.inflight = s.inflight
      /\ t.ign_all = s.ign_all
  BY <1>1, <1>4 DEF Session
<1>7. Active(t) = Active(s) \ {id}
  BY <1>6 DEF Active, OpenIn
<1>8. t.num = Cardinality(Active(t))
  <2>1. s.num = Cardinality(Active(s)) /\ IsFiniteSet(Active(s))
    BY <1>1, ActiveFinite DEF SessionInv
  <2>2. Cardinality(Active(s) \ {id}) = Cardinality(Active(s)) - 1
    BY <2>1, FS_RemoveElement
  <2> QED
    BY <1>6, <1>7, <2>1, <2>2
<1>9. SessionInv(t)
  BY <1>5, <1>6, <1>7, <1>8 DEF SessionInv
<1>10. Len(s.reg) \in Nat
  BY <1>1, Lengths
<1>11. Follows(s, t, R)
  BY <1>3, <1>6, <1>7, <1>10 DEF Follows
<1>12. Calm(s, t)
  <2>1. \A i \in Active(t) : t.streams[i] = s.streams[i]
    BY <1>6, <1>7
  <2>2. \A i \in Ids : t.reason[i] = "no_error" =>
           \/ s.reason[i] = "no_error"
           \/ /\ i \in Active(s) /\ i \notin Active(t)
              /\ s.streams[i].rd /\ s.streams[i].wr
    <3> SUFFICES ASSUME NEW i \in Ids, t.reason[i] = "no_error", s.reason[i] # "no_error"
                 PROVE  /\ i \in Active(s) /\ i \notin Active(t)
                        /\ s.streams[i].rd /\ s.streams[i].wr
      OBVIOUS
    <3>1. i = id /\ error = "no_error"
      BY <1>3, <1>6
    <3> QED
      BY <1>7, <3>1
  <2> QED
    BY <1>6, <1>10, <2>1, <2>2 DEF Calm, IgnoresOnTerm
<1> QED
  BY <1>3, <1>6, <1>7, <1>9, <1>11, <1>12 DEF Keeps, Holds, Moved, t

LEMMA CloseStream ==
    ASSUME NEW s, SessionInv(s), NEW id \in Ids, NEW error \in Reasons, NEW R,
           error = "refused" => id \in R,
           error = "no_error" /\ Live(s, id) => s.streams[id].rd /\ s.streams[id].wr
    PROVE  /\ Keeps(s, nghttp2_session_close_stream(s, id, error), R)
           /\ Active(nghttp2_session_close_stream(s, id, error)) = Active(s) \ {id}
           /\ Live(s, id) => nghttp2_session_close_stream(s, id, error).reason[id] = error
<1> DEFINE t == nghttp2_session_close_stream(s, id, error)
<1>1. s \in Session
  BY DEF SessionInv
<1>2. CASE ~Live(s, id)
  <2>1. t = s
    BY <1>2 DEF nghttp2_session_close_stream
  <2>2. id \notin Active(s)
    BY <1>1, <1>2, ActiveFinite
  <2> QED
    BY <1>2, <2>1, <2>2, FollowsRefl
<1>3. ASSUME Live(s, id) PROVE id \in Active(s) /\ id \in DOMAIN s.streams
  BY <1>3 DEF Active, Live
<1>4. /\ s.streams \in [DOMAIN s.streams -> Stream] /\ DOMAIN s.streams \subseteq Ids
      /\ s.closed_q \in Seq(Ids)
  BY <1>1, MapsDef DEF Session
<1>5. CASE Live(s, id) /\ s.server
  <2> DEFINE st == [s.streams[id] EXCEPT !.closed = TRUE, !.item = "none"]
             m == [s.streams EXCEPT ![id] = st]
             q == Append(s.closed_q, id)
  <2>1. st \in Stream /\ st.closed
    BY <1>3, <1>4, <1>5 DEF Stream
  <2>2. t = ClosedIn(s, id, error, m, q)
    <3> DEFINE c == [s EXCEPT !.num = @ - 1, !.reason[id] = error]
    <3>1. t = [c EXCEPT !.streams[id].closed = TRUE, !.streams[id].item = "none",
                        !.closed_q = Append(@, id)]
      BY <1>5 DEF nghttp2_session_close_stream
    <3>2. c.streams = s.streams /\ c.closed_q = s.closed_q
      BY <1>1 DEF Session
    <3>3. t = [c EXCEPT !.streams = m, !.closed_q = q]
      <4> HIDE DEF c, t
      <4> QED BY <1>3, <1>4, <1>5, <3>1, <3>2
    <3> HIDE DEF t, m, q
    <3> QED BY <1>1, <3>3 DEF Session, ClosedIn
  <2> HIDE DEF st
  <2>3. m \in StreamMaps /\ DOMAIN m = DOMAIN s.streams
    BY <1>3, <1>4, <1>5, <2>1, MapsDef
  <2>4. OpenIn(m) = Active(s) \ {id} /\ \A i \in OpenIn(m) : m[i] = s.streams[i]
    BY <1>3, <1>4, <1>5, <2>1 DEF Active, OpenIn
  <2>5. q \in Seq(Ids)
        /\ \A i \in 1..Len(q) : q[i] \notin Active(s) \ {id} /\ q[i] <= s.last_proc
    BY <1>3, <1>4, <1>5 DEF SessionInv
  <2>6. Keeps(s, t, R) /\ Active(t) = Active(s) \ {id} /\ t.reason[id] = error
    <3> HIDE DEF m, q, t
    <3>1. /\ Keeps(s, ClosedIn(s, id, error, m, q), R)
          /\ Active(ClosedIn(s, id, error, m, q)) = Active(s) \ {id}
          /\ ClosedIn(s, id, error, m, q).reason[id] = error
      <4>1. id \in Active(s) /\ Without(s, id, m, q)
        BY <1>3, <1>5, <2>3, <2>4, <2>5 DEF Without
      <4> QED
        BY <1>5, <4>1, StreamClosed
    <3> QED BY <2>2, <3>1
  <2> QED
    BY <2>6
<1>6. CASE Live(s, id) /\ ~s.server
  <2> DEFINE m == [i \in DOMAIN s.streams \ {id} |-> s.streams[i]]
             q == s.closed_q
  <2>2. t = ClosedIn(s, id, error, m, q)
    BY <1>1, <1>6 DEF nghttp2_session_close_stream, Session, ClosedIn
  <2>3. m \in StreamMaps /\ DOMAIN m \subseteq DOMAIN s.streams
    BY <1>4, MapsDef
  <2>4. OpenIn(m) = Active(s) \ {id} /\ \A i \in OpenIn(m) : m[i] = s.streams[i]
    BY <1>4 DEF Active, OpenIn
  <2>5. q \in Seq(Ids)
        /\ \A i \in 1..Len(q) : q[i] \notin Active(s) \ {id} /\ q[i] <= s.last_proc
    BY <1>4 DEF SessionInv
  <2>6. Keeps(s, t, R) /\ Active(t) = Active(s) \ {id} /\ t.reason[id] = error
    <3> HIDE DEF m, q, t
    <3>1. /\ Keeps(s, ClosedIn(s, id, error, m, q), R)
          /\ Active(ClosedIn(s, id, error, m, q)) = Active(s) \ {id}
          /\ ClosedIn(s, id, error, m, q).reason[id] = error
      <4>1. id \in Active(s) /\ Without(s, id, m, q)
        BY <1>3, <1>6, <2>3, <2>4, <2>5 DEF Without
      <4> QED
        BY <1>6, <4>1, StreamClosed
    <3> QED BY <2>2, <3>1
  <2> QED
    BY <2>6
<1> QED
  BY <1>2, <1>5, <1>6

LEMMA CloseIfShut ==
    ASSUME NEW s, SessionInv(s), NEW id \in Ids, NEW R
    PROVE  /\ Keeps(s, nghttp2_session_close_stream_if_shut_rdwr(s, id), R)
           /\ Active(s) \ {id} \subseteq Active(nghttp2_session_close_stream_if_shut_rdwr(s, id))
<1>1. "no_error" \in Reasons /\ "no_error" # "refused"
  BY DEF Reasons
<1> QED
  BY <1>1, CloseStream, FollowsRefl DEF nghttp2_session_close_stream_if_shut_rdwr

\* session_close_stream_on_goaway is a fold over the streams above last.
LEMMA CloseOnGoaway ==
    ASSUME NEW s, SessionInv(s), NEW last \in Int, NEW R,
           \A id \in Active(s) : id > last => id \in R
    PROVE  /\ Keeps(s, session_close_stream_on_goaway(s, last), R)
           /\ \A id \in Active(session_close_stream_on_goaway(s, last)) : id <= last
<1> DEFINE S == {id \in Active(s) : id > last}
           V == {t \in Session : Keeps(s, t, R)}
           op(id, t) == nghttp2_session_close_stream(t, id, "refused")
           F == [x \in S |-> [t \in V |-> op(x, t)]]
           iter == CHOOSE h : h = [T \in SUBSET S |->
                                     IF T = {} THEN s ELSE op(Pick(T), h[T \ {Pick(T)}])]
           Q == {T \in SUBSET S : iter[T] \in V /\ Active(iter[T]) \cap T = {}}
<1>1. IsFiniteSet(S) /\ S \subseteq Ids /\ S \subseteq R
  <2>1. Active(s) \subseteq Ids /\ IsFiniteSet(Active(s))
    BY ActiveFinite DEF SessionInv
  <2> QED
    BY <2>1, FS_Subset
<1>2. s \in V
  BY FollowsRefl DEF SessionInv
<1>3. ASSUME NEW x \in S, NEW t \in V
      PROVE  op(x, t) \in V /\ Active(op(x, t)) = Active(t) \ {x}
  <2>1. SessionInv(t) /\ Keeps(s, t, R) /\ x \in Ids /\ x \in R /\ "refused" \in Reasons
    BY <1>1, <1>3 DEF Keeps, Holds, Moved, Reasons
  <2>2. Keeps(t, op(x, t), R) /\ Active(op(x, t)) = Active(t) \ {x}
    BY <2>1, CloseStream
  <2>3. Keeps(s, op(x, t), R)
    BY <2>1, <2>2, FollowsTrans
  <2> QED
    BY <2>2, <2>3 DEF Keeps, Holds, Moved, SessionInv
<1>4. F \in [S -> [V -> V]]
  <2> HIDE DEF op, S, V
  <2> QED BY <1>3
<1>5. PICK f \in [SUBSET S -> V] : IsFold(f, S, s, F)
  <2> HIDE DEF F, S, V
  <2> QED BY FoldExists, <1>1, <1>2, <1>4
<1>6. f = [T \in SUBSET S |-> IF T = {} THEN s ELSE op(Pick(T), f[T \ {Pick(T)}])]
  <2> HIDE DEF op, S, V
  <2> QED BY <1>5, PickIn DEF IsFold
<1>7. iter = [T \in SUBSET S |-> IF T = {} THEN s ELSE op(Pick(T), iter[T \ {Pick(T)}])]
  <2> HIDE DEF op, S
  <2> QED BY <1>6, Zenon
<1>8. session_close_stream_on_goaway(s, last) = iter[S]
  BY Zenon DEF session_close_stream_on_goaway, FoldSet, MapThenFoldSet, Pick
<1> HIDE DEF iter
<1>9. {} \in Q
  <2> HIDE DEF op, S, V
  <2> QED BY <1>2, <1>7
<1>10. ASSUME NEW T \in SUBSET S, T # {}, T \ {Pick(T)} \in Q PROVE T \in Q
  <2>1. Pick(T) \in T
    BY <1>10, PickIn
  <2> HIDE DEF op, S, V
  <2>2. iter[T] = op(Pick(T), iter[T \ {Pick(T)}])
    BY <1>7, <1>10
  <2>3. iter[T] \in V /\ Active(iter[T]) = Active(iter[T \ {Pick(T)}]) \ {Pick(T)}
    BY <1>3, <1>10, <2>1, <2>2
  <2> QED
    BY <1>10, <2>3
<1>11. S \in Q
  <2> HIDE DEF Q, S
  <2> QED BY <1>1, <1>9, <1>10, PickInduction
<1>12. iter[S] \in V /\ Active(iter[S]) \cap S = {}
  <2> HIDE DEF V, S
  <2> QED BY <1>11
<1>13. Keeps(s, iter[S], R) /\ Active(iter[S]) \subseteq Active(s)
  BY <1>12 DEF Keeps, Holds, Moved, Follows
<1>14. \A id \in Active(iter[S]) : id \in Ids /\ ~(id > last)
  BY <1>1, <1>12, <1>13, ActiveFinite DEF SessionInv
<1> QED
  BY <1>8, <1>13, <1>14 DEF Ids

-----------------------------------------------------------------------------
(* Flow control and the states of streams.                                 *)

\* One window, flag or state of a stream is set.
LEMMA FieldEdited ==
    ASSUME NEW s \in Session, NEW id \in DOMAIN s.streams
    PROVE  /\ \A n \in Int : Quiet(s, [s EXCEPT !.streams[id].remote_win = n])
           /\ \A n \in Int : Quiet(s, [s EXCEPT !.streams[id].local_win = n])
           /\ \A n \in Int : Quiet(s, [s EXCEPT !.streams[id].recv_win = n])
           /\ \A n \in Int : Quiet(s, [s EXCEPT !.streams[id].consumed = n])
           /\ \A b \in BOOLEAN : Quiet(s, [s EXCEPT !.streams[id].wuq = b])
           /\ \A i \in {"none", "ready", "deferred"} : Quiet(s, [s EXCEPT !.streams[id].item = i])
           /\ \A n, k \in Int : Quiet(s, [s EXCEPT !.streams[id].recv_win = n,
                                                  !.streams[id].consumed = k])
<1> DEFINE x == s.streams[id]
           E(st) == [s EXCEPT !.streams[id] = st]
<1>1. x \in Stream
  BY StreamType
<1>2. ASSUME NEW st \in Stream, st.closed = x.closed, st.rd = x.rd, st.wr = x.wr,
             st.state = x.state
      PROVE  Quiet(s, E(st))
  BY <1>2, StreamEdited
<1>3. ASSUME NEW n \in Int PROVE Quiet(s, E([x EXCEPT !.remote_win = n]))
  <2> DEFINE y == [x EXCEPT !.remote_win = n]
  <2>1. y \in Stream /\ y.closed = x.closed /\ y.rd = x.rd /\ y.wr = x.wr /\ y.state = x.state
    BY <1>1 DEF Stream
  <2> HIDE DEF y
  <2>2. Quiet(s, E(y))
    BY <1>2, <2>1
  <2> QED BY <2>2 DEF y
<1>4. ASSUME NEW n \in Int PROVE Quiet(s, E([x EXCEPT !.local_win = n]))
  <2> DEFINE y == [x EXCEPT !.local_win = n]
  <2>1. y \in Stream /\ y.closed = x.closed /\ y.rd = x.rd /\ y.wr = x.wr /\ y.state = x.state
    BY <1>1 DEF Stream
  <2> HIDE DEF y
  <2>2. Quiet(s, E(y))
    BY <1>2, <2>1
  <2> QED BY <2>2 DEF y
<1>5. ASSUME NEW n \in Int PROVE Quiet(s, E([x EXCEPT !.recv_win = n]))
  <2> DEFINE y == [x EXCEPT !.recv_win = n]
  <2>1. y \in Stream /\ y.closed = x.closed /\ y.rd = x.rd /\ y.wr = x.wr /\ y.state = x.state
    BY <1>1 DEF Stream
  <2> HIDE DEF y
  <2>2. Quiet(s, E(y))
    BY <1>2, <2>1
  <2> QED BY <2>2 DEF y
<1>6. ASSUME NEW n \in Int PROVE Quiet(s, E([x EXCEPT !.consumed = n]))
  <2> DEFINE y == [x EXCEPT !.consumed = n]
  <2>1. y \in Stream /\ y.closed = x.closed /\ y.rd = x.rd /\ y.wr = x.wr /\ y.state = x.state
    BY <1>1 DEF Stream
  <2> HIDE DEF y
  <2>2. Quiet(s, E(y))
    BY <1>2, <2>1
  <2> QED BY <2>2 DEF y
<1>7. ASSUME NEW b \in BOOLEAN PROVE Quiet(s, E([x EXCEPT !.wuq = b]))
  <2> DEFINE y == [x EXCEPT !.wuq = b]
  <2>1. y \in Stream /\ y.closed = x.closed /\ y.rd = x.rd /\ y.wr = x.wr /\ y.state = x.state
    BY <1>1 DEF Stream
  <2> HIDE DEF y
  <2>2. Quiet(s, E(y))
    BY <1>2, <2>1
  <2> QED BY <2>2 DEF y
<1>8. ASSUME NEW i \in {"none", "ready", "deferred"} PROVE Quiet(s, E([x EXCEPT !.item = i]))
  <2> DEFINE y == [x EXCEPT !.item = i]
  <2>1. y \in Stream /\ y.closed = x.closed /\ y.rd = x.rd /\ y.wr = x.wr /\ y.state = x.state
    BY <1>1 DEF Stream
  <2> HIDE DEF y
  <2>2. Quiet(s, E(y))
    BY <1>2, <2>1
  <2> QED BY <2>2 DEF y
<1>9. ASSUME NEW n \in Int, NEW k \in Int
       PROVE  Quiet(s, [s EXCEPT !.streams[id].recv_win = n, !.streams[id].consumed = k])
  <2> DEFINE y == [x EXCEPT !.recv_win = n, !.consumed = k]
  <2>1. y \in Stream /\ y.closed = x.closed /\ y.rd = x.rd /\ y.wr = x.wr /\ y.state = x.state
    BY <1>1 DEF Stream
  <2>2. [s EXCEPT !.streams[id].recv_win = n, !.streams[id].consumed = k] = E(y)
    OBVIOUS
  <2> HIDE DEF y
  <2>3. Quiet(s, E(y))
    BY <1>2, <2>1
  <2> QED
    BY <2>2, <2>3
<1> QED
  BY <1>3, <1>4, <1>5, <1>6, <1>7, <1>8, <1>9

\* A half of a stream is shut, or its HEADERS was written.
LEMMA HalfEdited ==
    ASSUME NEW s \in Session, NEW id \in DOMAIN s.streams, NEW st \in Stream,
           st.closed = s.streams[id].closed, NEW t, t = [s EXCEPT !.streams[id] = st], NEW R,
           SessionInv(s)
    PROVE  /\ Retouched(s, t) /\ t.streams[id] = st
           /\ \A i \in DOMAIN s.streams \ {id} : t.streams[i] = s.streams[i]
           /\ Holds(s, t, R) /\ DOMAIN t.streams = DOMAIN s.streams
           /\ Active(t) = Active(s)
<1>1. /\ Retouched(s, t) /\ t.streams[id] = st
      /\ \A i \in DOMAIN s.streams \ {id} : t.streams[i] = s.streams[i]
  BY StreamEdited
<1>2. Active(t) = Active(s) /\ DOMAIN t.streams = DOMAIN s.streams
  BY <1>1 DEF Retouched, Active
<1> QED
  BY <1>1, <1>2, RetouchedHolds

LEMMA ConnectionEdited ==
    ASSUME NEW s \in Session
    PROVE  /\ \A n \in Int : Quiet(s, [s EXCEPT !.remote_win = n])
           /\ \A n \in Int : Quiet(s, [s EXCEPT !.recv_win = n])
           /\ \A n \in Int : Quiet(s, [s EXCEPT !.consumed = n])
           /\ \A n, k \in Int : Quiet(s, [s EXCEPT !.recv_win = n, !.consumed = k])
           /\ \A b \in BOOLEAN : Quiet(s, [s EXCEPT !.wuq = b])
           /\ \A n \in Int : Quiet(s, [s EXCEPT !.ratelim = n])
<1>1. ASSUME NEW n \in Int PROVE Quiet(s, [s EXCEPT !.remote_win = n])
  BY DEF Session, Quiet, Retouched, IgnoresOnTerm
<1>2. ASSUME NEW n \in Int PROVE Quiet(s, [s EXCEPT !.recv_win = n])
  BY DEF Session, Quiet, Retouched, IgnoresOnTerm
<1>3. ASSUME NEW n \in Int PROVE Quiet(s, [s EXCEPT !.consumed = n])
  BY DEF Session, Quiet, Retouched, IgnoresOnTerm
<1>4. ASSUME NEW n \in Int, NEW k \in Int PROVE Quiet(s, [s EXCEPT !.recv_win = n, !.consumed = k])
  BY DEF Session, Quiet, Retouched, IgnoresOnTerm
<1>5. ASSUME NEW b \in BOOLEAN PROVE Quiet(s, [s EXCEPT !.wuq = b])
  BY DEF Session, Quiet, Retouched, IgnoresOnTerm
<1>6. ASSUME NEW n \in Int PROVE Quiet(s, [s EXCEPT !.ratelim = n])
  BY DEF Session, Quiet, Retouched, IgnoresOnTerm
<1> QED
  BY <1>1, <1>2, <1>3, <1>4, <1>5, <1>6

LEMMA WindowTypes ==
    ASSUME NEW s \in Session
    PROVE  s.remote_win \in Int /\ s.local_win \in Int /\ s.recv_win \in Int /\ s.consumed \in Int
  BY DEF Session

LEMMA CreditType ==
    ASSUME NEW r, NEW size \in Int PROVE Credit(r, size) \in Int
  BY DEF Credit

LEMMA RecvConnection ==
    ASSUME NEW s, SessionInv(s), NEW delta \in Int, NEW R
    PROVE  /\ Keeps(s, nghttp2_session_update_recv_connection_window_size(s, delta), R)
           /\ DOMAIN nghttp2_session_update_recv_connection_window_size(s, delta).streams
                = DOMAIN s.streams
<1> DEFINE t == [s EXCEPT !.recv_win = @ + delta]
           n == IF NoAutoWindowUpdate THEN 0 ELSE Credit(t, t.recv_win)
           w == nghttp2_session_add_window_update(t, 0, n)
           y == nghttp2_session_update_recv_connection_window_size(s, delta)
<1>1. s \in Session
  BY DEF SessionInv
<1>2. Quiet(s, t)
  <2>1. s.recv_win + delta \in Int
    BY <1>1, WindowTypes
  <2> QED
    BY <1>1, <2>1, ConnectionEdited
<1>3. Keeps(s, t, R) /\ t \in Session /\ DOMAIN t.streams = DOMAIN s.streams
  <2> HIDE DEF t
  <2> QED BY <1>2, QuietKeeps DEF Quiet, Retouched
<1>4. n \in Int
  <2> HIDE DEF t
  <2> QED BY <1>3, CreditType, WindowTypes
<1>5. CASE OverWindow(s, delta)
  <2>1. y = nghttp2_session_terminate_session(s, "flow_control")
    BY <1>5 DEF nghttp2_session_update_recv_connection_window_size
  <2> QED
    BY <2>1, TerminateKept
<1>6. CASE ~OverWindow(s, delta) /\ n = 0
  <2>1. y = t
    BY <1>6 DEF nghttp2_session_update_recv_connection_window_size
  <2> QED
    BY <1>3, <2>1
<1>7. CASE ~OverWindow(s, delta) /\ n # 0
  <2>1. y = [w EXCEPT !.recv_win = 0]
    BY <1>7, Zenon DEF nghttp2_session_update_recv_connection_window_size
  <2> HIDE DEF t, n
  <2>2. Keeps(t, w, R) /\ DOMAIN w.streams = DOMAIN t.streams
    BY <1>3, <1>4, AddWindowUpdate DEF Keeps, Holds, Moved
  <2> HIDE DEF w, y
  <2>3. w \in Session
    BY <2>2 DEF Keeps, Holds, Moved, SessionInv
  <2>4. Quiet(w, [w EXCEPT !.recv_win = 0])
    <3>1. 0 \in Int
      OBVIOUS
    <3> QED
      BY <2>3, <3>1, ConnectionEdited, Zenon
  <2>5. Keeps(w, y, R) /\ DOMAIN y.streams = DOMAIN w.streams
    BY <2>1, <2>2, <2>4, QuietKeeps DEF Keeps, Holds, Moved, Quiet, Retouched
  <2>6. Keeps(s, w, R)
    BY <1>3, <2>2, FollowsTrans
  <2>7. Keeps(s, y, R)
    BY <2>5, <2>6, FollowsTrans
  <2> QED
    BY <1>3, <2>2, <2>5, <2>7 DEF y
<1> QED
  BY <1>5, <1>6, <1>7

LEMMA StreamTypes ==
    ASSUME NEW s \in Session, NEW id \in DOMAIN s.streams
    PROVE  /\ s.streams[id].remote_win \in Int /\ s.streams[id].local_win \in Int
           /\ s.streams[id].recv_win \in Int /\ s.streams[id].consumed \in Int
           /\ s.streams[id].wr \in BOOLEAN /\ id \in Ids
  BY StreamType DEF Stream

LEMMA RecvStream ==
    ASSUME NEW s, SessionInv(s), NEW id \in DOMAIN s.streams, NEW delta \in Int, NEW send, NEW R
    PROVE  /\ Keeps(s, nghttp2_session_update_recv_stream_window_size(s, id, delta, send), R)
           /\ DOMAIN nghttp2_session_update_recv_stream_window_size(s, id, delta, send).streams
                = DOMAIN s.streams
<1> DEFINE t == [s EXCEPT !.streams[id].recv_win = @ + delta]
           n == IF NoAutoWindowUpdate \/ ~send THEN 0
                ELSE Credit(t.streams[id], t.streams[id].recv_win)
           w == nghttp2_session_add_window_update(t, id, n)
           y == nghttp2_session_update_recv_stream_window_size(s, id, delta, send)
<1>1. s \in Session /\ id \in Ids
  BY StreamType DEF SessionInv
<1>2. Quiet(s, t)
  <2>1. s.streams[id].recv_win + delta \in Int
    BY <1>1, StreamTypes
  <2> QED
    BY <1>1, <2>1, FieldEdited, Zenon
<1>3. Keeps(s, t, R) /\ t \in Session /\ DOMAIN t.streams = DOMAIN s.streams
  <2> HIDE DEF t
  <2> QED BY <1>2, QuietKeeps DEF Quiet, Retouched
<1>4. n \in Int
  <2> HIDE DEF t
  <2> QED BY <1>3, CreditType, StreamTypes
<1>5. CASE OverWindow(s.streams[id], delta)
  <2>1. y = nghttp2_session_add_rst_stream(s, id, "flow_control")
    BY <1>5 DEF nghttp2_session_update_recv_stream_window_size
  <2>2. "flow_control" \in Faults \ {"refused"}
    BY DEF Reasons, Faults
  <2> QED
    BY <1>1, <2>1, <2>2, AddRstStream
<1>6. CASE ~OverWindow(s.streams[id], delta) /\ n = 0
  <2>1. y = t
    BY <1>6, Zenon DEF nghttp2_session_update_recv_stream_window_size
  <2> QED
    BY <1>3, <2>1
<1>7. CASE ~OverWindow(s.streams[id], delta) /\ n # 0
  <2>1. y = [w EXCEPT !.streams[id].recv_win = 0]
    BY <1>7, Zenon DEF nghttp2_session_update_recv_stream_window_size
  <2> HIDE DEF t, n
  <2>2. Keeps(t, w, R) /\ DOMAIN w.streams = DOMAIN t.streams
    BY <1>1, <1>3, <1>4, AddWindowUpdate DEF Keeps, Holds, Moved
  <2> HIDE DEF w, y
  <2>3. w \in Session /\ id \in DOMAIN w.streams /\ 0 \in Int
    BY <1>3, <2>2 DEF Keeps, Holds, Moved, SessionInv
  <2>4. Quiet(w, y)
    BY <2>1, <2>3, FieldEdited, Zenon
  <2>5. Keeps(s, w, R)
    BY <1>3, <2>2, FollowsTrans
  <2>6. Keeps(s, y, R) /\ DOMAIN y.streams = DOMAIN w.streams
    BY <2>4, <2>5, KeepsQuiet
  <2> QED
    BY <1>3, <2>2, <2>6 DEF y
<1> QED
  BY <1>5, <1>6, <1>7

LEMMA ConsumedConnection ==
    ASSUME NEW s, SessionInv(s), NEW delta \in Int, NEW R
    PROVE  /\ Keeps(s, session_update_connection_consumed_size(s, delta), R)
           /\ DOMAIN session_update_connection_consumed_size(s, delta).streams = DOMAIN s.streams
<1> DEFINE t == [s EXCEPT !.consumed = @ + delta]
           n == Credit(t, LeastOf(t.consumed, t.recv_win))
           w == nghttp2_session_add_window_update(t, 0, n)
           y == session_update_connection_consumed_size(s, delta)
<1>1. s \in Session
  BY DEF SessionInv
<1>2. Quiet(s, t)
  <2>1. s.consumed + delta \in Int
    BY <1>1, WindowTypes
  <2> QED
    BY <1>1, <2>1, ConnectionEdited, Zenon
<1>3. Keeps(s, t, R) /\ t \in Session /\ DOMAIN t.streams = DOMAIN s.streams
  <2> HIDE DEF t
  <2> QED BY <1>2, QuietKeeps DEF Quiet, Retouched
<1>4. n \in Int
  <2> HIDE DEF t
  <2> QED BY <1>3, CreditType, WindowTypes, Least
<1>5. CASE s.consumed > MaxWindow - delta
  <2>1. y = nghttp2_session_terminate_session(s, "flow_control")
    BY <1>5 DEF session_update_connection_consumed_size
  <2> QED
    BY <2>1, TerminateKept
<1>6. CASE ~(s.consumed > MaxWindow - delta) /\ n = 0
  <2>1. y = t
    BY <1>6, Zenon DEF session_update_connection_consumed_size
  <2> QED
    BY <1>3, <2>1
<1>7. CASE ~(s.consumed > MaxWindow - delta) /\ n # 0
  <2>1. y = [w EXCEPT !.recv_win = @ - n, !.consumed = @ - n]
    BY <1>7, Zenon DEF session_update_connection_consumed_size
  <2> HIDE DEF t, n
  <2>2. Keeps(t, w, R) /\ DOMAIN w.streams = DOMAIN t.streams
    BY <1>3, <1>4, AddWindowUpdate DEF Keeps, Holds, Moved
  <2> HIDE DEF w, y
  <2>3. w \in Session
    BY <2>2 DEF Keeps, Holds, Moved, SessionInv
  <2>4. w.recv_win - n \in Int /\ w.consumed - n \in Int
    BY <1>4, <2>3, WindowTypes
  <2>5. Quiet(w, y)
    BY <2>1, <2>3, <2>4, ConnectionEdited, Zenon
  <2>6. Keeps(s, w, R)
    BY <1>3, <2>2, FollowsTrans
  <2>7. Keeps(s, y, R) /\ DOMAIN y.streams = DOMAIN w.streams
    BY <2>5, <2>6, KeepsQuiet
  <2> QED
    BY <1>3, <2>2, <2>7 DEF y
<1> QED
  BY <1>5, <1>6, <1>7

LEMMA ConsumedStream ==
    ASSUME NEW s, SessionInv(s), NEW id \in DOMAIN s.streams, NEW delta \in Int, NEW R
    PROVE  /\ Keeps(s, session_update_stream_consumed_size(s, id, delta), R)
           /\ DOMAIN session_update_stream_consumed_size(s, id, delta).streams = DOMAIN s.streams
<1> DEFINE t == [s EXCEPT !.streams[id].consumed = @ + delta]
           r == t.streams[id]
           n == Credit(r, LeastOf(r.consumed, r.recv_win))
           w == nghttp2_session_add_window_update(t, id, n)
           y == session_update_stream_consumed_size(s, id, delta)
<1>1. s \in Session /\ id \in Ids
  BY StreamType DEF SessionInv
<1>2. Quiet(s, t)
  <2>1. s.streams[id].consumed + delta \in Int
    BY <1>1, StreamTypes
  <2> QED
    BY <1>1, <2>1, FieldEdited, Zenon
<1>3. Keeps(s, t, R) /\ t \in Session /\ DOMAIN t.streams = DOMAIN s.streams
  <2> HIDE DEF t
  <2> QED BY <1>2, QuietKeeps DEF Quiet, Retouched
<1>4. n \in Int
  <2> HIDE DEF t
  <2> QED BY <1>3, CreditType, StreamTypes, Least
<1>5. CASE s.streams[id].consumed > MaxWindow - delta
  <2>1. y = nghttp2_session_terminate_session(s, "flow_control")
    BY <1>5 DEF session_update_stream_consumed_size
  <2> QED
    BY <2>1, TerminateKept
<1>6. CASE ~(s.streams[id].consumed > MaxWindow - delta) /\ n = 0
  <2>1. y = t
    BY <1>6, Zenon DEF session_update_stream_consumed_size
  <2> QED
    BY <1>3, <2>1
<1>7. CASE ~(s.streams[id].consumed > MaxWindow - delta) /\ n # 0
  <2>1. y = [w EXCEPT !.streams[id].recv_win = @ - n, !.streams[id].consumed = @ - n]
    BY <1>7, Zenon DEF session_update_stream_consumed_size
  <2> HIDE DEF t, n, r
  <2>2. Keeps(t, w, R) /\ DOMAIN w.streams = DOMAIN t.streams
    BY <1>1, <1>3, <1>4, AddWindowUpdate DEF Keeps, Holds, Moved
  <2> HIDE DEF w, y
  <2>3. w \in Session /\ id \in DOMAIN w.streams
    BY <1>3, <2>2 DEF Keeps, Holds, Moved, SessionInv
  <2>4. w.streams[id].recv_win - n \in Int /\ w.streams[id].consumed - n \in Int
    BY <1>4, <2>3, StreamTypes
  <2>5. Quiet(w, y)
    BY <2>1, <2>3, <2>4, FieldEdited, Zenon
  <2>6. Keeps(s, w, R)
    BY <1>3, <2>2, FollowsTrans
  <2>7. Keeps(s, y, R) /\ DOMAIN y.streams = DOMAIN w.streams
    BY <2>5, <2>6, KeepsQuiet
  <2> QED
    BY <1>3, <2>2, <2>7 DEF y
<1> QED
  BY <1>5, <1>6, <1>7

LEMMA ConsumeKept ==
    ASSUME NEW s, SessionInv(s), NEW id \in Ids, NEW size \in Int, NEW R
    PROVE  Keeps(s, nghttp2_session_consume(s, id, size), R)
<1> DEFINE t == session_update_connection_consumed_size(s, size)
           u == session_update_stream_consumed_size(t, id, size)
<1>1. Keeps(s, t, R)
  BY ConsumedConnection
<1>2. nghttp2_session_consume(s, id, size) = IF Live(t, id) THEN u ELSE t
  BY DEF nghttp2_session_consume
<1>3. ASSUME Live(t, id) PROVE Keeps(t, u, R)
  <2> HIDE DEF t
  <2> QED BY <1>1, <1>3, ConsumedStream DEF Keeps, Holds, Moved, Live
<1> HIDE DEF t, u
<1> QED
  BY <1>1, <1>2, <1>3, FollowsTrans

-----------------------------------------------------------------------------
(* A frame was sent.                                                       *)

LEMMA AttachKept ==
    ASSUME NEW s, SessionInv(s), NEW id \in Ids, NEW R PROVE Keeps(s, AttachData(s, id), R)
<1>1. s \in Session
  BY DEF SessionInv
<1>2. CASE Live(s, id) /\ s.streams[id].item = "none"
  <2>1. id \in DOMAIN s.streams
    BY <1>2 DEF Live
  <2>2. Quiet(s, [s EXCEPT !.streams[id].item = "ready"])
    BY <1>1, <2>1, FieldEdited
  <2> QED
    BY <1>2, <2>2, QuietKeeps DEF AttachData
<1>3. CASE ~(Live(s, id) /\ s.streams[id].item = "none")
  BY <1>3, FollowsRefl DEF AttachData
<1> QED
  BY <1>2, <1>3

\* The stream id of s with its sending half as after HEADERS, or after the last DATA.
Headed(s, id, end) ==
    [s EXCEPT !.streams[id].state = IF s.server THEN "opened" ELSE "opening",
              !.streams[id].wr = @ \/ end]
Drained(s, id) == [s EXCEPT !.streams[id].item = "none", !.streams[id].wr = TRUE]

LEMMA HeadedKept ==
    ASSUME NEW s, SessionInv(s), NEW id \in DOMAIN s.streams, NEW end \in BOOLEAN, NEW R
    PROVE  LET t == Headed(s, id, end)
           IN  /\ Holds(s, t, R) /\ Retouched(s, t) /\ Active(t) = Active(s)
               /\ \A i \in DOMAIN s.streams \ {id} : t.streams[i] = s.streams[i]
               /\ t.streams[id].state # "closing" /\ t.streams[id].rd = s.streams[id].rd
               /\ t.streams[id].wr <=> s.streams[id].wr \/ end
<1> DEFINE e == IF s.server THEN "opened" ELSE "opening"
           b == s.streams[id].wr \/ end
           st == [s.streams[id] EXCEPT !.state = e, !.wr = b]
           t == Headed(s, id, end)
<1>1. s \in Session /\ s.streams[id] \in Stream
  BY StreamType DEF SessionInv
<1>2. e \in {"opening", "opened"} /\ b \in BOOLEAN
  BY <1>1 DEF Stream
<1>3. t = [s EXCEPT !.streams[id] = st]
  BY DEF Headed
<1> HIDE DEF e, b, t
<1>4. /\ st \in Stream /\ st.closed = s.streams[id].closed /\ st.rd = s.streams[id].rd
      /\ st.wr = b /\ st.state = e
  BY <1>1, <1>2 DEF Stream
<1> HIDE DEF st
<1>5. /\ Retouched(s, t) /\ t.streams[id] = st
      /\ \A i \in DOMAIN s.streams \ {id} : t.streams[i] = s.streams[i]
      /\ Holds(s, t, R) /\ Active(t) = Active(s)
  BY <1>1, <1>3, <1>4, HalfEdited
<1>6. t.streams[id].state # "closing"
  BY <1>2, <1>4, <1>5
<1> QED
  BY <1>4, <1>5, <1>6 DEF t, b

LEMMA AfterHeadersKept ==
    ASSUME NEW s, SessionInv(s), NEW f, f.id \in Ids, f.end \in BOOLEAN, NEW R
    PROVE  /\ Holds(s, AfterHeaders(s, f), R)
           /\ ~Live(s, f.id) => AfterHeaders(s, f) = s
           /\ Live(s, f.id) => Keeps(Headed(s, f.id, f.end), AfterHeaders(s, f), R)
<1> DEFINE t == Headed(s, f.id, f.end)
           c == nghttp2_session_close_stream_if_shut_rdwr(t, f.id)
           d == AttachData(c, f.id)
<1>1. s \in Session
  BY DEF SessionInv
<1>2. CASE ~Live(s, f.id)
  BY <1>2, FollowsRefl DEF AfterHeaders, Keeps
<1>3. CASE Live(s, f.id)
  <2>1. f.id \in DOMAIN s.streams
    BY <1>3 DEF Live
  <2>5. Holds(s, t, R)
    BY <2>1, HeadedKept
  <2>6. AfterHeaders(s, f) = IF f.end THEN c ELSE d
    BY <1>3, Zenon DEF AfterHeaders, Headed
  <2> HIDE DEF t
  <2>7. Keeps(t, c, R)
    BY <2>5, CloseIfShut DEF Holds, Moved
  <2> HIDE DEF c
  <2>8. Keeps(c, d, R)
    BY <2>7, AttachKept DEF Keeps, Holds, Moved
  <2> HIDE DEF d
  <2>9. Keeps(t, d, R)
    BY <2>5, <2>7, <2>8, FollowsTrans DEF Holds, Moved
  <2>10. Holds(s, c, R) /\ Holds(s, d, R)
    BY <2>5, <2>7, <2>9, HoldsTrans DEF Keeps
  <2> QED
    BY <1>3, <2>6, <2>7, <2>9, <2>10 DEF t
<1> QED
  BY <1>2, <1>3

LEMMA DrainedKept ==
    ASSUME NEW s, SessionInv(s), NEW id \in DOMAIN s.streams, NEW R
    PROVE  LET t == Drained(s, id)
           IN  /\ Holds(s, t, R) /\ Retouched(s, t) /\ Active(t) = Active(s)
               /\ \A i \in DOMAIN s.streams \ {id} : t.streams[i] = s.streams[i]
               /\ t.streams[id].state = s.streams[id].state
               /\ t.streams[id].rd = s.streams[id].rd /\ t.streams[id].wr
<1> DEFINE st == [s.streams[id] EXCEPT !.item = "none", !.wr = TRUE]
           t == Drained(s, id)
<1>1. s \in Session /\ s.streams[id] \in Stream
  BY StreamType DEF SessionInv
<1>2. t = [s EXCEPT !.streams[id] = st]
  BY DEF Drained
<1> HIDE DEF t
<1>3. /\ st \in Stream /\ st.closed = s.streams[id].closed /\ st.rd = s.streams[id].rd
      /\ st.wr = TRUE /\ st.state = s.streams[id].state
  BY <1>1 DEF Stream
<1> HIDE DEF st
<1>4. /\ Retouched(s, t) /\ t.streams[id] = st
      /\ \A i \in DOMAIN s.streams \ {id} : t.streams[i] = s.streams[i]
      /\ Holds(s, t, R) /\ Active(t) = Active(s)
  BY <1>1, <1>2, <1>3, HalfEdited
<1> QED
  BY <1>3, <1>4 DEF t

LEMMA AfterDataKept ==
    ASSUME NEW s, SessionInv(s), NEW f, f.id \in Ids, f.len \in Int, NEW R
    PROVE  /\ Holds(s, AfterData(s, f), R)
           /\ ~Live(s, f.id) \/ ~f.end => Keeps(s, AfterData(s, f), R)
           /\ Live(s, f.id) /\ f.end =>
                 \E u : /\ Quiet(s, u) /\ f.id \in DOMAIN u.streams
                       /\ Keeps(Drained(u, f.id), AfterData(s, f), R)
<1> DEFINE t == [s EXCEPT !.remote_win = @ - f.len]
           u == [t EXCEPT !.streams[f.id].remote_win = @ - f.len]
           e == Drained(u, f.id)
           c == nghttp2_session_close_stream_if_shut_rdwr(e, f.id)
           d == [u EXCEPT !.streams[f.id].item = "none"]
<1>1. s \in Session
  BY DEF SessionInv
<1>2. Quiet(s, t)
  <2>1. s.remote_win - f.len \in Int
    BY <1>1, WindowTypes
  <2> QED
    BY <1>1, <2>1, ConnectionEdited, Zenon
<1>3. Keeps(s, t, R) /\ t \in Session /\ DOMAIN t.streams = DOMAIN s.streams
      /\ Active(t) = Active(s)
  <2> HIDE DEF t
  <2> QED BY <1>2, QuietKeeps DEF Quiet, Retouched, Active
<1>4. AfterData(s, f) = IF ~Live(s, f.id) THEN t
                        ELSE IF f.end THEN c
                        ELSE IF nghttp2_session_predicate_data_send(u, f.id) THEN u ELSE d
  BY Zenon DEF AfterData, Drained
<1> HIDE DEF t
<1>5. CASE ~Live(s, f.id)
  BY <1>3, <1>4, <1>5 DEF Keeps
<1>6. CASE Live(s, f.id)
  <2>1. f.id \in DOMAIN t.streams
    BY <1>3, <1>6 DEF Live
  <2>2. t.streams[f.id].remote_win - f.len \in Int
    BY <1>3, <2>1, StreamTypes
  <2>3. Quiet(t, u)
    BY <1>3, <2>1, <2>2, FieldEdited, Zenon
  <2> HIDE DEF u
  <2>4. Keeps(s, u, R) /\ f.id \in DOMAIN u.streams /\ u \in Session /\ SessionInv(u)
    BY <1>3, <2>1, <2>3, KeepsQuiet DEF Keeps, Holds, Moved, SessionInv
  <2>5. Quiet(u, d) /\ Holds(u, e, R)
    BY <2>4, FieldEdited, DrainedKept
  <2> HIDE DEF e, d
  <2>6. Keeps(s, d, R)
    BY <2>4, <2>5, KeepsQuiet
  <2>7. Keeps(e, c, R)
    BY <2>5, CloseIfShut DEF Holds, Moved
  <2> HIDE DEF c
  <2>8. Holds(s, c, R) /\ Holds(s, u, R) /\ Holds(s, d, R)
    BY <2>4, <2>5, <2>6, <2>7, HoldsTrans DEF Keeps
  <2>9. Quiet(s, u)
    BY <1>2, <2>3, QuietTrans
  <2>10. CASE f.end
    <3>1. AfterData(s, f) = c
      BY <1>4, <1>6, <2>10
    <3> QED
      BY <1>6, <2>4, <2>7, <2>8, <2>9, <2>10, <3>1 DEF e
  <2>11. CASE ~f.end
    <3>1. AfterData(s, f) \in {u, d}
      BY <1>4, <1>6, <2>11
    <3> QED
      BY <2>4, <2>6, <2>8, <2>11, <3>1
  <2> QED
    BY <2>10, <2>11
<1> QED
  BY <1>5, <1>6

LEMMA AfterUpdateKept ==
    ASSUME NEW s, SessionInv(s), NEW f \in UpdateFrames, NEW R
    PROVE  Keeps(s, AfterWindowUpdate(s, f), R)
<1> DEFINE y == AfterWindowUpdate(s, f)
<1>1. s \in Session /\ f.id \in Ids \cup {0} /\ 0 \in Int
  BY DEF SessionInv, UpdateFrames
<1>2. CASE f.id = 0
  <2> DEFINE t == [s EXCEPT !.wuq = FALSE]
  <2>1. Quiet(s, t)
    BY <1>1, ConnectionEdited
  <2>2. y = IF NoAutoWindowUpdate THEN session_update_connection_consumed_size(t, 0)
            ELSE nghttp2_session_update_recv_connection_window_size(t, 0)
    BY <1>2, Zenon DEF AfterWindowUpdate
  <2> HIDE DEF t, y
  <2>3. Keeps(s, t, R)
    BY <2>1, QuietKeeps
  <2>4. Keeps(t, session_update_connection_consumed_size(t, 0), R)
    BY <1>1, <2>3, ConsumedConnection DEF Keeps, Holds, Moved
  <2>5. Keeps(t, nghttp2_session_update_recv_connection_window_size(t, 0), R)
    BY <1>1, <2>3, RecvConnection DEF Keeps, Holds, Moved
  <2>6. Keeps(t, y, R)
    BY <2>2, <2>4, <2>5
  <2>7. Keeps(s, y, R)
    BY <2>3, <2>6, FollowsTrans
  <2> QED
    BY <2>7 DEF y
<1>3. CASE f.id # 0 /\ ~Live(s, f.id)
  BY <1>3, FollowsRefl DEF AfterWindowUpdate
<1>4. CASE f.id # 0 /\ Live(s, f.id)
  <2> DEFINE t == [s EXCEPT !.streams[f.id].wuq = FALSE]
             a == session_update_stream_consumed_size(t, f.id, 0)
             b == nghttp2_session_update_recv_stream_window_size(t, f.id, 0, TRUE)
  <2>1. f.id \in DOMAIN s.streams
    BY <1>4 DEF Live
  <2>2. Quiet(s, t)
    BY <1>1, <2>1, FieldEdited
  <2>3. y = IF s.streams[f.id].rd THEN t ELSE IF NoAutoWindowUpdate THEN a ELSE b
    BY <1>4, Zenon DEF AfterWindowUpdate
  <2> HIDE DEF t, y
  <2>4. Keeps(s, t, R) /\ f.id \in DOMAIN t.streams
    BY <2>1, <2>2, QuietKeeps DEF Quiet, Retouched
  <2>5. Keeps(t, a, R)
    BY <1>1, <2>4, ConsumedStream DEF Keeps, Holds, Moved
  <2>6. Keeps(t, b, R)
    BY <1>1, <2>4, RecvStream DEF Keeps, Holds, Moved
  <2> HIDE DEF a, b
  <2>7. Keeps(s, a, R) /\ Keeps(s, b, R)
    BY <2>4, <2>5, <2>6, FollowsTrans
  <2>8. Keeps(s, y, R)
    BY <2>3, <2>4, <2>7
  <2> QED
    BY <2>8 DEF y
<1> QED
  BY <1>2, <1>3, <1>4

\* The flag of a GOAWAY that is out, apart from what is closed then.
GoawayOut(s, f) ==
    [s EXCEPT !.goaway = @ \cup {"sent"} \cup (IF f.aux = "term" THEN {"term_sent"} ELSE {})]

LEMMA AfterGoawayKept ==
    ASSUME NEW s, SessionInv(s), NEW f \in GoawayItems, f.aux # "notice"
    PROVE  /\ SessionInv(GoawayOut(s, f))
           /\ Keeps(GoawayOut(s, f), AfterGoaway(s, f), Ids)
           /\ s.server => \A id \in Active(AfterGoaway(s, f)) : id <= f.last
           /\ ~s.server => AfterGoaway(s, f) = GoawayOut(s, f)
<1> DEFINE t == GoawayOut(s, f)
<1>1. s \in Session /\ f.last \in Int
  BY DEF SessionInv, GoawayItems
<1>2. /\ t \in Session /\ t.streams = s.streams /\ t.num = s.num /\ t.server = s.server
      /\ t.closed_q = s.closed_q /\ t.syn = s.syn /\ t.next_id = s.next_id
      /\ t.last_sent = s.last_sent /\ t.last_recv = s.last_recv /\ t.last_proc = s.last_proc
  BY <1>1 DEF GoawayOut, Session, Flags
<1>3. AfterGoaway(s, f) = IF s.server THEN session_close_stream_on_goaway(t, f.last) ELSE t
  BY Zenon DEF AfterGoaway, GoawayOut
<1> HIDE DEF t
<1>4. Active(t) = Active(s)
  BY <1>2 DEF Active
<1>5. SessionInv(t)
  BY <1>2, <1>4 DEF SessionInv
<1>6. Active(t) \subseteq Ids
  BY <1>2, ActiveFinite
<1>7. /\ Keeps(t, session_close_stream_on_goaway(t, f.last), Ids)
      /\ \A id \in Active(session_close_stream_on_goaway(t, f.last)) : id <= f.last
  BY <1>1, <1>5, <1>6, CloseOnGoaway
<1>8. Keeps(t, t, Ids)
  BY <1>5, FollowsRefl
<1> QED
  BY <1>3, <1>5, <1>7, <1>8 DEF t

-----------------------------------------------------------------------------
(* A frame was received.                                                   *)

\* The stream id of s after the peer ended its half.
Heard(s, id) == [s EXCEPT !.streams[id].rd = TRUE]

LEMMA HeardKept ==
    ASSUME NEW s, SessionInv(s), NEW id \in DOMAIN s.streams, NEW R
    PROVE  LET t == Heard(s, id)
           IN  /\ Holds(s, t, R) /\ Retouched(s, t) /\ Active(t) = Active(s)
               /\ \A i \in DOMAIN s.streams \ {id} : t.streams[i] = s.streams[i]
               /\ t.streams[id].state = s.streams[id].state
               /\ t.streams[id].wr = s.streams[id].wr /\ t.streams[id].rd
<1> DEFINE st == [s.streams[id] EXCEPT !.rd = TRUE]
           t == Heard(s, id)
<1>1. s \in Session /\ s.streams[id] \in Stream
  BY StreamType DEF SessionInv
<1>2. t = [s EXCEPT !.streams[id] = st]
  BY DEF Heard
<1> HIDE DEF t
<1>3. /\ st \in Stream /\ st.closed = s.streams[id].closed /\ st.wr = s.streams[id].wr
      /\ st.rd = TRUE /\ st.state = s.streams[id].state
  BY <1>1 DEF Stream
<1> HIDE DEF st
<1>4. /\ Retouched(s, t) /\ t.streams[id] = st
      /\ \A i \in DOMAIN s.streams \ {id} : t.streams[i] = s.streams[i]
      /\ Holds(s, t, R) /\ Active(t) = Active(s)
  BY <1>1, <1>2, <1>3, HalfEdited
<1> QED
  BY <1>3, <1>4 DEF t

\* What EndStream does.
Hears(s, t, f, R) ==
    \/ t = s
    \/ /\ f.end /\ f.id \in DOMAIN s.streams /\ f.id \in Active(s)
       /\ s.streams[f.id].state # "closing"
       /\ Keeps(Heard(s, f.id), t, R)

LEMMA EndStreamKept ==
    ASSUME NEW s, SessionInv(s), NEW f, f.id \in Ids, NEW R
    PROVE  Holds(s, EndStream(s, f), R) /\ Hears(s, EndStream(s, f), f, R)
<1> DEFINE t == Heard(s, f.id)
           c == nghttp2_session_close_stream_if_shut_rdwr(t, f.id)
<1>1. s \in Session
  BY DEF SessionInv
<1>2. CASE f.end /\ Live(s, f.id) /\ s.streams[f.id].state # "closing"
  <2>1. f.id \in DOMAIN s.streams /\ f.id \in Active(s)
    BY <1>2 DEF Live, Active
  <2>2. Holds(s, t, R)
    BY <1>1, <2>1, HeardKept
  <2>3. EndStream(s, f) = c
    BY <1>2, Zenon DEF EndStream, Heard
  <2> HIDE DEF t
  <2>5. Keeps(t, c, R)
    BY <2>2, CloseIfShut DEF Holds, Moved
  <2>6. Holds(s, c, R)
    BY <2>2, <2>5, HoldsTrans DEF Keeps
  <2> QED
    BY <1>2, <2>1, <2>3, <2>5, <2>6 DEF t, Hears
<1>3. CASE ~(f.end /\ Live(s, f.id) /\ s.streams[f.id].state # "closing")
  <2>1. EndStream(s, f) = s
    BY <1>3, Zenon DEF EndStream
  <2> QED
    BY <2>1, FollowsRefl DEF Keeps, Hears
<1> QED
  BY <1>2, <1>3

\* What the arrival of HEADERS or DATA does to a stream that is there: some function of
\* the group that keeps both halves, and EndStream.
Arrives(s, t, f, R) == \E u : Keeps(s, u, R) /\ Hears(u, t, f, R)

LEMMA ArrivesKept ==
    ASSUME NEW s, SessionInv(s), NEW u, NEW f, f.id \in Ids, NEW R, Keeps(s, u, R)
    PROVE  Holds(s, EndStream(u, f), R) /\ Arrives(s, EndStream(u, f), f, R)
<1>1. Holds(u, EndStream(u, f), R) /\ Hears(u, EndStream(u, f), f, R)
  BY EndStreamKept DEF Keeps, Holds, Moved
<1>2. Holds(s, EndStream(u, f), R)
  BY <1>1, HoldsTrans DEF Keeps
<1> QED
  BY <1>1, <1>2 DEF Arrives

LEMMA OnResponseKept ==
    ASSUME NEW s, SessionInv(s), NEW f, f.id \in Ids, Live(s, f.id), NEW R
    PROVE  LET t == nghttp2_session_on_response_headers_received(s, f)
           IN  /\ Holds(s, t, R)
               /\ \/ Calm(s, t)
                  \/ ~s.streams[f.id].rd /\ Arrives(s, t, f, R)
<1> DEFINE y == nghttp2_session_on_response_headers_received(s, f)
           t == [s EXCEPT !.streams[f.id].state = "opened"]
<1>1. s \in Session /\ f.id \in DOMAIN s.streams
  BY DEF SessionInv, Live
<1>2. CASE s.streams[f.id].rd
  <2>1. y = nghttp2_session_terminate_session(s, "stream_closed")
    BY <1>2 DEF nghttp2_session_on_response_headers_received
  <2>2. Keeps(s, nghttp2_session_terminate_session(s, "stream_closed"), R)
    BY TerminateKept
  <2> QED
    BY <2>1, <2>2 DEF Keeps
<1>3. CASE ~s.streams[f.id].rd /\ ~s.server /\ s.streams[f.id].state = "opening"
  <2>1. Quiet(s, t)
    <3> DEFINE st == [s.streams[f.id] EXCEPT !.state = "opened"]
    <3>1. /\ st \in Stream /\ st.closed = s.streams[f.id].closed /\ st.rd = s.streams[f.id].rd
          /\ st.wr = s.streams[f.id].wr /\ st.state = "opened"
      BY <1>1, StreamType DEF Stream
    <3>2. t = [s EXCEPT !.streams[f.id] = st]
      OBVIOUS
    <3> HIDE DEF st
    <3> QED
      BY <1>1, <1>3, <3>1, <3>2, StreamEdited
  <2>2. y = EndStream(t, f)
    BY <1>3, Zenon DEF nghttp2_session_on_response_headers_received
  <2> HIDE DEF t
  <2>3. Keeps(s, t, R)
    BY <2>1, QuietKeeps
  <2> QED
    BY <1>3, <2>2, <2>3, ArrivesKept
<1>4. CASE ~s.streams[f.id].rd /\ ~(~s.server /\ s.streams[f.id].state = "opening")
  <2>1. y = EndStream(s, f)
    BY <1>4, Zenon DEF nghttp2_session_on_response_headers_received
  <2> QED
    BY <1>4, <2>1, FollowsRefl, ArrivesKept
<1> QED
  BY <1>2, <1>3, <1>4

LEMMA TakenStream ==
    ASSUME NEW s, NEW id, DataVerdict(s, id) = "take"
    PROVE  /\ id \in DOMAIN s.streams /\ id \in Active(s) /\ ~s.streams[id].rd
           /\ s.streams[id].state # "closing"
<1> SUFFICES ASSUME ~(/\ id \in DOMAIN s.streams /\ ~s.streams[id].rd /\ ~s.streams[id].closed
                      /\ s.streams[id].state # "closing") PROVE FALSE
  BY DEF Active
<1>1. CASE session_detect_idle_stream(s, id)
  <2>1. DataVerdict(s, id) = "protocol"
    BY <1>1, Zenon DEF DataVerdict
  <2> QED BY <2>1
<1>2. CASE /\ ~session_detect_idle_stream(s, id)
           /\ id \in DOMAIN s.streams /\ s.streams[id].rd
  <2>1. DataVerdict(s, id) = "stream_closed"
    BY <1>2, Zenon DEF DataVerdict
  <2> QED BY <2>1
<1>3. CASE /\ ~session_detect_idle_stream(s, id)
           /\ ~(id \in DOMAIN s.streams /\ s.streams[id].rd)
  <2>1. DataVerdict(s, id) = "ignore"
    BY <1>3, Zenon DEF DataVerdict
  <2> QED BY <2>1
<1> QED
  BY <1>1, <1>2, <1>3

\* The payload of f counts against the connection.
Charged(s, f) ==
    IF f.len = 0 THEN s ELSE nghttp2_session_update_recv_connection_window_size(s, f.len)

\* A session that ignores no frame yet does not ignore the payload that fits its window.
LEMMA ChargedFits ==
    ASSUME NEW s \in Session, IgnoresOnTerm(s), ~s.ign_all, NEW f, ~Charged(s, f).ign_all
    PROVE  f.len = 0 \/ ~OverWindow(s, f.len)
<1> SUFFICES ASSUME f.len # 0, OverWindow(s, f.len) PROVE FALSE
  OBVIOUS
<1> DEFINE g == nghttp2_session_add_goaway(s, s.last_proc, "term")
           c == [g EXCEPT !.ign_all = TRUE, !.goaway = @ \cup {"term_on_send"},
                          !.error = "flow_control"]
<1>1. Charged(s, f) = nghttp2_session_terminate_session(s, "flow_control")
  BY Zenon DEF Charged, nghttp2_session_update_recv_connection_window_size
<1>2. nghttp2_session_terminate_session(s, "flow_control") = c
  BY Zenon DEF nghttp2_session_terminate_session, IgnoresOnTerm
<1>3. c.ign_all
  BY DEF nghttp2_session_add_goaway, Session
<1> QED
  BY <1>1, <1>2, <1>3

LEMMA ProcessDataKept ==
    ASSUME NEW s, SessionInv(s), NEW f \in DataFrames, NEW R
    PROVE  LET t == session_process_data_frame(s, f)
           IN  /\ Holds(s, t, R)
               /\ \/ Calm(s, t)
                  \/ /\ DataVerdict(s, f.id) = "take" /\ Arrives(s, t, f, R)
                     /\ IgnoresOnTerm(s) /\ ~s.ign_all => f.len = 0 \/ ~OverWindow(s, f.len)
<1> DEFINE v == DataVerdict(s, f.id)
           c == Charged(s, f)
           t == IF f.len = 0 THEN c
                ELSE nghttp2_session_update_recv_stream_window_size(c, f.id, f.len, ~f.end)
           y == session_process_data_frame(s, f)
           g == session_update_connection_consumed_size(c, f.len)
<1>1. f.id \in Ids /\ f.len \in Int /\ s \in Session
  BY DEF DataFrames, SessionInv
<1>2. Keeps(s, c, R) /\ DOMAIN c.streams = DOMAIN s.streams
  BY <1>1, RecvConnection, FollowsRefl DEF Charged
<1>3. y = IF v \in Errors THEN nghttp2_session_terminate_session(s, v)
          ELSE IF c.ign_all THEN c
          ELSE IF v = "take" THEN EndStream(t, f)
          ELSE IF NoAutoWindowUpdate /\ f.len > 0 THEN g ELSE c
  BY Zenon DEF session_process_data_frame, Charged
<1>4. IgnoresOnTerm(s) /\ ~s.ign_all /\ ~c.ign_all => f.len = 0 \/ ~OverWindow(s, f.len)
  BY <1>1, ChargedFits
<1> HIDE DEF c
<1>5. ASSUME v = "take"
      PROVE  Holds(s, EndStream(t, f), R) /\ Arrives(s, EndStream(t, f), f, R)
  <2>1. f.id \in DOMAIN c.streams
    BY <1>2, <1>5, TakenStream
  <2>2. Keeps(c, t, R)
    BY <1>1, <1>2, <2>1, RecvStream, FollowsRefl DEF Keeps, Holds, Moved
  <2> HIDE DEF t
  <2>3. Keeps(s, t, R)
    BY <1>2, <2>2, FollowsTrans
  <2> QED
    BY <1>1, <2>3, ArrivesKept
<1>6. Keeps(s, g, R)
  <2>1. Keeps(c, g, R)
    BY <1>1, <1>2, ConsumedConnection DEF Keeps, Holds, Moved
  <2> HIDE DEF g
  <2> QED
    BY <1>2, <2>1, FollowsTrans
<1>7. v \in Errors => Keeps(s, nghttp2_session_terminate_session(s, v), R)
  BY TerminateSession
<1> HIDE DEF v, t, y, g
<1>8. \/ Keeps(s, y, R)
      \/ v = "take" /\ ~c.ign_all /\ y = EndStream(t, f)
  BY <1>2, <1>3, <1>6, <1>7
<1>9. CASE Keeps(s, y, R)
  BY <1>9 DEF y, Keeps
<1>10. CASE v = "take" /\ ~c.ign_all /\ y = EndStream(t, f)
  BY <1>4, <1>5, <1>10 DEF y, v
<1> QED
  BY <1>8, <1>9, <1>10

LEMMA RatelimKept ==
    ASSUME NEW s, SessionInv(s), NEW R
    PROVE  Keeps(s, session_update_stream_reset_ratelim(s), R)
<1>1. s \in Session /\ s.ratelim - 1 \in Int
  <2>1. s \in Session
    BY DEF SessionInv
  <2>2. s.ratelim \in Int
    BY <2>1 DEF Session
  <2> QED
    BY <2>1, <2>2
<1>2. Keeps(s, nghttp2_session_add_goaway(s, s.last_recv, "none"), R)
  BY AddGoaway
<1>3. Quiet(s, [s EXCEPT !.ratelim = @ - 1])
  BY <1>1, ConnectionEdited, Zenon
<1>4. Keeps(s, [s EXCEPT !.ratelim = @ - 1], R)
  BY <1>3, QuietKeeps
<1> QED
  BY <1>2, <1>4, FollowsRefl DEF session_update_stream_reset_ratelim

\* An RST_STREAM ends both halves and closes the stream with an error.
LEMMA ResetKept ==
    ASSUME NEW s, SessionInv(s), NEW id \in Ids, NEW error \in Faults, NEW R,
           error = "refused" => id \in R
    PROVE  LET t == IF Live(s, id) THEN [s EXCEPT !.streams[id].rd = TRUE] ELSE s
           IN  Keeps(s, nghttp2_session_close_stream(t, id, error), R)
<1>1. s \in Session /\ error \in Reasons /\ error # "no_error"
  BY DEF SessionInv, Faults
<1>2. CASE ~Live(s, id)
  BY <1>1, <1>2, CloseStream
<1>3. CASE Live(s, id)
  <2> DEFINE t == Heard(s, id)
             c == nghttp2_session_close_stream(t, id, error)
  <2>1. id \in DOMAIN s.streams /\ id \in Active(s)
    BY <1>3 DEF Live, Active
  <2>2. /\ Holds(s, t, R) /\ Retouched(s, t) /\ Active(t) = Active(s)
        /\ \A i \in DOMAIN s.streams \ {id} : t.streams[i] = s.streams[i]
    BY <2>1, HeardKept
  <2> HIDE DEF t
  <2>3. SessionInv(t) /\ Live(t, id)
    BY <2>1, <2>2, ActiveFinite DEF Holds, Moved, SessionInv
  <2>4. /\ Keeps(t, c, R) /\ Active(c) = Active(t) \ {id} /\ c.reason[id] = error
    BY <1>1, <2>3, CloseStream
  <2> HIDE DEF c
  <2>5. Holds(s, c, R)
    BY <2>2, <2>4, HoldsTrans DEF Keeps
  <2>6. Calm(s, c)
    <3>1. Active(s) \subseteq DOMAIN s.streams
      BY DEF Active
    <3>2. \A i \in Active(s) \ {id} : t.streams[i] = s.streams[i]
      BY <2>2, <3>1
    <3>3. t.reg = s.reg /\ t.syn = s.syn /\ t.reason = s.reason
          /\ (IgnoresOnTerm(s) => IgnoresOnTerm(t))
      BY <2>2 DEF Retouched
    <3>4. \A i \in Active(c) : t.streams[i] = s.streams[i]
      BY <2>2, <2>4, <3>2
    <3>5. \A i \in Ids : c.reason[i] = "no_error" =>
             \/ s.reason[i] = "no_error"
             \/ /\ i \in Active(s) /\ i \notin Active(c)
                /\ s.streams[i].rd /\ s.streams[i].wr
      <4> SUFFICES ASSUME NEW i \in Ids, c.reason[i] = "no_error"
                   PROVE  \/ s.reason[i] = "no_error"
                          \/ /\ i \in Active(s) /\ i \notin Active(c)
                             /\ s.streams[i].rd /\ s.streams[i].wr
        OBVIOUS
      <4>1. i # id
        BY <1>1, <2>4
      <4>2. \/ t.reason[i] = "no_error"
            \/ /\ i \in Active(t) /\ i \notin Active(c)
               /\ t.streams[i].rd /\ t.streams[i].wr
        BY <2>4 DEF Keeps, Calm
      <4> QED
        BY <2>2, <3>2, <3>3, <4>1, <4>2
    <3>6. Calm(t, c)
      BY <2>4 DEF Keeps
    <3> QED
      BY <3>3, <3>4, <3>5, <3>6 DEF Calm
  <2> QED
    BY <1>3, <2>5, <2>6 DEF Keeps, c, t, Heard
<1> QED
  BY <1>2, <1>3

LEMMA OnRstKept ==
    ASSUME NEW s, SessionInv(s), NEW f \in RstFrames, NEW R, f.error = "refused" => f.id \in R
    PROVE  Keeps(s, nghttp2_session_on_rst_stream_received(s, f), R)
<1> DEFINE y == nghttp2_session_on_rst_stream_received(s, f)
           t == IF Live(s, f.id) THEN [s EXCEPT !.streams[f.id].rd = TRUE] ELSE s
           c == nghttp2_session_close_stream(t, f.id, f.error)
<1>1. s \in Session /\ f.id \in Ids /\ f.error \in Faults
  BY DEF SessionInv, RstFrames
<1>2. CASE session_detect_idle_stream(s, f.id)
  <2>1. y = nghttp2_session_terminate_session(s, "protocol")
    BY <1>2 DEF nghttp2_session_on_rst_stream_received
  <2> QED
    BY <2>1, TerminateKept
<1>3. CASE ~session_detect_idle_stream(s, f.id)
  <2>1. Keeps(s, c, R)
    BY <1>1, ResetKept
  <2>2. y = session_update_stream_reset_ratelim(c)
    BY <1>3, Zenon DEF nghttp2_session_on_rst_stream_received
  <2> HIDE DEF t, c
  <2>4. Keeps(c, y, R)
    BY <2>1, <2>2, RatelimKept DEF Keeps, Holds, Moved
  <2> HIDE DEF y
  <2>6. Keeps(s, y, R)
    BY <2>1, <2>4, FollowsTrans
  <2> QED
    BY <2>6 DEF y
<1> QED
  BY <1>2, <1>3

LEMMA ResumeKept ==
    ASSUME NEW s, SessionInv(s), NEW id \in DOMAIN s.streams, NEW R
    PROVE  /\ Keeps(s, session_resume_deferred_stream_item(s, id), R)
           /\ DOMAIN session_resume_deferred_stream_item(s, id).streams = DOMAIN s.streams
<1>1. s \in Session
  BY DEF SessionInv
<1>2. Quiet(s, [s EXCEPT !.streams[id].item = "ready"])
  BY <1>1, FieldEdited
<1>3. Keeps(s, [s EXCEPT !.streams[id].item = "ready"], R)
  BY <1>2, QuietKeeps
<1> QED
  BY <1>2, <1>3, FollowsRefl DEF session_resume_deferred_stream_item, Quiet, Retouched

LEMMA OnUpdateKept ==
    ASSUME NEW s, SessionInv(s), NEW f \in UpdateFrames, NEW R
    PROVE  Keeps(s, nghttp2_session_on_window_update_received(s, f), R)
<1> DEFINE y == nghttp2_session_on_window_update_received(s, f)
           t == [s EXCEPT !.streams[f.id].remote_win = @ + f.inc]
           g == [s EXCEPT !.remote_win = @ + f.inc]
<1>1. s \in Session /\ f.id \in Ids \cup {0} /\ f.inc \in Int
      /\ "flow_control" \in Faults \ {"refused"}
  BY DEF SessionInv, UpdateFrames, Reasons, Faults
<1>2. CASE f.id = 0
  <2>1. y = IF MaxWindow - f.inc < s.remote_win
            THEN nghttp2_session_terminate_session(s, "flow_control") ELSE g
    BY <1>2, Zenon DEF nghttp2_session_on_window_update_received
  <2>2. Quiet(s, g)
    <3>1. s.remote_win + f.inc \in Int
      BY <1>1, WindowTypes
    <3> QED
      BY <1>1, <3>1, ConnectionEdited, Zenon
  <2> HIDE DEF g
  <2>3. Keeps(s, g, R)
    BY <2>2, QuietKeeps
  <2> QED
    BY <2>1, <2>3, TerminateKept
<1>3. CASE f.id # 0 /\ session_detect_idle_stream(s, f.id)
  <2>1. y = nghttp2_session_terminate_session(s, "protocol")
    BY <1>3, Zenon DEF nghttp2_session_on_window_update_received
  <2> QED
    BY <2>1, TerminateKept
<1>4. CASE f.id # 0 /\ ~session_detect_idle_stream(s, f.id) /\ ~Live(s, f.id)
  <2>1. y = s
    BY <1>4, Zenon DEF nghttp2_session_on_window_update_received
  <2> QED
    BY <2>1, FollowsRefl
<1>5. CASE f.id # 0 /\ ~session_detect_idle_stream(s, f.id) /\ Live(s, f.id)
  <2>1. y = IF MaxWindow - f.inc < s.streams[f.id].remote_win
            THEN nghttp2_session_add_rst_stream(s, f.id, "flow_control")
            ELSE session_resume_deferred_stream_item(t, f.id)
    BY <1>5, Zenon DEF nghttp2_session_on_window_update_received
  <2>2. Keeps(s, nghttp2_session_add_rst_stream(s, f.id, "flow_control"), R)
    BY <1>1, <1>5, AddRstStream
  <2>3. f.id \in DOMAIN s.streams
    BY <1>5 DEF Live
  <2>4. Quiet(s, t)
    <3>1. s.streams[f.id].remote_win + f.inc \in Int
      BY <1>1, <2>3, StreamTypes
    <3> QED
      BY <1>1, <2>3, <3>1, FieldEdited, Zenon
  <2> HIDE DEF t
  <2>5. Keeps(s, t, R) /\ f.id \in DOMAIN t.streams
    BY <2>3, <2>4, QuietKeeps DEF Quiet, Retouched
  <2>6. Keeps(t, session_resume_deferred_stream_item(t, f.id), R)
    BY <2>5, ResumeKept DEF Keeps, Holds, Moved
  <2>7. Keeps(s, session_resume_deferred_stream_item(t, f.id), R)
    BY <2>5, <2>6, FollowsTrans
  <2> QED
    BY <2>1, <2>2, <2>7
<1> QED
  BY <1>2, <1>3, <1>4, <1>5

\* One stream's share of a new initial window, at the sender and at the receiver.
RemoteShare(s, new, id, t) ==
    IF t.streams[id].remote_win + new - s.remote_iw > MaxWindow
    THEN nghttp2_session_add_rst_stream(t, id, "flow_control")
    ELSE session_resume_deferred_stream_item(
           [t EXCEPT !.streams[id].remote_win = @ + new - s.remote_iw], id)

LEMMA RemoteShareKept ==
    ASSUME NEW s, s.remote_iw \in Int, NEW new \in Int, NEW t, SessionInv(t),
           NEW id \in DOMAIN t.streams, NEW R
    PROVE  /\ Keeps(t, RemoteShare(s, new, id, t), R)
           /\ DOMAIN RemoteShare(s, new, id, t).streams = DOMAIN t.streams
<1> DEFINE u == [t EXCEPT !.streams[id].remote_win = @ + new - s.remote_iw]
           y == session_resume_deferred_stream_item(u, id)
<1>1. t \in Session /\ id \in Ids /\ "flow_control" \in Faults \ {"refused"}
  BY StreamType DEF SessionInv, Reasons, Faults
<1>2. Quiet(t, u)
  <2>1. t.streams[id].remote_win + new - s.remote_iw \in Int
    BY <1>1, StreamTypes
  <2> QED
    BY <1>1, <2>1, FieldEdited, Zenon
<1>3. RemoteShare(s, new, id, t)
        = IF t.streams[id].remote_win + new - s.remote_iw > MaxWindow
          THEN nghttp2_session_add_rst_stream(t, id, "flow_control") ELSE y
  BY Zenon DEF RemoteShare
<1> HIDE DEF u
<1>4. Keeps(t, u, R) /\ DOMAIN u.streams = DOMAIN t.streams
  BY <1>2, QuietKeeps DEF Quiet, Retouched
<1>5. Keeps(u, y, R) /\ DOMAIN y.streams = DOMAIN t.streams
  BY <1>4, ResumeKept DEF Keeps, Holds, Moved
<1> HIDE DEF y
<1>6. Keeps(t, y, R)
  BY <1>4, <1>5, FollowsTrans
<1> QED
  BY <1>1, <1>3, <1>5, <1>6, AddRstStream

LEMMA RemoteWindowsKept ==
    ASSUME NEW s, SessionInv(s), NEW new \in Int, NEW R
    PROVE  Keeps(s, session_update_remote_initial_window_size(s, new), R)
<1> DEFINE S == DOMAIN s.streams
           V == {t \in Session : Keeps(s, t, R) /\ DOMAIN t.streams = S}
           op(id, t) == RemoteShare(s, new, id, t)
           F == [x \in S |-> [t \in V |-> op(x, t)]]
           iter == CHOOSE h : h = [T \in SUBSET S |->
                                     IF T = {} THEN s ELSE op(Pick(T), h[T \ {Pick(T)}])]
           Q == {T \in SUBSET S : iter[T] \in V}
<1>1. IsFiniteSet(S) /\ s \in Session /\ s.remote_iw \in Int
  BY StreamsFinite DEF SessionInv, Session
<1>2. s \in V
  BY <1>1, FollowsRefl
<1>3. ASSUME NEW x \in S, NEW t \in V PROVE op(x, t) \in V
  <2>1. SessionInv(t) /\ Keeps(s, t, R) /\ x \in DOMAIN t.streams /\ DOMAIN t.streams = S
    BY <1>3 DEF Keeps, Holds, Moved
  <2>2. Keeps(t, op(x, t), R) /\ DOMAIN op(x, t).streams = DOMAIN t.streams
    BY <1>1, <2>1, RemoteShareKept
  <2>3. Keeps(s, op(x, t), R)
    BY <2>1, <2>2, FollowsTrans
  <2> QED
    BY <2>1, <2>2, <2>3 DEF Keeps, Holds, Moved, SessionInv
<1>4. F \in [S -> [V -> V]]
  <2> HIDE DEF op, S, V
  <2> QED BY <1>3
<1>5. PICK f \in [SUBSET S -> V] : IsFold(f, S, s, F)
  <2> HIDE DEF F, S, V
  <2> QED BY FoldExists, <1>1, <1>2, <1>4
<1>6. f = [T \in SUBSET S |-> IF T = {} THEN s ELSE op(Pick(T), f[T \ {Pick(T)}])]
  <2> HIDE DEF op, S, V
  <2> QED BY <1>5, PickIn DEF IsFold
<1>7. iter = [T \in SUBSET S |-> IF T = {} THEN s ELSE op(Pick(T), iter[T \ {Pick(T)}])]
  <2> HIDE DEF op, S
  <2> QED BY <1>6, Zenon
<1>8. session_update_remote_initial_window_size(s, new) = iter[S]
  BY Zenon DEF session_update_remote_initial_window_size, FoldSet, MapThenFoldSet, Pick,
               RemoteShare
<1> HIDE DEF iter
<1>9. {} \in Q
  <2> HIDE DEF op, S, V
  <2> QED BY <1>2, <1>7
<1>10. ASSUME NEW T \in SUBSET S, T # {}, T \ {Pick(T)} \in Q PROVE T \in Q
  <2>1. Pick(T) \in T
    BY <1>10, PickIn
  <2> HIDE DEF op, S, V
  <2>2. iter[T] = op(Pick(T), iter[T \ {Pick(T)}])
    BY <1>7, <1>10
  <2> QED
    BY <1>3, <1>10, <2>1, <2>2
<1>11. S \in Q
  <2> HIDE DEF Q, S
  <2> QED BY <1>1, <1>9, <1>10, PickInduction
<1> QED
  BY <1>8, <1>11

LEMMA LocalShareKept ==
    ASSUME NEW t, SessionInv(t), NEW id \in DOMAIN t.streams, NEW delta \in Int, NEW R
    PROVE  /\ Keeps(t, update_local_initial_window_size_func(t, id, delta), R)
           /\ DOMAIN update_local_initial_window_size_func(t, id, delta).streams
                = DOMAIN t.streams
<1> DEFINE u == [t EXCEPT !.streams[id].local_win = @ + delta]
           n == Credit(u.streams[id], u.streams[id].recv_win)
           a == session_update_stream_consumed_size(u, id, 0)
           w == nghttp2_session_add_window_update(u, id, n)
           z == [w EXCEPT !.streams[id].recv_win = 0]
           r == nghttp2_session_add_rst_stream(t, id, "flow_control")
<1>1. t \in Session /\ id \in Ids /\ 0 \in Int /\ "flow_control" \in Faults \ {"refused"}
  BY StreamType DEF SessionInv, Reasons, Faults
<1>2. Quiet(t, u)
  <2>1. t.streams[id].local_win + delta \in Int
    BY <1>1, StreamTypes
  <2> QED
    BY <1>1, <2>1, FieldEdited, Zenon
<1>3. update_local_initial_window_size_func(t, id, delta)
        = IF t.streams[id].local_win + delta > MaxWindow THEN r
          ELSE IF t.streams[id].wuq THEN u
          ELSE IF NoAutoWindowUpdate THEN a
          ELSE IF n = 0 THEN u ELSE z
  BY Zenon DEF update_local_initial_window_size_func
<1> HIDE DEF u
<1>4. Keeps(t, u, R) /\ DOMAIN u.streams = DOMAIN t.streams /\ u \in Session
  BY <1>2, QuietKeeps DEF Quiet, Retouched
<1>5. n \in Int
  BY <1>4, CreditType, StreamTypes
<1> HIDE DEF n
<1>6. Keeps(u, a, R) /\ DOMAIN a.streams = DOMAIN t.streams
  BY <1>1, <1>4, ConsumedStream DEF Keeps, Holds, Moved
<1>7. Keeps(u, w, R) /\ DOMAIN w.streams = DOMAIN t.streams
  BY <1>1, <1>4, <1>5, AddWindowUpdate DEF Keeps, Holds, Moved
<1>8. Keeps(t, r, R) /\ DOMAIN r.streams = DOMAIN t.streams
  BY <1>1, AddRstStream
<1> HIDE DEF a, w, r
<1>9. w \in Session /\ id \in DOMAIN w.streams
  BY <1>7 DEF Keeps, Holds, Moved, SessionInv
<1>10. Quiet(w, z)
  BY <1>1, <1>9, FieldEdited, Zenon
<1> HIDE DEF z
<1>11. Keeps(t, a, R) /\ Keeps(t, w, R)
  BY <1>4, <1>6, <1>7, FollowsTrans
<1>12. Keeps(t, z, R) /\ DOMAIN z.streams = DOMAIN t.streams
  BY <1>7, <1>10, <1>11, KeepsQuiet
<1> QED
  BY <1>3, <1>4, <1>6, <1>8, <1>11, <1>12

LocalWindows(s, delta) ==
    FoldSet(LAMBDA id, u : update_local_initial_window_size_func(u, id, delta),
            s, DOMAIN s.streams)

LEMMA LocalWindowsKept ==
    ASSUME NEW s, SessionInv(s), NEW delta \in Int, NEW R
    PROVE  Keeps(s, LocalWindows(s, delta), R)
<1> DEFINE S == DOMAIN s.streams
           V == {t \in Session : Keeps(s, t, R) /\ DOMAIN t.streams = S}
           op(id, t) == update_local_initial_window_size_func(t, id, delta)
           F == [x \in S |-> [t \in V |-> op(x, t)]]
           iter == CHOOSE h : h = [T \in SUBSET S |->
                                     IF T = {} THEN s ELSE op(Pick(T), h[T \ {Pick(T)}])]
           Q == {T \in SUBSET S : iter[T] \in V}
<1>1. IsFiniteSet(S) /\ s \in Session
  BY StreamsFinite DEF SessionInv
<1>2. s \in V
  BY <1>1, FollowsRefl
<1>3. ASSUME NEW x \in S, NEW t \in V PROVE op(x, t) \in V
  <2>1. SessionInv(t) /\ Keeps(s, t, R) /\ x \in DOMAIN t.streams /\ DOMAIN t.streams = S
    BY <1>3 DEF Keeps, Holds, Moved
  <2>2. Keeps(t, op(x, t), R) /\ DOMAIN op(x, t).streams = DOMAIN t.streams
    BY <1>1, <2>1, LocalShareKept
  <2>3. Keeps(s, op(x, t), R)
    BY <2>1, <2>2, FollowsTrans
  <2> QED
    BY <2>1, <2>2, <2>3 DEF Keeps, Holds, Moved, SessionInv
<1>4. F \in [S -> [V -> V]]
  <2> HIDE DEF op, S, V
  <2> QED BY <1>3
<1>5. PICK f \in [SUBSET S -> V] : IsFold(f, S, s, F)
  <2> HIDE DEF F, S, V
  <2> QED BY FoldExists, <1>1, <1>2, <1>4
<1>6. f = [T \in SUBSET S |-> IF T = {} THEN s ELSE op(Pick(T), f[T \ {Pick(T)}])]
  <2> HIDE DEF op, S, V
  <2> QED BY <1>5, PickIn DEF IsFold
<1>7. iter = [T \in SUBSET S |-> IF T = {} THEN s ELSE op(Pick(T), iter[T \ {Pick(T)}])]
  <2> HIDE DEF op, S
  <2> QED BY <1>6, Zenon
<1>8. LocalWindows(s, delta) = iter[S]
  BY Zenon DEF LocalWindows, FoldSet, MapThenFoldSet, Pick
<1> HIDE DEF iter
<1>9. {} \in Q
  <2> HIDE DEF op, S, V
  <2> QED BY <1>2, <1>7
<1>10. ASSUME NEW T \in SUBSET S, T # {}, T \ {Pick(T)} \in Q PROVE T \in Q
  <2>1. Pick(T) \in T
    BY <1>10, PickIn
  <2> HIDE DEF op, S, V
  <2>2. iter[T] = op(Pick(T), iter[T \ {Pick(T)}])
    BY <1>7, <1>10
  <2> QED
    BY <1>3, <1>10, <2>1, <2>2
<1>11. S \in Q
  <2> HIDE DEF Q, S
  <2> QED BY <1>1, <1>9, <1>10, PickInduction
<1> QED
  BY <1>8, <1>11

LEMMA OnAckKept ==
    ASSUME NEW s, SessionInv(s), NEW R
    PROVE  Moved(s, OnSettingsAck(s), R) /\ Calm(s, OnSettingsAck(s))
<1> DEFINE iv == Head(s.inflight)
           t == IF iv.iw = Unset THEN s ELSE LocalWindows(s, iv.iw - s.local_iw)
           u == [t EXCEPT !.local_iw = IF iv.iw = Unset THEN @ ELSE iv.iw,
                          !.local_mc = IF iv.mc = Unset THEN @ ELSE iv.mc]
           y == [u EXCEPT !.inflight = Tail(@)]
<1>1. s \in Session /\ s.inflight \in Seq(Entries) /\ s.local_iw \in Int
  BY DEF SessionInv, Session
<1>2. CASE s.inflight = <<>>
  <2>1. OnSettingsAck(s) = nghttp2_session_terminate_session(s, "protocol")
    BY <1>2 DEF OnSettingsAck
  <2>2. Keeps(s, nghttp2_session_terminate_session(s, "protocol"), R)
    BY TerminateKept
  <2> QED
    BY <2>1, <2>2 DEF Keeps, Holds
<1>3. CASE s.inflight # <<>>
  <2>1. iv \in Entries
    BY <1>1, <1>3
  <2>2. (iv.iw # Unset => iv.iw \in Int) /\ (iv.mc # Unset => iv.mc \in Int)
    BY <2>1 DEF Entries
  <2>3. OnSettingsAck(s) = y
    <3>1. nghttp2_session_update_local_settings(s, iv) = u
      BY Zenon DEF nghttp2_session_update_local_settings, LocalWindows
    <3> QED
      BY <1>3, <3>1 DEF OnSettingsAck
  <2> HIDE DEF iv
  <2>4. Keeps(s, t, R)
    <3>1. CASE iv.iw = Unset
      BY <3>1, FollowsRefl
    <3>2. CASE iv.iw # Unset
      <4>1. iv.iw - s.local_iw \in Int
        BY <1>1, <2>2, <3>2
      <4> QED
        BY <3>2, <4>1, LocalWindowsKept
    <3> QED
      BY <3>1, <3>2
  <2> HIDE DEF t
  <2>5. t \in Session
    BY <2>4 DEF Keeps, Holds, Moved, SessionInv
  <2>6. t.local_iw \in Int /\ t.local_mc \in Int /\ t.inflight \in Seq(Entries)
    BY <2>5 DEF Session
  <2>7. (IF iv.iw = Unset THEN t.local_iw ELSE iv.iw) \in Int
        /\ (IF iv.mc = Unset THEN t.local_mc ELSE iv.mc) \in Int
    BY <2>2, <2>6
  <2>8. Quiet(t, u)
    <3> DEFINE a == IF iv.iw = Unset THEN t.local_iw ELSE iv.iw
               b == IF iv.mc = Unset THEN t.local_mc ELSE iv.mc
    <3>1. u = [t EXCEPT !.local_iw = a, !.local_mc = b]
      OBVIOUS
    <3>2. a \in Int /\ b \in Int
      BY <2>7
    <3> HIDE DEF a, b, u
    <3>3. Quiet(t, [t EXCEPT !.local_iw = a, !.local_mc = b])
      BY <2>5, <3>2 DEF Session, Quiet, Retouched, IgnoresOnTerm
    <3> QED
      BY <3>1, <3>3
  <2> HIDE DEF u
  <2>9. Keeps(s, u, R)
    BY <2>4, <2>8, KeepsQuiet
  <2>10. Tail(u.inflight) \in Seq(Entries)
    BY <1>1, <1>3, <2>9 DEF Keeps, Holds
  <2>11. /\ Moved(s, [u EXCEPT !.inflight = Tail(u.inflight)], R)
         /\ Calm(s, [u EXCEPT !.inflight = Tail(u.inflight)])
    BY <2>9, <2>10, InflightSet, Zenon
  <2> QED
    BY <2>3, <2>11
<1> QED
  BY <1>2, <1>3

LEMMA OnSettingsKept ==
    ASSUME NEW s, SessionInv(s), NEW f \in SettingsFrames, NEW R
    PROVE  Keeps(s, nghttp2_session_on_settings_received(s, f), R)
<1> DEFINE first == IF s.settings_recv THEN s
                    ELSE [s EXCEPT !.remote_mc = Unlimited, !.settings_recv = TRUE]
           m == [first EXCEPT !.remote_mc = IF f.iv.mc = Unset THEN @ ELSE f.iv.mc]
           x == session_update_remote_initial_window_size(m, f.iv.iw)
           w == IF f.iv.iw = Unset THEN m ELSE [x EXCEPT !.remote_iw = f.iv.iw]
           y == [w EXCEPT !.urgent = Append(@, [type |-> "ACK"])]
<1>1. s \in Session /\ Unlimited \in Int
  BY SessionConstants DEF SessionInv, Unlimited, SessionConstants
<1>2. (f.iv.iw # Unset => f.iv.iw \in Int) /\ (f.iv.mc # Unset => f.iv.mc \in Int)
  BY DEF SettingsFrames, Entries
<1>3. nghttp2_session_on_settings_received(s, f) = IF session_is_closing(w) THEN w ELSE y
  BY Zenon DEF nghttp2_session_on_settings_received
<1>4. Keeps(s, first, R)
  <2>1. Quiet(s, [s EXCEPT !.remote_mc = Unlimited, !.settings_recv = TRUE])
    BY <1>1 DEF Session, Quiet, Retouched, IgnoresOnTerm
  <2>2. Keeps(s, [s EXCEPT !.remote_mc = Unlimited, !.settings_recv = TRUE], R)
    BY <2>1, QuietKeeps
  <2> QED
    BY <2>2, FollowsRefl
<1> HIDE DEF first
<1>5. first \in Session
  BY <1>4 DEF Keeps, Holds, Moved, SessionInv
<1>6. Quiet(first, m)
  <2> DEFINE n == IF f.iv.mc = Unset THEN first.remote_mc ELSE f.iv.mc
  <2>1. first.remote_mc \in Int
    BY <1>5 DEF Session
  <2>2. n \in Int
    BY <1>2, <2>1
  <2>3. m = [first EXCEPT !.remote_mc = n]
    OBVIOUS
  <2> HIDE DEF n, m
  <2>4. Quiet(first, [first EXCEPT !.remote_mc = n])
    BY <1>5, <2>2 DEF Session, Quiet, Retouched, IgnoresOnTerm
  <2> QED
    BY <2>3, <2>4
<1> HIDE DEF m
<1>7. Keeps(s, m, R)
  BY <1>4, <1>6, KeepsQuiet
<1>8. Keeps(s, w, R)
  <2>1. CASE f.iv.iw = Unset
    BY <1>7, <2>1
  <2>2. CASE f.iv.iw # Unset
    <3>1. Keeps(m, x, R)
      BY <1>2, <1>7, <2>2, RemoteWindowsKept DEF Keeps, Holds, Moved
    <3> HIDE DEF x
    <3>2. Keeps(s, x, R)
      BY <1>7, <3>1, FollowsTrans
    <3>3. x \in Session
      BY <3>2 DEF Keeps, Holds, Moved, SessionInv
    <3>4. Quiet(x, [x EXCEPT !.remote_iw = f.iv.iw])
      BY <1>2, <2>2, <3>3 DEF Session, Quiet, Retouched, IgnoresOnTerm
    <3>5. Keeps(s, [x EXCEPT !.remote_iw = f.iv.iw], R)
      BY <3>2, <3>4, KeepsQuiet
    <3> QED
      BY <2>2, <3>5
  <2> QED
    BY <2>1, <2>2
<1> HIDE DEF w
<1>9. w \in Session /\ w.urgent \in Seq(UrgentItems)
  BY <1>8 DEF Keeps, Holds, Moved, SessionInv, Session
<1>10. Append(w.urgent, [type |-> "ACK"]) \in Seq(UrgentItems)
  <2>1. [type |-> "ACK"] \in UrgentItems
    BY DEF UrgentItems, AckFrames
  <2> QED
    BY <1>9, <2>1
<1>11. Quiet(w, y)
  BY <1>9, <1>10 DEF Session, Quiet, Retouched, IgnoresOnTerm
<1> HIDE DEF y
<1>12. Keeps(s, y, R)
  BY <1>8, <1>11, KeepsQuiet
<1> QED
  BY <1>3, <1>8, <1>12

LEMMA OnGoawayKept ==
    ASSUME NEW s, SessionInv(s), NEW f \in GoawayFrames, NEW R,
           ~s.server => \A id \in Ids : id > f.last => id \in R
    PROVE  Keeps(s, nghttp2_session_on_goaway_received(s, f), R)
<1> DEFINE t == [s EXCEPT !.goaway = @ \cup {"recv"}, !.remote_last = f.last]
           y == nghttp2_session_on_goaway_received(s, f)
<1>1. s \in Session /\ f.last \in Int
  BY DEF SessionInv, GoawayFrames
<1>2. CASE s.remote_last < f.last
  <2>1. y = nghttp2_session_terminate_session(s, "protocol")
    BY <1>2 DEF nghttp2_session_on_goaway_received
  <2> QED
    BY <2>1, TerminateKept
<1>3. CASE ~(s.remote_last < f.last)
  <2>1. t \in Session
    BY <1>1 DEF Session, Flags
  <2>2. Quiet(s, t) /\ t.server = s.server
    BY <1>1, <2>1 DEF Session, Quiet, Retouched, IgnoresOnTerm
  <2>3. y = IF s.server THEN t ELSE session_close_stream_on_goaway(t, f.last)
    BY <1>3, Zenon DEF nghttp2_session_on_goaway_received
  <2> HIDE DEF t, y
  <2>4. Keeps(s, t, R)
    BY <2>2, QuietKeeps
  <2>5. CASE s.server
    BY <2>3, <2>4, <2>5 DEF y
  <2>6. CASE ~s.server
    <3>1. \A id \in Active(t) : id > f.last => id \in R
      BY <2>1, <2>6, ActiveFinite
    <3>2. Keeps(t, session_close_stream_on_goaway(t, f.last), R)
      BY <1>1, <2>4, <3>1, CloseOnGoaway DEF Keeps, Holds, Moved
    <3>3. Keeps(s, session_close_stream_on_goaway(t, f.last), R)
      BY <2>4, <3>2, FollowsTrans
    <3> QED
      BY <2>3, <2>6, <3>3 DEF y
  <2> QED
    BY <2>5, <2>6
<1> QED
  BY <1>2, <1>3

-----------------------------------------------------------------------------
(* Opening streams.                                                        *)

\* t has the queues, limits and ids of s.
SameElsewhere(s, t) ==
    /\ t.server = s.server /\ t.closed_q = s.closed_q
    /\ t.reg = s.reg /\ t.syn = s.syn /\ t.aob = s.aob
    /\ t.next_id = s.next_id /\ t.last_sent = s.last_sent
    /\ t.last_recv = s.last_recv /\ t.last_proc = s.last_proc
    /\ t.local_last = s.local_last /\ t.goaway = s.goaway
    /\ t.reason = s.reason /\ t.inflight = s.inflight /\ t.ign_all = s.ign_all

\* A stream of which neither half ended.
Fresh(t, id, e) ==
    t.streams[id].state = e /\ ~t.streams[id].rd /\ ~t.streams[id].wr

\* What opening a stream does to the map.
LEMMA OpenMap ==
    ASSUME NEW s, SessionInv(s), NEW id \in Ids, NEW e \in {"initial", "opening"},
           id \notin DOMAIN s.streams,
           NEW o, o = nghttp2_session_open_stream(s, id, e)
    PROVE  /\ o \in Session /\ o.num = s.num + 1
           /\ DOMAIN o.streams = DOMAIN s.streams \cup {id}
           /\ Active(o) = Active(s) \cup {id} /\ o.num = Cardinality(Active(o))
           /\ \A i \in DOMAIN s.streams : o.streams[i] = s.streams[i]
           /\ SameElsewhere(s, o) /\ Fresh(o, id, e)
<1> DEFINE st == NewStream(s, e)
           m == [i \in DOMAIN s.streams \cup {id} |-> IF i = id THEN st ELSE s.streams[i]]
<1>0. s \in Session
  BY DEF SessionInv
<1>1. o = [s EXCEPT !.streams = m, !.num = s.num + 1]
  BY <1>0 DEF nghttp2_session_open_stream, Session
<1>2. st \in Stream /\ ~st.closed /\ st.state = e /\ ~st.rd /\ ~st.wr
  <2>1. s.remote_iw \in Int /\ s.local_iw \in Int
    BY <1>0 DEF Session
  <2> QED
    BY <2>1 DEF NewStream, Stream
<1>3. s.streams \in [DOMAIN s.streams -> Stream] /\ DOMAIN s.streams \subseteq Ids
  BY <1>0, MapsDef DEF Session
<1> HIDE DEF st
<1>4. m \in [DOMAIN m -> Stream] /\ DOMAIN m = DOMAIN s.streams \cup {id}
  BY <1>2, <1>3
<1>5. m \in StreamMaps
  BY <1>3, <1>4, MapsDef
<1>6. /\ ~m[id].closed /\ m[id].state = e /\ ~m[id].rd /\ ~m[id].wr
      /\ \A i \in DOMAIN s.streams : m[i] = s.streams[i]
  BY <1>2
<1> HIDE DEF m
<1>7. o \in Session /\ o.streams = m /\ o.num = s.num + 1
  <2> DEFINE n == s.num + 1
  <2>1. s.num \in Int
    BY <1>0 DEF Session
  <2>2. n \in Int /\ o = [s EXCEPT !.streams = m, !.num = n]
    BY <1>1, <2>1
  <2> HIDE DEF n
  <2> DEFINE u == [s EXCEPT !.streams = m, !.num = n]
  <2>3. u \in Session
    BY <1>0, <1>5, <2>2 DEF Session
  <2>4. u.streams = m /\ u.num = n
    BY <1>0 DEF Session
  <2> QED
    BY <2>2, <2>3, <2>4, Zenon DEF n
<1>8. SameElsewhere(s, o)
  BY <1>0, <1>1 DEF Session, SameElsewhere
<1>9. Active(o) = Active(s) \cup {id}
  BY <1>4, <1>6, <1>7 DEF Active
<1>10. id \notin Active(s) /\ IsFiniteSet(Active(s))
  BY <1>0, ActiveFinite DEF Active
<1>11. Cardinality(Active(s) \cup {id}) = Cardinality(Active(s)) + 1
  BY <1>10, FS_AddElement
<1>12. s.num = Cardinality(Active(s))
  BY DEF SessionInv
<1>13. Fresh(o, id, e)
  BY <1>6, <1>7 DEF Fresh
<1> QED
  BY <1>4, <1>6, <1>7, <1>8, <1>9, <1>11, <1>12, <1>13

\* The server has seen HEADERS with a new id.
Seen(s, id) == [s EXCEPT !.last_recv = id]

LEMMA SeenKept ==
    ASSUME NEW s, SessionInv(s), NEW id \in Ids, id > s.last_recv
    PROVE  /\ SessionInv(Seen(s, id)) /\ Seen(s, id).last_recv = id
           /\ Seen(s, id).streams = s.streams /\ Active(Seen(s, id)) = Active(s)
           /\ Seen(s, id).server = s.server /\ Seen(s, id).syn = s.syn
           /\ Seen(s, id).reg = s.reg /\ Seen(s, id).aob = s.aob
           /\ Seen(s, id).goaway = s.goaway /\ Seen(s, id).reason = s.reason
           /\ Seen(s, id).local_last = s.local_last /\ Seen(s, id).last_proc = s.last_proc
           /\ Seen(s, id).last_sent = s.last_sent /\ Seen(s, id).next_id = s.next_id
           /\ Seen(s, id).num = s.num /\ Seen(s, id).closed_q = s.closed_q
           /\ Seen(s, id).ign_all = s.ign_all
<1> DEFINE r == Seen(s, id)
<1>1. s \in Session /\ id \in Nat
  BY DEF SessionInv, Ids
<1>2. /\ r \in Session /\ r.last_recv = id /\ r.streams = s.streams
      /\ r.server = s.server /\ r.syn = s.syn /\ r.reg = s.reg /\ r.aob = s.aob
      /\ r.goaway = s.goaway /\ r.reason = s.reason /\ r.local_last = s.local_last
      /\ r.last_proc = s.last_proc /\ r.last_sent = s.last_sent /\ r.next_id = s.next_id
      /\ r.num = s.num /\ r.closed_q = s.closed_q /\ r.ign_all = s.ign_all
  BY <1>1 DEF Session, Seen
<1>3. Active(r) = Active(s)
  BY <1>2 DEF Active
<1>4. s.last_proc \in Nat /\ s.last_recv \in Nat
  BY <1>1 DEF Session
<1> HIDE DEF r
<1>5. SessionInv(r)
  BY <1>1, <1>2, <1>3, <1>4 DEF SessionInv
<1> QED
  BY <1>2, <1>3, <1>5 DEF r

\* Streams that are not open leave the map; the oldest entries leave the queue.
Trimmed(o, m, q) == [o EXCEPT !.closed_q = q, !.streams = m]

LEMMA AdjustClosed ==
    ASSUME NEW o \in Session,
           \A i \in 1..Len(o.closed_q) : o.closed_q[i] \notin Active(o)
    PROVE  \E m \in StreamMaps, q \in Seq(Ids) :
              /\ nghttp2_session_adjust_closed_stream(o) = Trimmed(o, m, q)
              /\ DOMAIN m \subseteq DOMAIN o.streams /\ OpenIn(m) = Active(o)
              /\ \A i \in OpenIn(m) : m[i] = o.streams[i]
              /\ \A i \in 1..Len(q) : \E j \in 1..Len(o.closed_q) : q[i] = o.closed_q[j]
<1> DEFINE max == IF o.local_mc = Unlimited THEN o.pending_mc ELSE o.local_mc
           excess == Len(o.closed_q) + o.num - max
           n == IF excess <= 0 THEN 0 ELSE LeastOf(excess, Len(o.closed_q))
           gone == {o.closed_q[i] : i \in 1..n}
           m == [i \in DOMAIN o.streams \ gone |-> o.streams[i]]
           q == SubSeq(o.closed_q, n + 1, Len(o.closed_q))
<1>1. o.num \in Int /\ o.local_mc \in Int /\ o.pending_mc \in Int /\ o.closed_q \in Seq(Ids)
  BY DEF Session
<1>2. Len(o.closed_q) \in Nat
  BY <1>1
<1>3. max \in Int
  BY <1>1
<1> HIDE DEF max
<1>4. n \in 0..Len(o.closed_q)
  BY <1>1, <1>2, <1>3 DEF LeastOf
<1>5. nghttp2_session_adjust_closed_stream(o) = Trimmed(o, m, q)
  <2>1. nghttp2_session_adjust_closed_stream(o)
          = [o EXCEPT !.closed_q = SubSeq(@, n + 1, Len(@)),
                      !.streams = [i \in DOMAIN @ \ gone |-> @[i]]]
    BY Zenon DEF nghttp2_session_adjust_closed_stream, max
  <2> HIDE DEF gone, n
  <2> QED
    BY <2>1 DEF Session, Trimmed
<1> HIDE DEF n
<1>6. o.streams \in [DOMAIN o.streams -> Stream] /\ DOMAIN o.streams \subseteq Ids
  BY MapsDef DEF Session
<1>7. gone \cap Active(o) = {}
  BY <1>2, <1>4
<1> HIDE DEF gone
<1>8. m \in StreamMaps /\ DOMAIN m \subseteq DOMAIN o.streams
  BY <1>6, MapsDef
<1>9. OpenIn(m) = Active(o) /\ \A i \in OpenIn(m) : m[i] = o.streams[i]
  BY <1>7 DEF OpenIn, Active
<1>10. /\ q \in Seq(Ids)
       /\ \A i \in 1..Len(q) : \E j \in 1..Len(o.closed_q) : q[i] = o.closed_q[j]
  BY <1>1, <1>2, <1>4
<1> HIDE DEF m, q
<1> QED
  BY <1>5, <1>8, <1>9, <1>10

\* t is the server s after it opened the stream id of a new request.
Opens(s, t, id) ==
    /\ SessionInv(t) /\ t.server /\ Active(t) = Active(s) \cup {id}
    /\ t.reg = s.reg /\ t.aob = s.aob /\ t.goaway = s.goaway /\ t.reason = s.reason
    /\ t.local_last = s.local_last /\ t.last_recv = id /\ t.last_proc = id
    /\ t.last_sent = s.last_sent /\ t.next_id = s.next_id
    /\ t.ign_all = s.ign_all /\ t.syn = s.syn
    /\ \A i \in Active(s) : t.streams[i] = s.streams[i]
    /\ Fresh(t, id, "opening")

LEMMA RequestOpened ==
    ASSUME NEW s, SessionInv(s), s.server, NEW id \in Ids, id > s.last_recv
    PROVE  Opens(s, [nghttp2_session_adjust_closed_stream(
                       nghttp2_session_open_stream(Seen(s, id), id, "opening"))
                       EXCEPT !.last_proc = id], id)
<1> DEFINE r == Seen(s, id)
           o == nghttp2_session_open_stream(r, id, "opening")
           a == nghttp2_session_adjust_closed_stream(o)
           t == [a EXCEPT !.last_proc = id]
<1>1. /\ SessionInv(r) /\ r.last_recv = id /\ r.streams = s.streams
      /\ Active(r) = Active(s) /\ r.server = s.server /\ r.syn = s.syn
      /\ r.reg = s.reg /\ r.aob = s.aob /\ r.goaway = s.goaway /\ r.reason = s.reason
      /\ r.local_last = s.local_last /\ r.last_proc = s.last_proc
      /\ r.last_sent = s.last_sent /\ r.next_id = s.next_id /\ r.num = s.num
      /\ r.closed_q = s.closed_q /\ r.ign_all = s.ign_all
  BY SeenKept
<1>2. s \in Session /\ r \in Session /\ s.last_proc \in Nat /\ s.last_recv \in Nat /\ id \in Nat
  BY <1>1 DEF SessionInv, Session, Ids
<1> HIDE DEF r
<1>3. id \notin DOMAIN r.streams
  BY <1>1, <1>2 DEF SessionInv
<1>4. /\ o \in Session /\ o.num = Cardinality(Active(o))
      /\ DOMAIN o.streams = DOMAIN r.streams \cup {id}
      /\ Active(o) = Active(r) \cup {id} /\ SameElsewhere(r, o) /\ Fresh(o, id, "opening")
      /\ \A i \in DOMAIN r.streams : o.streams[i] = r.streams[i]
  BY <1>1, <1>3, OpenMap
<1> HIDE DEF o
<1>5. \A i \in 1..Len(o.closed_q) : o.closed_q[i] \notin Active(o) /\ o.closed_q[i] <= s.last_proc
  BY <1>1, <1>2, <1>4 DEF SessionInv, SameElsewhere
<1>6. PICK m \in StreamMaps, q \in Seq(Ids) :
         /\ a = Trimmed(o, m, q)
         /\ DOMAIN m \subseteq DOMAIN o.streams /\ OpenIn(m) = Active(o)
         /\ \A i \in OpenIn(m) : m[i] = o.streams[i]
         /\ \A i \in 1..Len(q) : \E j \in 1..Len(o.closed_q) : q[i] = o.closed_q[j]
  BY <1>4, <1>5, AdjustClosed
<1> DEFINE u == [o EXCEPT !.closed_q = q, !.streams = m, !.last_proc = id]
<1>7. t = u
  <2> HIDE DEF a
  <2> QED
    BY <1>4, <1>6 DEF Session, Trimmed
<1>8. /\ u \in Session /\ u.streams = m /\ u.closed_q = q /\ u.last_proc = id
      /\ u.num = o.num /\ u.server = o.server /\ u.reg = o.reg /\ u.syn = o.syn
      /\ u.aob = o.aob /\ u.goaway = o.goaway /\ u.reason = o.reason
      /\ u.local_last = o.local_last /\ u.last_recv = o.last_recv
      /\ u.last_sent = o.last_sent /\ u.next_id = o.next_id /\ u.ign_all = o.ign_all
  BY <1>2, <1>4 DEF Session
<1> HIDE DEF u
<1>9. Active(u) = Active(o)
  BY <1>6, <1>8 DEF Active, OpenIn
<1>10. \A i \in 1..Len(u.closed_q) : u.closed_q[i] \notin Active(u) /\ u.closed_q[i] <= u.last_proc
  <2> SUFFICES ASSUME NEW i \in 1..Len(q) PROVE q[i] \notin Active(o) /\ q[i] <= id
    BY <1>8, <1>9
  <2>1. PICK j \in 1..Len(o.closed_q) : q[i] = o.closed_q[j]
    BY <1>6
  <2>2. q[i] \in Ids
    BY <1>6
  <2>3. s.last_proc < id
    BY <1>2 DEF SessionInv
  <2> QED
    <3>1. q[i] \in Nat
      BY <2>2, IdsNat
    <3>2. q[i] \notin Active(o) /\ q[i] <= s.last_proc
      BY <1>5, <2>1
    <3> QED
      BY <1>2, <2>3, <3>1, <3>2
<1>11. \A i \in DOMAIN u.streams : i <= id
  <2>0. DOMAIN s.streams \subseteq Ids
    BY <1>2, MapsDef DEF Session
  <2>1. \A i \in DOMAIN s.streams : i <= s.last_proc /\ i \in Nat
    BY <2>0, IdsNat DEF SessionInv
  <2>2. s.last_proc < id
    BY <1>2 DEF SessionInv
  <2> QED
    BY <1>1, <1>2, <1>4, <1>6, <1>8, <2>1, <2>2
<1>12. SessionInv(u)
  <2>1. /\ u.syn = s.syn /\ u.last_sent = s.last_sent /\ u.next_id = s.next_id
        /\ u.server /\ u.last_recv = id /\ u.num = Cardinality(Active(u))
    BY <1>1, <1>4, <1>8, <1>9 DEF SameElsewhere
  <2>2. s.syn = <<>> /\ s.last_sent < s.next_id
    BY DEF SessionInv
  <2>3. \A i \in 1..Len(u.syn) : FALSE
    BY <2>1, <2>2
  <2> QED
    BY <1>2, <1>8, <1>10, <1>11, <2>1, <2>2, <2>3 DEF SessionInv
<1>13. (\A i \in Active(s) : u.streams[i] = s.streams[i]) /\ Fresh(u, id, "opening")
  <2>1. \A i \in Active(o) : u.streams[i] = o.streams[i]
    BY <1>6, <1>8
  <2>2. Active(s) \subseteq DOMAIN r.streams /\ Active(s) \subseteq Active(o) /\ id \in Active(o)
    BY <1>1, <1>4 DEF Active
  <2> QED
    BY <1>1, <1>4, <2>1, <2>2 DEF Fresh
<1>14. Opens(s, u, id)
  BY <1>1, <1>4, <1>8, <1>9, <1>12, <1>13 DEF Opens, SameElsewhere
<1> QED
  BY <1>7, <1>14 DEF o, r

-----------------------------------------------------------------------------
(* Receiving.                                                              *)

\* The streams that a frame tells their end as refused.
RefusedBy(f) ==
    {id \in Ids : \/ f.type = "RST_STREAM" /\ f.error = "refused" /\ id = f.id
                  \/ f.type = "GOAWAY" /\ id > f.last}

\* t is the server s after it refused the request id.
Refuses(s, t, id) ==
    /\ SessionInv(t)
    /\ t = [Seen(s, id) EXCEPT !.reg =
              Append(@, [type |-> "RST_STREAM", id |-> id, error |-> "refused"])]

\* What the arrival of f may make of the session s: a new request is ignored, refused
\* or opened; HEADERS and DATA may end the peer's half of a stream; everything else only
\* moves the session on.
Receives(s, t, f) ==
    \/ Moved(s, t, RefusedBy(f)) /\ Calm(s, t)
    \/ /\ f.type \in {"HEADERS", "DATA"} /\ f.id \in Active(s) /\ ~s.streams[f.id].rd
       /\ f.type = "DATA" =>
            /\ DataVerdict(s, f.id) = "take"
            /\ IgnoresOnTerm(s) /\ ~s.ign_all => f.len = 0 \/ ~OverWindow(s, f.len)
       /\ Holds(s, t, RefusedBy(f)) /\ Arrives(s, t, f, RefusedBy(f))
    \/ /\ f.type = "HEADERS" /\ s.server /\ f.id \in Ids /\ f.id > s.last_recv
       /\ \/ Keeps(Seen(s, f.id), t, {})
          \/ Refuses(s, t, f.id)
          \/ /\ "sent" \notin s.goaway
             /\ \E o : Opens(s, o, f.id) /\ Holds(o, t, {}) /\ Hears(o, t, f, {})

LEMMA ReceivesShape ==
    ASSUME NEW s, NEW t, NEW f, Receives(s, t, f)
    PROVE  \/ Moved(s, t, RefusedBy(f))
           \/ /\ f.type = "HEADERS" /\ s.server /\ f.id \in Ids /\ f.id > s.last_recv
              /\ \/ Moved(Seen(s, f.id), t, {})
                 \/ Refuses(s, t, f.id)
                 \/ /\ "sent" \notin s.goaway
                    /\ \E o : Opens(s, o, f.id) /\ Moved(o, t, {})
  BY DEF Receives, Keeps, Holds

LEMMA Refused ==
    ASSUME NEW s, SessionInv(s), s.server, NEW id \in Ids, id > s.last_recv
    PROVE  Refuses(s, nghttp2_session_add_rst_stream(Seen(s, id), id, "refused"), id)
<1> DEFINE r == Seen(s, id)
           f == [type |-> "RST_STREAM", id |-> id, error |-> "refused"]
           t == [r EXCEPT !.reg = Append(@, f)]
<1>1. /\ SessionInv(r) /\ r.last_recv = id /\ r.server /\ r.syn = <<>>
      /\ Active(r) = Active(s)
  BY SeenKept DEF SessionInv
<1>2. r \in Session /\ s \in Session /\ id \in Nat /\ s.last_recv \in Nat
  BY <1>1, IdsNat DEF SessionInv, Session
<1>3. id \notin Active(s)
  <2>1. \A i \in Active(s) : i <= s.last_proc
    BY DEF SessionInv, Active
  <2>3. s.last_proc \in Nat
    BY <1>2 DEF Session
  <2>2. s.last_proc < id
    BY <1>2, <2>3 DEF SessionInv
  <2> QED
    BY <1>2, <2>1, <2>2, <2>3
<1> HIDE DEF r
<1>4. ~Live(r, id)
  BY <1>1, <1>2, <1>3, ActiveFinite
<1>5. nghttp2_session_add_rst_stream(r, id, "refused") = t
  <2>1. {i \in DOMAIN r.syn : r.syn[i].id = id /\ ~r.syn[i].canceled} = {}
    BY <1>1
  <2>2. ~(IF r.server THEN r.last_recv < id ELSE id >= r.next_id)
    BY <1>1, <1>2
  <2> QED
    BY <1>4, <2>1, <2>2, Zenon DEF nghttp2_session_add_rst_stream
<1>6. f \in RegularItems
  BY DEF RegularItems, RstFrames, Reasons, Faults
<1> HIDE DEF f
<1>7. SessionInv(t)
  <2>1. r.reg \in Seq(RegularItems) /\ Append(r.reg, f) \in Seq(RegularItems)
    BY <1>2, <1>6 DEF Session
  <2>2. /\ t \in Session /\ t.streams = r.streams /\ t.server = r.server
        /\ t.num = r.num /\ t.closed_q = r.closed_q /\ t.syn = r.syn
        /\ t.next_id = r.next_id /\ t.last_sent = r.last_sent
        /\ t.last_recv = r.last_recv /\ t.last_proc = r.last_proc
    BY <1>2, <2>1 DEF Session
  <2>3. Active(t) = Active(r)
    BY <2>2 DEF Active
  <2> HIDE DEF t
  <2> QED
    BY <1>1, <2>2, <2>3 DEF SessionInv
<1> QED
  BY <1>5, <1>7 DEF Refuses, r, f

LEMMA OnRequestKept ==
    ASSUME NEW s, SessionInv(s), NEW f \in HeadersFrames
    PROVE  Receives(s, nghttp2_session_on_request_headers_received(s, f), f)
<1> DEFINE t == nghttp2_session_on_request_headers_received(s, f)
           r == Seen(s, f.id)
           o == [nghttp2_session_adjust_closed_stream(
                   nghttp2_session_open_stream(r, f.id, "opening")) EXCEPT !.last_proc = f.id]
<1>1. f.id \in Ids /\ f.type = "HEADERS" /\ f.id \in Nat /\ s.last_recv \in Nat
  BY IdsNat DEF HeadersFrames, SessionInv, Session
<1>2. /\ \A e \in {"protocol", "flow_control", "stream_closed"} :
           Keeps(s, nghttp2_session_terminate_session(s, e), RefusedBy(f))
      /\ Keeps(s, s, RefusedBy(f))
  BY TerminateKept, FollowsRefl
<1>3. CASE ~s.server
  <2>1. t = IF session_detect_idle_stream(s, f.id)
            THEN nghttp2_session_terminate_session(s, "protocol") ELSE s
    BY <1>3, Zenon DEF nghttp2_session_on_request_headers_received
  <2>2. Keeps(s, t, RefusedBy(f))
    BY <1>2, <2>1
  <2> QED
    BY <2>2 DEF Receives, Keeps, Holds
<1>4. CASE s.server /\ f.id <= s.last_recv
  <2>1. t = IF f.id \in DOMAIN s.streams /\ s.streams[f.id].rd
            THEN nghttp2_session_terminate_session(s, "stream_closed") ELSE s
    BY <1>4, Zenon DEF nghttp2_session_on_request_headers_received
  <2>2. Keeps(s, t, RefusedBy(f))
    BY <1>2, <2>1
  <2> QED
    BY <2>2 DEF Receives, Keeps, Holds
<1>5. CASE s.server /\ ~(f.id <= s.last_recv)
  <2>1. f.id > s.last_recv
    BY <1>1, <1>5
  <2>2. t = IF session_is_incoming_concurrent_streams_max(r)
            THEN nghttp2_session_terminate_session(r, "protocol")
            ELSE IF ~session_allow_incoming_new_stream(r) THEN r
            ELSE IF session_is_incoming_concurrent_streams_pending_max(r)
            THEN nghttp2_session_add_rst_stream(r, f.id, "refused")
            ELSE EndStream(o, f)
    BY <1>5, Zenon DEF nghttp2_session_on_request_headers_received, Seen
  <2>3. SessionInv(r) /\ r.goaway = s.goaway
    BY <1>1, <2>1, SeenKept
  <2>4. Refuses(s, nghttp2_session_add_rst_stream(r, f.id, "refused"), f.id)
    BY <1>1, <1>5, <2>1, Refused
  <2>5. Opens(s, o, f.id)
    BY <1>1, <1>5, <2>1, RequestOpened
  <2> HIDE DEF t, r, o
  <2>6. Keeps(r, r, {}) /\ Keeps(r, nghttp2_session_terminate_session(r, "protocol"), {})
    BY <2>3, FollowsRefl, TerminateKept
  <2>7. Holds(o, EndStream(o, f), {}) /\ Hears(o, EndStream(o, f), f, {})
    BY <1>1, <2>5, EndStreamKept DEF Opens
  <2>8. session_allow_incoming_new_stream(r) => "sent" \notin s.goaway
    BY <2>3 DEF session_allow_incoming_new_stream
  <2>9. \/ Keeps(r, t, {}) \/ Refuses(s, t, f.id)
        \/ /\ "sent" \notin s.goaway /\ Opens(s, o, f.id)
           /\ Holds(o, t, {}) /\ Hears(o, t, f, {})
    BY <2>2, <2>4, <2>5, <2>6, <2>7, <2>8
  <2> QED
    BY <1>1, <1>5, <2>1, <2>9 DEF Receives, r, t
<1> QED
  BY <1>3, <1>4, <1>5

LEMMA ReceiveKept ==
    ASSUME NEW s, SessionInv(s), NEW f \in WireFrames
    PROVE  Receives(s, nghttp2_session_mem_recv(s, f), f)
<1> DEFINE t == nghttp2_session_mem_recv(s, f)
           R == RefusedBy(f)
<1> SUFFICES Receives(s, t, f)
  OBVIOUS
<1>1. Keeps(s, s, R) /\ Keeps(s, nghttp2_session_terminate_session(s, "protocol"), R)
  BY FollowsRefl, TerminateKept
<1>2. CASE ~nghttp2_session_want_read(s) \/ s.ign_all
  <2>1. t = s
    BY <1>2, Zenon DEF nghttp2_session_mem_recv
  <2> QED
    BY <1>1, <2>1 DEF Receives, Keeps, Holds
<1>3. CASE /\ ~(~nghttp2_session_want_read(s) \/ s.ign_all)
           /\ ~s.settings_recv /\ f.type # "SETTINGS"
  <2>1. t = nghttp2_session_terminate_session(s, "protocol")
    BY <1>3, Zenon DEF nghttp2_session_mem_recv
  <2> QED
    BY <1>1, <2>1 DEF Receives, Keeps, Holds
<1>4. CASE /\ ~(~nghttp2_session_want_read(s) \/ s.ign_all)
           /\ ~(~s.settings_recv /\ f.type # "SETTINGS")
  <2>1. t = CASE f.type = "HEADERS" -> session_process_headers_frame(s, f)
              [] f.type = "DATA" -> session_process_data_frame(s, f)
              [] f.type = "RST_STREAM" -> nghttp2_session_on_rst_stream_received(s, f)
              [] f.type = "SETTINGS" -> nghttp2_session_on_settings_received(s, f)
              [] f.type = "ACK" -> OnSettingsAck(s)
              [] f.type = "GOAWAY" -> nghttp2_session_on_goaway_received(s, f)
              [] f.type = "WINDOW_UPDATE" -> nghttp2_session_on_window_update_received(s, f)
    BY <1>4, Zenon DEF nghttp2_session_mem_recv
  <2> HIDE DEF t
  <2>2. CASE f \in HeadersFrames
    <3>1. f.type = "HEADERS" /\ f.id \in Ids
      BY <2>2 DEF HeadersFrames
    <3>2. t = session_process_headers_frame(s, f)
      BY <2>1, <3>1
    <3>3. CASE Live(s, f.id)
      <4>1. t = nghttp2_session_on_response_headers_received(s, f)
        BY <3>2, <3>3, Zenon DEF session_process_headers_frame
      <4>2. /\ Holds(s, t, R)
            /\ Calm(s, t) \/ (~s.streams[f.id].rd /\ Arrives(s, t, f, R))
        BY <3>1, <3>3, <4>1, OnResponseKept
      <4>3. f.id \in Active(s) /\ f.type # "DATA"
        BY <3>1, <3>3 DEF Live, Active
      <4> QED
        BY <3>1, <4>2, <4>3 DEF Receives, Holds
    <3>4. CASE ~Live(s, f.id)
      <4>2. t = nghttp2_session_on_request_headers_received(s, f)
        BY <3>2, <3>4, Zenon DEF session_process_headers_frame
      <4> QED
        BY <2>2, <4>2, OnRequestKept
    <3> QED
      BY <3>3, <3>4
  <2>3. CASE f \in DataFrames
    <3>1. f.type = "DATA"
      BY <2>3 DEF DataFrames
    <3>2. t = session_process_data_frame(s, f)
      BY <2>1, <3>1
    <3>3. /\ Holds(s, t, R)
          /\ \/ Calm(s, t)
             \/ /\ DataVerdict(s, f.id) = "take" /\ Arrives(s, t, f, R)
                /\ IgnoresOnTerm(s) /\ ~s.ign_all => f.len = 0 \/ ~OverWindow(s, f.len)
      BY <2>3, <3>2, ProcessDataKept
    <3>4. DataVerdict(s, f.id) = "take" => f.id \in Active(s) /\ ~s.streams[f.id].rd
      BY TakenStream
    <3> QED
      BY <3>1, <3>3, <3>4 DEF Receives, Holds
  <2>4. CASE f \in RstFrames
    <3>1. f.type = "RST_STREAM" /\ f.id \in Ids
      BY <2>4 DEF RstFrames
    <3>2. t = nghttp2_session_on_rst_stream_received(s, f)
      BY <2>1, <3>1
    <3>3. f.error = "refused" => f.id \in R
      BY <3>1 DEF RefusedBy
    <3> HIDE DEF R
    <3>4. Keeps(s, t, R)
      BY <2>4, <3>2, <3>3, OnRstKept
    <3> QED
      BY <3>4 DEF Receives, Keeps, Holds, R
  <2>5. CASE f \in SettingsFrames
    <3>1. f.type = "SETTINGS"
      BY <2>5 DEF SettingsFrames
    <3>2. t = nghttp2_session_on_settings_received(s, f)
      BY <2>1, <3>1
    <3> QED
      BY <2>5, <3>2, OnSettingsKept DEF Receives, Keeps, Holds
  <2>6. CASE f \in AckFrames
    <3>1. f.type = "ACK"
      BY <2>6 DEF AckFrames
    <3>2. t = OnSettingsAck(s)
      BY <2>1, <3>1
    <3> QED
      BY <3>2, OnAckKept DEF Receives
  <2>7. CASE f \in GoawayFrames
    <3>1. f.type = "GOAWAY"
      BY <2>7 DEF GoawayFrames
    <3>2. t = nghttp2_session_on_goaway_received(s, f)
      BY <2>1, <3>1
    <3>3. \A id \in Ids : id > f.last => id \in R
      BY <3>1 DEF RefusedBy
    <3> HIDE DEF R
    <3>4. Keeps(s, t, R)
      BY <2>7, <3>2, <3>3, OnGoawayKept
    <3> QED
      BY <3>4 DEF Receives, Keeps, Holds, R
  <2>8. CASE f \in UpdateFrames
    <3>1. f.type = "WINDOW_UPDATE"
      BY <2>8 DEF UpdateFrames
    <3>2. t = nghttp2_session_on_window_update_received(s, f)
      BY <2>1, <3>1
    <3> QED
      BY <2>8, <3>2, OnUpdateKept DEF Receives, Keeps, Holds
  <2> QED
    BY <2>2, <2>3, <2>4, <2>5, <2>6, <2>7, <2>8 DEF WireFrames, UrgentItems
<1> QED
  BY <1>2, <1>3, <1>4

-----------------------------------------------------------------------------
(* Sending.                                                                *)

\* What a session keeps when only the given fields change.
SameStreams(s, t) ==
    /\ t.streams = s.streams /\ t.num = s.num /\ t.closed_q = s.closed_q
    /\ t.server = s.server /\ t.last_sent = s.last_sent /\ t.next_id = s.next_id
    /\ t.last_recv = s.last_recv /\ t.last_proc = s.last_proc

LEMMA SameStreamsKept ==
    ASSUME NEW s, SessionInv(s), NEW t \in Session, SameStreams(s, t), t.syn = s.syn
    PROVE  SessionInv(t) /\ Active(t) = Active(s)
<1>1. Active(t) = Active(s)
  BY DEF SameStreams, Active
<1> QED
  BY <1>1 DEF SameStreams, SessionInv

\* The prepared frame left.
Written(s) == [s EXCEPT !.aob = <<>>]

LEMMA WrittenKept ==
    ASSUME NEW s, SessionInv(s)
    PROVE  /\ SessionInv(Written(s)) /\ Active(Written(s)) = Active(s)
           /\ Written(s).aob = <<>> /\ SameStreams(s, Written(s))
           /\ Written(s).reg = s.reg /\ Written(s).syn = s.syn /\ Written(s).goaway = s.goaway
           /\ Written(s).reason = s.reason /\ Written(s).local_last = s.local_last
           /\ Written(s).urgent = s.urgent /\ Written(s).ign_all = s.ign_all
<1> DEFINE t == Written(s)
<1>1. s \in Session
  BY DEF SessionInv
<1>2. t \in Session
  <2> DEFINE e == <<>>
             u == [s EXCEPT !.aob = e]
  <2>1. e \in Seq(PreparedItems) /\ t = u
    BY DEF Written
  <2> HIDE DEF e
  <2>2. u \in Session
    BY <1>1, <2>1 DEF Session
  <2> QED
    BY <2>1, <2>2, Zenon
<1>3. /\ t.aob = <<>> /\ SameStreams(s, t)
      /\ t.reg = s.reg /\ t.syn = s.syn /\ t.goaway = s.goaway
      /\ t.reason = s.reason /\ t.local_last = s.local_last /\ t.urgent = s.urgent
      /\ t.ign_all = s.ign_all
  BY <1>1 DEF Session, Written, SameStreams
<1> HIDE DEF t
<1>4. SessionInv(t) /\ Active(t) = Active(s)
  BY <1>2, <1>3, SameStreamsKept
<1> QED
  BY <1>3, <1>4 DEF t

\* What the session s becomes when its prepared frame f has left: HEADERS and DATA may
\* end its half of a stream, RST_STREAM closes one.
Sends(s, t, f) ==
    \/ /\ f.type = "GOAWAY" => f.aux = "notice" /\ t = Written(s)
       /\ Holds(Written(s), t, RefusedBy(f))
       /\ f.type = "RST_STREAM" => f.id \notin Active(t)
       /\ \/ Calm(Written(s), t) /\ (f.type = "HEADERS" => f.id \notin Active(s))
             /\ (f.type = "DATA" => f.id \notin Active(s) \/ ~f.end)
          \/ /\ f.type = "HEADERS" /\ f.id \in Active(s)
             /\ Keeps(Headed(Written(s), f.id, f.end), t, RefusedBy(f))
          \/ /\ f.type = "DATA" /\ f.end /\ f.id \in Active(s)
             /\ \E u : /\ Quiet(Written(s), u) /\ f.id \in DOMAIN u.streams
                      /\ Keeps(Drained(u, f.id), t, RefusedBy(f))
    \/ /\ f.type = "GOAWAY" /\ f.aux # "notice"
       /\ SessionInv(GoawayOut(Written(s), f))
       /\ Keeps(GoawayOut(Written(s), f), t, Ids)
       /\ s.server => \A id \in Active(t) : id <= f.last
       /\ ~s.server => t = GoawayOut(Written(s), f)

LEMMA SendsShape ==
    ASSUME NEW s, NEW t, NEW f, Sends(s, t, f)
    PROVE  \/ /\ f.type = "GOAWAY" => f.aux = "notice" /\ t = Written(s)
              /\ Holds(Written(s), t, RefusedBy(f))
           \/ /\ f.type = "GOAWAY" /\ f.aux # "notice"
              /\ SessionInv(GoawayOut(Written(s), f))
              /\ Keeps(GoawayOut(Written(s), f), t, Ids)
              /\ s.server => \A id \in Active(t) : id <= f.last
              /\ ~s.server => t = GoawayOut(Written(s), f)
  BY DEF Sends

LEMMA SentKept ==
    ASSUME NEW s, SessionInv(s), NEW f \in PreparedItems
    PROVE  Sends(s, session_after_frame_sent(s, f), f)
<1> DEFINE w == Written(s)
           t == session_after_frame_sent(s, f)
           R == RefusedBy(f)
<1> SUFFICES Sends(s, t, f)
  OBVIOUS
<1>1. SessionInv(w) /\ w.server = s.server /\ Active(w) = Active(s)
  BY WrittenKept DEF SameStreams
<1>2. t = CASE f.type = "HEADERS" -> AfterHeaders(w, f)
            [] f.type = "DATA" -> AfterData(w, f)
            [] f.type = "RST_STREAM" -> nghttp2_session_close_stream(w, f.id, f.error)
            [] f.type = "GOAWAY" -> AfterGoaway(w, f)
            [] f.type = "WINDOW_UPDATE" -> AfterWindowUpdate(w, f)
            [] OTHER -> w
  BY Zenon DEF session_after_frame_sent, Written
<1> HIDE DEF t
<1>3. CASE f \in Responses \cup RequestItems
  <2>1. f.type = "HEADERS" /\ f.id \in Ids /\ f.end \in BOOLEAN
    BY <1>3 DEF Responses, RequestItems
  <2>2. t = AfterHeaders(w, f)
    BY <1>2, <2>1
  <2> HIDE DEF w, R
  <2>3. /\ Holds(w, t, R)
        /\ ~Live(w, f.id) => t = w
        /\ Live(w, f.id) => Keeps(Headed(w, f.id, f.end), t, R)
    BY <1>1, <2>1, <2>2, AfterHeadersKept
  <2>4. Live(w, f.id) <=> f.id \in Active(s)
    BY <1>1 DEF Live, Active
  <2>5. Calm(w, w)
    BY <1>1, FollowsRefl DEF Keeps
  <2> QED
    BY <2>1, <2>3, <2>4, <2>5 DEF Sends, w, R
<1>4. CASE f \in DataFrames
  <2>1. f.type = "DATA" /\ f.id \in Ids /\ f.len \in Int
    BY <1>4 DEF DataFrames
  <2>2. t = AfterData(w, f)
    BY <1>2, <2>1
  <2> HIDE DEF w, R
  <2>3. /\ Holds(w, t, R)
        /\ ~Live(w, f.id) \/ ~f.end => Keeps(w, t, R)
        /\ Live(w, f.id) /\ f.end =>
              \E u : /\ Quiet(w, u) /\ f.id \in DOMAIN u.streams
                    /\ Keeps(Drained(u, f.id), t, R)
    BY <1>1, <2>1, <2>2, AfterDataKept
  <2>4. Live(w, f.id) <=> f.id \in Active(s)
    BY <1>1 DEF Live, Active
  <2> QED
    BY <2>1, <2>3, <2>4 DEF Sends, Keeps, w, R
<1>5. CASE f \in RstFrames
  <2>1. f.type = "RST_STREAM" /\ f.id \in Ids /\ f.error \in Reasons /\ f.error # "no_error"
    BY <1>5 DEF RstFrames, Faults
  <2>2. t = nghttp2_session_close_stream(w, f.id, f.error)
    BY <1>2, <2>1
  <2>3. f.error = "refused" => f.id \in R
    BY <2>1 DEF RefusedBy
  <2> HIDE DEF R, w
  <2>4. Keeps(w, t, R)
    BY <1>1, <2>1, <2>2, <2>3, CloseStream
  <2>5. f.id \notin Active(t)
    BY <1>1, <2>1, <2>2, <2>3, CloseStream
  <2> QED
    BY <2>1, <2>4, <2>5 DEF Sends, Keeps, R, w
<1>6. CASE f \in GoawayItems
  <2>1. f.type = "GOAWAY"
    BY <1>6 DEF GoawayItems
  <2>2. t = AfterGoaway(w, f)
    BY <1>2, <2>1
  <2>3. CASE f.aux = "notice"
    <3>1. t = w
      BY <2>2, <2>3, Zenon DEF AfterGoaway
    <3> QED
      BY <1>1, <2>1, <2>3, <3>1, FollowsRefl DEF Sends, Keeps
  <2>4. CASE f.aux # "notice"
    <3>1. /\ SessionInv(GoawayOut(w, f)) /\ Keeps(GoawayOut(w, f), t, Ids)
          /\ w.server => \A id \in Active(t) : id <= f.last
          /\ ~w.server => t = GoawayOut(w, f)
      BY <1>1, <1>6, <2>2, <2>4, AfterGoawayKept
    <3> QED
      BY <1>1, <2>1, <2>4, <3>1 DEF Sends
  <2> QED
    BY <2>3, <2>4
<1>7. CASE f \in UpdateFrames
  <2>1. f.type = "WINDOW_UPDATE"
    BY <1>7 DEF UpdateFrames
  <2>2. t = AfterWindowUpdate(w, f)
    BY <1>2, <2>1
  <2> QED
    BY <1>1, <1>7, <2>1, <2>2, AfterUpdateKept DEF Sends, Keeps
<1>8. CASE f \in UrgentItems
  <2>1. f.type \in {"SETTINGS", "ACK"}
    BY <1>8 DEF UrgentItems, SettingsFrames, AckFrames
  <2>2. t = w
    BY <1>2, <2>1
  <2> QED
    BY <1>1, <2>1, <2>2, FollowsRefl DEF Sends, Keeps
<1> QED
  BY <1>3, <1>4, <1>5, <1>6, <1>7, <1>8 DEF PreparedItems, RegularItems

-----------------------------------------------------------------------------
(* Preparing frames.                                                       *)

LEMMA UrgentTaken ==
    ASSUME NEW s, SessionInv(s), s.urgent # <<>>
    PROVE  LET t == [s EXCEPT !.urgent = Tail(@)]
           IN  /\ SessionInv(t) /\ Active(t) = Active(s) /\ Head(s.urgent) \in UrgentItems
               /\ SameStreams(s, t) /\ SameElsewhere(s, t) /\ t.reg = s.reg
<1> DEFINE l == Tail(s.urgent)
           t == [s EXCEPT !.urgent = l]
<1>1. s \in Session
  BY DEF SessionInv
<1>2. l \in Seq(UrgentItems) /\ Head(s.urgent) \in UrgentItems
  <2>1. s.urgent \in Seq(UrgentItems)
    BY <1>1 DEF Session
  <2> QED
    BY <2>1
<1> HIDE DEF l
<1>3. t \in Session
  BY <1>1, <1>2 DEF Session
<1>4. SameStreams(s, t) /\ SameElsewhere(s, t) /\ t.reg = s.reg /\ t.syn = s.syn
  BY <1>1 DEF Session, SameStreams, SameElsewhere
<1> HIDE DEF t
<1>5. SessionInv(t) /\ Active(t) = Active(s)
  BY <1>3, <1>4, SameStreamsKept
<1> QED
  BY <1>2, <1>4, <1>5 DEF t, l

\* t is s with other frames waiting in ob_reg.
Requeued(s, t) ==
    /\ SessionInv(t) /\ Active(t) = Active(s) /\ SameStreams(s, t)
    /\ t.syn = s.syn /\ t.aob = s.aob /\ t.local_last = s.local_last
    /\ t.goaway = s.goaway /\ t.reason = s.reason /\ t.ign_all = s.ign_all

LEMMA RegularTaken ==
    ASSUME NEW s, SessionInv(s), s.reg # <<>>
    PROVE  LET t == [s EXCEPT !.reg = Tail(@)]
           IN  /\ Requeued(s, t) /\ t.reg = Tail(s.reg)
               /\ Head(s.reg) \in RegularItems
<1> DEFINE l == Tail(s.reg)
           t == [s EXCEPT !.reg = l]
<1>1. s \in Session
  BY DEF SessionInv
<1>2. l \in Seq(RegularItems) /\ Head(s.reg) \in RegularItems
  <2>1. s.reg \in Seq(RegularItems)
    BY <1>1 DEF Session
  <2> QED
    BY <2>1
<1> HIDE DEF l
<1>3. t \in Session
  BY <1>1, <1>2 DEF Session
<1>4. /\ SameStreams(s, t) /\ t.reg = l /\ t.syn = s.syn /\ t.aob = s.aob
      /\ t.local_last = s.local_last /\ t.goaway = s.goaway /\ t.reason = s.reason
      /\ t.ign_all = s.ign_all
  BY <1>1 DEF Session, SameStreams
<1> HIDE DEF t
<1>5. SessionInv(t) /\ Active(t) = Active(s)
  BY <1>3, <1>4, SameStreamsKept
<1>6. Requeued(s, t)
  BY <1>4, <1>5 DEF Requeued
<1> QED
  BY <1>2, <1>4, <1>6 DEF t, l

\* t is s with f prepared.
Prepared(s, t, f) ==
    /\ SessionInv(t) /\ Active(t) = Active(s) /\ SameStreams(s, t)
    /\ t.aob = <<f>> /\ t.reg = s.reg /\ t.syn = s.syn
    /\ t.goaway = s.goaway /\ t.reason = s.reason /\ t.ign_all = s.ign_all
    /\ t.local_last = IF f.type = "GOAWAY" THEN f.last ELSE s.local_last

LEMMA ActiveOutbound ==
    ASSUME NEW s, SessionInv(s), NEW f \in PreparedItems, NEW n \in Int
    PROVE  LET t == Active_outbound([s EXCEPT !.local_last = n], f)
           IN  /\ SessionInv(t) /\ Active(t) = Active(s) /\ SameStreams(s, t)
               /\ t.aob = <<f>> /\ t.reg = s.reg /\ t.syn = s.syn
               /\ t.goaway = s.goaway /\ t.reason = s.reason /\ t.local_last = n
               /\ t.ign_all = s.ign_all
<1> DEFINE l == <<f>>
           t == [s EXCEPT !.local_last = n, !.aob = l]
<1>1. s \in Session
  BY DEF SessionInv
<1>2. l \in Seq(PreparedItems)
  OBVIOUS
<1>3. Active_outbound([s EXCEPT !.local_last = n], f) = t
  BY DEF Active_outbound
<1> HIDE DEF l
<1>4. t \in Session
  BY <1>1, <1>2 DEF Session
<1>5. /\ SameStreams(s, t) /\ t.aob = l /\ t.reg = s.reg /\ t.syn = s.syn
      /\ t.goaway = s.goaway /\ t.reason = s.reason /\ t.local_last = n
      /\ t.ign_all = s.ign_all
  BY <1>1 DEF Session, SameStreams
<1> HIDE DEF t
<1>6. SessionInv(t) /\ Active(t) = Active(s)
  BY <1>4, <1>5, SameStreamsKept
<1> QED
  BY <1>3, <1>5, <1>6 DEF l

LEMMA PrepControlKept ==
    ASSUME NEW s, SessionInv(s), NEW f \in RegularItems \cup UrgentItems
    PROVE  \/ /\ PrepControl(s, f) = s /\ f.type # "GOAWAY"
              /\ f.type = "RST_STREAM" => session_is_closing(s)
           \/ /\ Prepared(s, PrepControl(s, f), f)
              /\ f.type = "HEADERS" => session_predicate_response_headers_send(s, f.id)
<1> DEFINE t == PrepControl(s, f)
           allowed ==
             CASE f.type = "HEADERS" -> session_predicate_response_headers_send(s, f.id)
               [] f.type = "RST_STREAM" -> ~session_is_closing(s)
               [] f.type = "ACK" -> ~session_is_closing(s)
               [] f.type = "WINDOW_UPDATE" -> session_predicate_window_update_send(s, f.id)
               [] OTHER -> TRUE
           n == IF f.type = "GOAWAY" THEN f.last ELSE s.local_last
           g == [s EXCEPT !.local_last = n]
<1>1. s \in Session /\ s.local_last \in Int
  BY DEF SessionInv, Session
<1>2. f \in PreparedItems
  BY DEF PreparedItems
<1>3. n \in Int
  <2>1. f.type = "GOAWAY" => f.last \in Int
    BY DEF RegularItems, UrgentItems, Responses, RstFrames, GoawayItems, UpdateFrames,
           SettingsFrames, AckFrames
  <2> QED
    BY <1>1, <2>1
<1>4. g = IF f.type = "GOAWAY" THEN [s EXCEPT !.local_last = f.last] ELSE s
  BY <1>1 DEF Session
<1>5. t = IF allowed THEN Active_outbound(g, f) ELSE g
  <2>1. t = IF allowed
            THEN Active_outbound(IF f.type = "GOAWAY" THEN [s EXCEPT !.local_last = f.last] ELSE s, f)
            ELSE IF f.type = "GOAWAY" THEN [s EXCEPT !.local_last = f.last] ELSE s
    BY Zenon DEF PrepControl
  <2> HIDE DEF allowed, t, g
  <2> QED
    BY <1>4, <2>1
<1>6. /\ f.type = "GOAWAY" => allowed
      /\ f.type = "RST_STREAM" /\ ~allowed => session_is_closing(s)
      /\ f.type = "HEADERS" /\ allowed => session_predicate_response_headers_send(s, f.id)
  OBVIOUS
<1>7. Prepared(s, Active_outbound(g, f), f)
  <2> HIDE DEF n
  <2>1. LET u == Active_outbound([s EXCEPT !.local_last = n], f)
        IN  /\ SessionInv(u) /\ Active(u) = Active(s) /\ SameStreams(s, u)
            /\ u.aob = <<f>> /\ u.reg = s.reg /\ u.syn = s.syn
            /\ u.goaway = s.goaway /\ u.reason = s.reason /\ u.local_last = n
            /\ u.ign_all = s.ign_all
    BY <1>2, <1>3, ActiveOutbound
  <2> QED
    BY <2>1 DEF Prepared, n
<1> HIDE DEF allowed, t
<1> QED
  <2>1. CASE allowed
    <3>1. t = Active_outbound(g, f)
      BY <1>5, <2>1
    <3> QED
      BY <1>6, <1>7, <2>1, <3>1 DEF t
  <2>2. CASE ~allowed
    <3>1. t = g /\ f.type # "GOAWAY" /\ (f.type = "RST_STREAM" => session_is_closing(s))
      BY <1>5, <1>6, <2>2
    <3>2. g = s
      BY <1>4, <3>1
    <3> QED
      BY <3>1, <3>2 DEF t
  <2> QED
    BY <2>1, <2>2

\* t is the client s after the first request of ob_syn was prepared or given up.
Requested(s, t) ==
    LET item == Head(s.syn)
    IN /\ SessionInv(t) /\ item \in RequestItems
       /\ t.server = s.server /\ t.syn = Tail(s.syn) /\ t.reg = s.reg /\ t.goaway = s.goaway
       /\ t.next_id = s.next_id /\ t.last_recv = s.last_recv /\ t.last_proc = s.last_proc
       /\ t.local_last = s.local_last /\ t.ign_all = s.ign_all
       /\ item.id \notin Active(s) /\ s.last_sent < item.id
       /\ \/ /\ t.aob = <<item>> /\ t.last_sent = item.id /\ t.reason = s.reason
             /\ Active(t) = Active(s) \cup {item.id} /\ Fresh(t, item.id, "initial")
             /\ \A i \in Active(s) : t.streams[i] = s.streams[i]
          \/ /\ t.aob = s.aob /\ t.last_sent = s.last_sent /\ Active(t) = Active(s)
             /\ t.streams = s.streams /\ t.reason[item.id] \in {"cancel", "refused"}
             /\ \A i \in Ids : i # item.id => t.reason[i] = s.reason[i]

LEMMA SynTaken ==
    ASSUME NEW s, SessionInv(s), s.syn # <<>>
    PROVE  LET t == [s EXCEPT !.syn = Tail(@)]
               id == Head(s.syn).id
           IN  /\ SessionInv(t) /\ Active(t) = Active(s) /\ SameStreams(s, t)
               /\ t.reg = s.reg /\ t.syn = Tail(s.syn) /\ t.aob = s.aob
               /\ t.goaway = s.goaway /\ t.reason = s.reason /\ t.local_last = s.local_last
               /\ t.ign_all = s.ign_all
               /\ Head(s.syn) \in RequestItems /\ id \in Ids
               /\ s.last_sent < id /\ id < s.next_id /\ ~s.server
               /\ \A i \in 1..Len(t.syn) : id < t.syn[i].id
<1> DEFINE l == Tail(s.syn)
           t == [s EXCEPT !.syn = l]
           id == Head(s.syn).id
<1>1. s \in Session /\ s.syn \in Seq(RequestItems)
  BY DEF SessionInv, Session
<1>2. /\ l \in Seq(RequestItems) /\ Head(s.syn) \in RequestItems /\ Head(s.syn) = s.syn[1]
      /\ Len(s.syn) \in Nat /\ Len(s.syn) > 0 /\ Len(l) = Len(s.syn) - 1
      /\ \A i \in 1..Len(l) : l[i] = s.syn[i + 1]
  BY <1>1
<1>3. id \in Ids
  BY <1>2 DEF RequestItems
<1>4. s.last_sent < id /\ id < s.next_id /\ ~s.server
  BY <1>2 DEF SessionInv
<1>5. \A i \in 1..Len(l) : id < l[i].id /\ s.last_sent < l[i].id /\ l[i].id < s.next_id
  BY <1>2 DEF SessionInv
<1>6. \A i, j \in 1..Len(l) : i < j => l[i].id < l[j].id
  BY <1>2 DEF SessionInv
<1> HIDE DEF l
<1>7. t \in Session
  BY <1>1, <1>2 DEF Session
<1>8. /\ SameStreams(s, t) /\ t.reg = s.reg /\ t.syn = l /\ t.aob = s.aob
      /\ t.goaway = s.goaway /\ t.reason = s.reason /\ t.local_last = s.local_last
      /\ t.ign_all = s.ign_all
  BY <1>1 DEF Session, SameStreams
<1> HIDE DEF t, id
<1>9. Active(t) = Active(s)
  BY <1>8 DEF Active, SameStreams
<1>10. SessionInv(t)
  BY <1>4, <1>5, <1>6, <1>7, <1>8, <1>9 DEF SessionInv, SameStreams
<1> QED
  BY <1>2, <1>3, <1>4, <1>5, <1>8, <1>9, <1>10 DEF t, l, id

LEMMA PrepRequestKept ==
    ASSUME NEW s, SessionInv(s), s.syn # <<>>
    PROVE  Requested(s, PrepRequest([s EXCEPT !.syn = Tail(@)], Head(s.syn)))
<1> DEFINE r == [s EXCEPT !.syn = Tail(@)]
           item == Head(s.syn)
           id == item.id
           o == nghttp2_session_open_stream(r, id, "initial")
           t == PrepRequest(r, item)
<1>1. /\ SessionInv(r) /\ Active(r) = Active(s) /\ SameStreams(s, r)
      /\ r.reg = s.reg /\ r.syn = Tail(s.syn) /\ r.aob = s.aob
      /\ r.goaway = s.goaway /\ r.reason = s.reason /\ r.local_last = s.local_last
      /\ r.ign_all = s.ign_all
      /\ item \in RequestItems /\ id \in Ids
      /\ s.last_sent < id /\ id < s.next_id /\ ~s.server
      /\ \A i \in 1..Len(r.syn) : id < r.syn[i].id
  BY SynTaken
<1> HIDE DEF r, item
<1>2. /\ r \in Session /\ ~r.server /\ id \in Nat /\ r.last_sent < id /\ id < r.next_id
      /\ r.last_sent \in Nat /\ r.next_id \in Nat
  BY <1>1, IdsNat DEF SessionInv, SameStreams, Session
<1>3. id \notin DOMAIN r.streams /\ id \notin Active(s)
  <2>1. id \notin DOMAIN r.streams
    BY <1>2, <1>1 DEF SessionInv
  <2> QED
    BY <1>1, <2>1 DEF Active
<1>4. /\ o \in Session /\ o.num = r.num + 1 /\ o.num = Cardinality(Active(o))
      /\ DOMAIN o.streams = DOMAIN r.streams \cup {id}
      /\ Active(o) = Active(r) \cup {id} /\ SameElsewhere(r, o) /\ Fresh(o, id, "initial")
      /\ \A i \in DOMAIN r.streams : o.streams[i] = r.streams[i]
  BY <1>1, <1>3, OpenMap
<1>5. t = IF session_predicate_request_headers_send(o, item)
          THEN [Active_outbound(o, item) EXCEPT !.last_sent = id]
          ELSE nghttp2_session_close_stream(o, id,
                                            IF item.canceled THEN "cancel" ELSE "refused")
  BY Zenon DEF PrepRequest
<1> HIDE DEF t
<1> SUFFICES Requested(s, t)
  BY DEF t, r, item
<1>6. CASE session_predicate_request_headers_send(o, item)
  <2> DEFINE l == <<item>>
             u == [o EXCEPT !.aob = l, !.last_sent = id]
  <2>1. l \in Seq(PreparedItems)
    BY <1>1 DEF PreparedItems
  <2>2. t = u
    BY <1>5, <1>6 DEF Active_outbound
  <2> HIDE DEF l, o, id
  <2>3. u \in Session
    BY <1>2, <1>4, <2>1 DEF Session
  <2>4. /\ u.aob = l /\ u.last_sent = id /\ u.streams = o.streams /\ u.num = o.num
        /\ SameElsewhere(o, [u EXCEPT !.aob = o.aob, !.last_sent = o.last_sent])
    BY <1>4 DEF Session, SameElsewhere
  <2>5. /\ u.server = r.server /\ u.closed_q = r.closed_q /\ u.reg = r.reg /\ u.syn = r.syn
        /\ u.next_id = r.next_id /\ u.last_recv = r.last_recv /\ u.last_proc = r.last_proc
        /\ u.local_last = r.local_last /\ u.goaway = r.goaway /\ u.reason = r.reason
        /\ u.ign_all = r.ign_all
    <3>1. /\ u.server = o.server /\ u.closed_q = o.closed_q /\ u.reg = o.reg /\ u.syn = o.syn
          /\ u.next_id = o.next_id /\ u.last_recv = o.last_recv /\ u.last_proc = o.last_proc
          /\ u.local_last = o.local_last /\ u.goaway = o.goaway /\ u.reason = o.reason
          /\ u.ign_all = o.ign_all
      BY <1>4 DEF Session
    <3> QED
      BY <1>4, <3>1 DEF SameElsewhere
  <2> HIDE DEF u
  <2>6. Active(u) = Active(o)
    BY <2>4 DEF Active
  <2>7. \A i \in DOMAIN u.streams : i <= u.last_sent
    <3>1. \A i \in DOMAIN r.streams : i <= r.last_sent /\ i \in Nat
      <4>1. DOMAIN r.streams \subseteq Ids
        BY <1>2, MapsDef DEF Session
      <4> QED
        BY <1>1, <1>2, <4>1, IdsNat DEF SessionInv
    <3> QED
      BY <1>2, <1>4, <2>4, <3>1
  <2>8. \A i \in 1..Len(u.closed_q) : u.closed_q[i] \notin Active(u) /\ u.closed_q[i] <= u.last_proc
    <3> SUFFICES ASSUME NEW i \in 1..Len(r.closed_q)
                 PROVE  r.closed_q[i] \notin Active(r) \cup {id} /\ r.closed_q[i] <= r.last_proc
      BY <1>4, <2>5, <2>6
    <3>1. r.closed_q[i] \notin Active(r) /\ r.closed_q[i] <= r.last_proc /\ r.last_proc = 0
      BY <1>1, <1>2 DEF SessionInv
    <3>2. r.closed_q[i] \in Ids
      <4>1. r.closed_q \in Seq(Ids)
        BY <1>2 DEF Session
      <4> QED
        BY <4>1
    <3> QED
      BY <3>1, <3>2, IdsNat
  <2>9. SessionInv(u)
    BY <1>1, <1>2, <1>4, <2>3, <2>4, <2>5, <2>6, <2>7, <2>8 DEF SessionInv
  <2>10. (\A i \in Active(s) : u.streams[i] = s.streams[i]) /\ Fresh(u, id, "initial")
    <3>1. Active(s) \subseteq DOMAIN r.streams /\ r.streams = s.streams
      BY <1>1 DEF Active, SameStreams
    <3> QED
      BY <1>4, <2>4, <3>1 DEF Fresh
  <2>11. id \notin Active(s) /\ s.last_sent < id
    BY <1>1, <1>3
  <2> QED
    BY <1>1, <1>4, <2>2, <2>4, <2>5, <2>6, <2>9, <2>10, <2>11
       DEF Requested, SameStreams, l, id, item
<1>7. CASE ~session_predicate_request_headers_send(o, item)
  <2> DEFINE error == IF item.canceled THEN "cancel" ELSE "refused"
             m == [i \in DOMAIN o.streams \ {id} |-> o.streams[i]]
             why == [r.reason EXCEPT ![id] = error]
             u == [r EXCEPT !.reason = why]
  <2>1. error \in Reasons /\ error \in {"cancel", "refused"}
    BY DEF Reasons
  <2> HIDE DEF error
  <2>2. Live(o, id) /\ ~o.server
    BY <1>2, <1>4, ActiveFinite DEF SameElsewhere
  <2>3. t = [o EXCEPT !.num = @ - 1, !.reason[id] = error, !.streams = m]
    <3> HIDE DEF o
    <3>1. t = nghttp2_session_close_stream(o, id, error)
      BY <1>5, <1>7 DEF error
    <3>2. t = [[o EXCEPT !.num = @ - 1, !.reason[id] = error]
                 EXCEPT !.streams = [i \in DOMAIN @ \ {id} |-> @[i]]]
      BY <2>2, <3>1, Zenon DEF nghttp2_session_close_stream
    <3> QED
      BY <1>4, <3>2 DEF Session
  <2>4. m = r.streams
    <3>1. r.streams \in [DOMAIN r.streams -> Stream]
      BY <1>2, MapsDef DEF Session
    <3> HIDE DEF o
    <3> QED
      BY <1>3, <1>4, <3>1
  <2>5. t = u
    <3>1. o = [r EXCEPT !.streams = o.streams, !.num = r.num + 1]
      BY <1>2 DEF nghttp2_session_open_stream, Session
    <3>2. r.num \in Int
      BY <1>2 DEF Session
    <3> DEFINE q == o.streams
    <3> HIDE DEF o, m, q
    <3>3. o = [r EXCEPT !.streams = q, !.num = r.num + 1]
      BY <3>1 DEF q
    <3>4. o.num = r.num + 1 /\ o.reason = r.reason
      BY <1>4 DEF SameElsewhere
    <3>5. t = [o EXCEPT !.num = r.num, !.reason = why, !.streams = r.streams]
      <4>1. o.num - 1 = r.num /\ [o.reason EXCEPT ![id] = error] = why
        BY <3>2, <3>4
      <4>2. t = [o EXCEPT !.num = o.num - 1, !.reason = [o.reason EXCEPT ![id] = error],
                          !.streams = m]
        BY <1>4, <2>3 DEF Session
      <4> QED
        BY <2>4, <4>1, <4>2, Zenon
    <3> HIDE DEF why
    <3> QED
      BY <1>2, <3>3, <3>5 DEF Session
  <2>6. /\ why \in [Ids -> Reasons] /\ why[id] = error
        /\ \A i \in Ids : i # id => why[i] = r.reason[i]
    <3>1. r.reason \in [Ids -> Reasons]
      BY <1>2 DEF Session
    <3> QED
      BY <1>1, <2>1, <3>1
  <2> HIDE DEF why, t
  <2>7. u \in Session
    BY <1>2, <2>6 DEF Session
  <2>8. /\ SameStreams(r, u) /\ u.reason = why /\ u.syn = r.syn /\ u.reg = r.reg
        /\ u.goaway = r.goaway /\ u.local_last = r.local_last /\ u.aob = r.aob
        /\ u.ign_all = r.ign_all
    BY <1>2 DEF Session, SameStreams
  <2> HIDE DEF u
  <2>9. SessionInv(u) /\ Active(u) = Active(r)
    BY <1>1, <2>7, <2>8, SameStreamsKept
  <2> QED
    BY <1>1, <1>3, <2>1, <2>5, <2>6, <2>8, <2>9 DEF Requested, SameStreams, item
<1> QED
  BY <1>6, <1>7

LEMMA PrepDataKept ==
    ASSUME NEW s, SessionInv(s), NEW id \in DOMAIN s.streams, NEW left \in Int
    PROVE  \/ Quiet(s, PrepData(s, id, left))
           \/ \E f \in DataFrames :
                 /\ Prepared(s, PrepData(s, id, left), f)
                 /\ f.id = id /\ nghttp2_session_predicate_data_send(s, id)
                 /\ f.end <=> f.len = left
                 /\ f.len <= left /\ (left >= 0 => f.len >= 0)
<1> DEFINE t == PrepData(s, id, left)
           max == nghttp2_session_next_data_read(s, id)
           len == LeastOf(left, max)
           f == [type |-> "DATA", id |-> id, len |-> len, end |-> len = left]
<1>1. s \in Session /\ id \in Ids
  BY StreamType DEF SessionInv
<1>2. \A i \in {"none", "ready", "deferred"} : Quiet(s, [s EXCEPT !.streams[id].item = i])
  BY <1>1, FieldEdited, Zenon
<1>3. max \in Int
  <2>1. s.streams[id].remote_win \in Int /\ s.remote_win \in Int /\ MaxData \in Int
    BY <1>1, StreamTypes, WindowTypes, SessionConstants DEF SessionConstants
  <2> QED
    BY <2>1 DEF nghttp2_session_next_data_read, LeastOf
<1>a. max >= 0
  <2>1. s.streams[id].remote_win \in Int /\ s.remote_win \in Int /\ MaxData \in Int
    BY <1>1, StreamTypes, WindowTypes, SessionConstants DEF SessionConstants
  <2> QED
    BY <2>1 DEF nghttp2_session_next_data_read, LeastOf
<1> HIDE DEF max
<1>b. len \in Int /\ len <= left /\ (left >= 0 => len >= 0)
  BY <1>3, <1>a DEF LeastOf
<1> HIDE DEF len
<1>4. f \in DataFrames /\ f.id = id /\ f.len = len /\ (f.end <=> len = left)
  BY <1>1, <1>b DEF DataFrames
<1>5. t = IF ~nghttp2_session_predicate_data_send(s, id)
          THEN [s EXCEPT !.streams[id].item = "none"]
          ELSE IF max = 0 THEN [s EXCEPT !.streams[id].item = "deferred"]
          ELSE Active_outbound(s, f)
  BY Zenon DEF PrepData, max, len
<1>6. f.type = "DATA"
  OBVIOUS
<1> HIDE DEF f, t
<1>7. Prepared(s, Active_outbound(s, f), f)
  <2>1. s.local_last \in Int /\ [s EXCEPT !.local_last = s.local_last] = s
    BY <1>1 DEF Session
  <2>2. f \in PreparedItems
    BY <1>4 DEF PreparedItems
  <2>3. LET u == Active_outbound([s EXCEPT !.local_last = s.local_last], f)
        IN  /\ SessionInv(u) /\ Active(u) = Active(s) /\ SameStreams(s, u)
            /\ u.aob = <<f>> /\ u.reg = s.reg /\ u.syn = s.syn
            /\ u.goaway = s.goaway /\ u.reason = s.reason /\ u.local_last = s.local_last
            /\ u.ign_all = s.ign_all
    BY <2>1, <2>2, ActiveOutbound
  <2> QED
    BY <1>6, <2>1, <2>3 DEF Prepared
<1>8. \/ Quiet(s, t)
      \/ Prepared(s, t, f) /\ nghttp2_session_predicate_data_send(s, id)
  BY <1>2, <1>5, <1>7
<1> QED
  BY <1>4, <1>8, <1>b DEF t

\* What the peer sees of a prepared frame.
LEMMA WireKept ==
    ASSUME NEW f \in PreparedItems
    PROVE  /\ Wire(f) \in WireFrames /\ Wire(f).type = f.type
           /\ f.type = "HEADERS" => Wire(f).id = f.id /\ Wire(f).end = f.end
           /\ f.type \notin {"HEADERS", "GOAWAY"} => Wire(f) = f
           /\ f.type = "RST_STREAM" => Wire(f) = f
           /\ f.type = "GOAWAY" => Wire(f).last = f.last
<1>1. CASE f \in Responses \cup RequestItems
  BY <1>1 DEF Wire, WireFrames, HeadersFrames, Responses, RequestItems
<1>2. CASE f \in GoawayItems
  BY <1>2 DEF Wire, WireFrames, GoawayItems, GoawayFrames
<1>3. CASE f \in RstFrames \cup UpdateFrames \cup DataFrames \cup UrgentItems
  <2>1. f.type \notin {"HEADERS", "GOAWAY"}
    BY <1>3 DEF RstFrames, UpdateFrames, DataFrames, UrgentItems, SettingsFrames, AckFrames
  <2>2. Wire(f) = f
    BY <2>1 DEF Wire
  <2> QED
    BY <1>3, <2>1, <2>2 DEF WireFrames
<1> QED
  BY <1>1, <1>2, <1>3 DEF PreparedItems, RegularItems

-----------------------------------------------------------------------------
(* The connection.                                                         *)

Apps == [left : [Ids -> Int], got : [Ids -> Int], held : [Ids -> Int],
         asked : SUBSET Ids, answered : SUBSET Ids, reset : SUBSET Ids, quit : BOOLEAN]

\* The inductive invariant: both sessions satisfy SessionInv and what is on its way
\* between them are frames.
SessionsInv(S) ==
    /\ S \in [Sides -> Session] /\ \A p \in Sides : SessionInv(S[p])
    /\ S["s"].server /\ ~S["c"].server

Inv1 ==
    /\ SessionsInv(ses)
    /\ net \in [Sides -> Seq(WireFrames)]
    /\ app \in [Sides -> Apps]

LEMMA NewSessionInv ==
    ASSUME NEW b \in BOOLEAN, NEW iv \in Entries
    PROVE  SessionInv(NewSession(b, iv)) /\ NewSession(b, iv).server = b
<1> DEFINE n == NewSession(b, iv)
           e == <<>>
           u == <<[type |-> "SETTINGS", iv |-> iv]>>
           l == <<iv>>
           pm == IF iv.mc = Unset THEN Unlimited ELSE iv.mc
           why == [id \in Ids |-> "open"]
<1>1. /\ e \in StreamMaps /\ e \in Seq(Ids) /\ e \in Seq(RegularItems)
      /\ e \in Seq(RequestItems) /\ e \in Seq(PreparedItems) /\ DOMAIN e = {} /\ Len(e) = 0
  <2>1. e \in [DOMAIN e -> Stream] /\ DOMAIN e = {}
    <3>1. e \in Seq(Stream) /\ Len(e) = 0
      OBVIOUS
    <3>2. DOMAIN e = 1..Len(e) /\ e \in [1..Len(e) -> Stream]
      BY <3>1, LenProperties
    <3>3. 1..Len(e) = {}
      BY <3>1
    <3> QED
      BY <3>2, <3>3
  <2>2. /\ e \in Seq(Ids) /\ e \in Seq(RegularItems)
        /\ e \in Seq(RequestItems) /\ e \in Seq(PreparedItems) /\ Len(e) = 0
    OBVIOUS
  <2> HIDE DEF e
  <2>3. e \in StreamMaps
    BY <2>1, MapsDef
  <2> QED
    BY <2>1, <2>2, <2>3
<1>2. u \in Seq(UrgentItems)
  BY DEF UrgentItems, SettingsFrames
<1>3. l \in Seq(Entries)
  OBVIOUS
<1>4. /\ Unlimited \in Int /\ LastStream \in Int /\ ConnWindow \in Int /\ InitialWindow \in Int
      /\ PeerConcurrent \in Int /\ ResetBurst \in Int
  BY SessionConstants DEF SessionConstants, Unlimited, LastStream
<1>5. pm \in Int
  BY <1>4 DEF Entries, Unset
<1>6. why \in [Ids -> Reasons] /\ "none" \in Errors
  BY DEF Reasons, Errors
<1>7. n = [server |-> b, streams |-> e, num |-> 0, closed_q |-> e,
           urgent |-> u, reg |-> e, syn |-> e, aob |-> e,
           remote_win |-> ConnWindow, local_win |-> ConnWindow,
           recv_win |-> 0, consumed |-> 0, wuq |-> FALSE,
           remote_iw |-> InitialWindow, remote_mc |-> PeerConcurrent,
           local_iw |-> InitialWindow, local_mc |-> Unlimited, pending_mc |-> pm,
           settings_recv |-> FALSE, inflight |-> l,
           next_id |-> 1, last_sent |-> 0, last_recv |-> 0, last_proc |-> 0,
           local_last |-> LastStream, remote_last |-> LastStream,
           goaway |-> {}, ign_all |-> FALSE, ratelim |-> ResetBurst,
           reason |-> why, error |-> "none"]
  BY Zenon DEF NewSession
<1> HIDE DEF n, e, u, l, pm, why
<1>8. n \in Session
  BY <1>1, <1>2, <1>3, <1>4, <1>5, <1>6, <1>7 DEF Session
<1>9. /\ n.server = b /\ n.streams = e /\ n.num = 0 /\ n.closed_q = e /\ n.syn = e
      /\ n.next_id = 1 /\ n.last_sent = 0 /\ n.last_recv = 0 /\ n.last_proc = 0
  BY <1>7
<1>10. Active(n) = {} /\ Cardinality({}) = 0
  BY <1>1, <1>9, FS_EmptySet DEF Active
<1>11. n.syn = <<>>
  BY <1>9 DEF e
<1> QED
  BY <1>1, <1>8, <1>9, <1>10, <1>11 DEF SessionInv, n

LEMMA SideSet ==
    ASSUME NEW S, SessionsInv(S), NEW p \in Sides, NEW t, SessionInv(t),
           t.server = S[p].server
    PROVE  /\ SessionsInv([S EXCEPT ![p] = t]) /\ [S EXCEPT ![p] = t][p] = t
           /\ \A q \in Sides \ {p} : [S EXCEPT ![p] = t][q] = S[q]
<1> DEFINE T == [S EXCEPT ![p] = t]
<1>1. S \in [Sides -> Session] /\ t \in Session /\ Sides = {"c", "s"}
  BY DEF SessionsInv, SessionInv, Sides
<1>2. /\ T \in [Sides -> Session] /\ T[p] = t /\ \A q \in Sides \ {p} : T[q] = S[q]
  BY <1>1
<1> HIDE DEF T
<1>3. \A q \in Sides : SessionInv(T[q]) /\ T[q].server = S[q].server
  BY <1>2 DEF SessionsInv
<1>4. T["s"].server /\ ~T["c"].server
  BY <1>1, <1>3 DEF SessionsInv
<1> QED
  BY <1>2, <1>3, <1>4 DEF SessionsInv, T

LEMMA SideInv ==
    ASSUME SessionsInv(ses), NEW p \in Sides
    PROVE  /\ SessionInv(ses[p]) /\ ses[p] \in Session /\ ses \in [Sides -> Session]
           /\ ses["c"] \in Session /\ ses["s"] \in Session
           /\ "c" \in Sides /\ "s" \in Sides
  BY DEF SessionsInv, SessionInv, Sides

LEMMA InitInv1 == Init => Inv1
<1> SUFFICES ASSUME Init PROVE Inv1
  OBVIOUS
<1>1. \A p \in Sides : FirstSettings[p] \in Entries
  BY Http2Constants DEF Http2Constants
<1>2. \A p \in Sides : ses[p] = NewSession(p = "s", FirstSettings[p])
  BY DEF Init
<1>3. \A p \in Sides : SessionInv(ses[p]) /\ ses[p].server = (p = "s")
  BY <1>1, <1>2, NewSessionInv
<1>4. ses \in [Sides -> Session]
  BY <1>3 DEF Init, SessionInv
<1>5. ses["s"].server /\ ~ses["c"].server
  BY <1>3 DEF Sides
<1>6. net \in [Sides -> Seq(WireFrames)]
  <2>1. <<>> \in Seq(WireFrames)
    OBVIOUS
  <2> QED
    BY <2>1 DEF Init
<1>7. app \in [Sides -> Apps]
  <2>1. \A p \in Sides : BodyLen[p] \in Int
    BY Http2Constants DEF Http2Constants
  <2>2. \A p \in Sides : NewApp(p) \in Apps
    BY <2>1 DEF NewApp, Apps
  <2> QED
    BY <2>2 DEF Init
<1> QED
  BY <1>3, <1>4, <1>5, <1>6, <1>7 DEF Inv1, SessionsInv

LEMMA SubmitRequestInv1 == Inv1 /\ SubmitRequest => Inv1'
<1> SUFFICES ASSUME Inv1, SubmitRequest PROVE Inv1'
  OBVIOUS
<1> DEFINE s == ses["c"]
           item == [type |-> "HEADERS", id |-> s.next_id, end |-> BodyLen["c"] = 0,
                    canceled |-> FALSE]
           l == Append(s.syn, item)
           t == [s EXCEPT !.syn = l, !.next_id = s.next_id + 1]
<1>1. SessionInv(s) /\ s \in Session /\ ses \in [Sides -> Session] /\ "c" \in Sides
  BY SideInv DEF Inv1, Sides
<1>2. ~s.server /\ s.next_id \in Ids
  BY DEF SubmitRequest, nghttp2_session_check_request_allowed
<1>3. ses' = [ses EXCEPT !["c"] = t]
  BY <1>1 DEF SubmitRequest, Session
<1>4. item \in RequestItems /\ item.id = s.next_id
  BY <1>2 DEF RequestItems
<1>5. /\ s.syn \in Seq(RequestItems) /\ s.next_id \in Nat /\ s.last_sent \in Nat
  BY <1>1 DEF Session
<1> HIDE DEF s, item
<1>6. /\ l \in Seq(RequestItems) /\ Len(s.syn) \in Nat /\ Len(l) = Len(s.syn) + 1
      /\ \A i \in 1..Len(s.syn) : l[i] = s.syn[i]
      /\ l[Len(s.syn) + 1] = item
  BY <1>4, <1>5
<1> HIDE DEF l
<1> DEFINE n == s.next_id + 1
<1>0. n \in Nat
  BY <1>5
<1> HIDE DEF n
<1>7. t \in Session
  <2>1. t = [s EXCEPT !.syn = l, !.next_id = n]
    BY DEF n
  <2>2. [s EXCEPT !.syn = l, !.next_id = n] \in Session
    BY <1>0, <1>1, <1>6 DEF Session
  <2> QED
    BY <2>1, <2>2, Zenon
<1>8. /\ t.streams = s.streams /\ t.num = s.num /\ t.closed_q = s.closed_q
      /\ t.server = s.server /\ t.last_sent = s.last_sent /\ t.next_id = s.next_id + 1
      /\ t.last_recv = s.last_recv /\ t.last_proc = s.last_proc /\ t.syn = l
  BY <1>1 DEF Session
<1> HIDE DEF t
<1>9. Active(t) = Active(s)
  BY <1>8 DEF Active
<1>10. \A i \in 1..Len(l) : /\ l[i].id \in Nat
                            /\ s.last_sent < l[i].id /\ l[i].id < s.next_id + 1
  <2>1. \A i \in 1..Len(l) : l[i].id \in Nat
    <3>1. \A i \in 1..Len(l) : l[i] \in RequestItems
      BY <1>6
    <3> QED
      BY <3>1, IdsNat DEF RequestItems
  <2> SUFFICES ASSUME NEW i \in 1..Len(l)
               PROVE  s.last_sent < l[i].id /\ l[i].id < s.next_id + 1
    BY <2>1
  <2>2. CASE i \in 1..Len(s.syn)
    <3>1. s.last_sent < s.syn[i].id /\ s.syn[i].id < s.next_id
      BY <1>1, <2>2 DEF SessionInv
    <3> QED
      BY <1>5, <1>6, <2>1, <2>2, <3>1
  <2>3. CASE i = Len(s.syn) + 1
    <3>1. s.last_sent < s.next_id
      BY <1>1 DEF SessionInv
    <3> QED
      BY <1>4, <1>5, <1>6, <2>3, <3>1
  <2> QED
    BY <1>6, <2>2, <2>3
<1>11. \A i, j \in 1..Len(l) : i < j => l[i].id < l[j].id
  <2> SUFFICES ASSUME NEW i \in 1..Len(l), NEW j \in 1..Len(l), i < j
               PROVE  l[i].id < l[j].id
    OBVIOUS
  <2>1. i \in 1..Len(s.syn) /\ l[i] = s.syn[i] /\ s.syn[i].id < s.next_id
    BY <1>1, <1>6 DEF SessionInv
  <2>2. CASE j \in 1..Len(s.syn)
    BY <1>1, <1>6, <2>1, <2>2 DEF SessionInv
  <2>3. CASE j = Len(s.syn) + 1
    BY <1>4, <1>6, <2>1, <2>3
  <2> QED
    BY <1>6, <2>2, <2>3
<1>12. SessionInv(t)
  BY <1>1, <1>2, <1>5, <1>7, <1>8, <1>9, <1>10, <1>11 DEF SessionInv
<1>13. SessionsInv(ses')
  BY <1>1, <1>3, <1>8, <1>12, SideSet DEF Inv1, s
<1> QED
  BY <1>13 DEF SubmitRequest, Inv1

LEMMA SubmitResponseInv1 ==
    ASSUME Inv1, NEW id \in Ids, SubmitResponse(id) PROVE Inv1'
<1> DEFINE s == ses["s"]
           f == [type |-> "HEADERS", id |-> id, end |-> FALSE]
           t == [s EXCEPT !.reg = Append(@, f)]
<1>1. SessionInv(s) /\ s \in Session /\ ses \in [Sides -> Session] /\ "s" \in Sides
  BY SideInv DEF Inv1, Sides
<1>2. ses' = [ses EXCEPT !["s"] = t]
  BY <1>1 DEF SubmitResponse, Session
<1>3. f \in RegularItems
  BY DEF RegularItems, Responses
<1>4. s.reg \in Seq(RegularItems)
  BY <1>1 DEF Session
<1>5. Append(s.reg, f) \in Seq(RegularItems)
  BY <1>3, <1>4
<1> HIDE DEF s, f
<1>6. t \in Session
  BY <1>1, <1>5 DEF Session
<1>7. SameStreams(s, t) /\ t.syn = s.syn
  BY <1>1 DEF Session, SameStreams
<1> HIDE DEF t
<1>8. SessionInv(t) /\ t.server = s.server
  BY <1>1, <1>6, <1>7, SameStreamsKept DEF SameStreams
<1>9. SessionsInv(ses')
  BY <1>1, <1>2, <1>8, SideSet DEF Inv1, s
<1>10. app' \in [Sides -> Apps]
  BY <1>1 DEF Inv1, SubmitResponse, Apps
<1> QED
  BY <1>9, <1>10 DEF SubmitResponse, Inv1

\* A call that moves one session.
LEMMA CallInv1 ==
    ASSUME Inv1, NEW p \in Sides, NEW t, NEW R, Moved(ses[p], t, R),
           ses' = [ses EXCEPT ![p] = t], net' = net, app' \in [Sides -> Apps]
    PROVE  Inv1'
<1>1. SessionInv(t) /\ t.server = ses[p].server
  BY DEF Moved, Follows
<1>2. SessionsInv(ses')
  BY <1>1, SideSet DEF Inv1
<1> QED
  BY <1>2 DEF Inv1

LEMMA SubmitGoawayInv1 ==
    ASSUME Inv1, NEW p \in Sides,
           SubmitGoaway(p) \/ Terminate(p)
    PROVE  Inv1'
<1>1. SessionInv(ses[p]) /\ ses \in [Sides -> Session]
  BY SideInv DEF Inv1
<1>2. app \in [Sides -> Apps]
  BY DEF Inv1
<1>3. CASE SubmitGoaway(p)
  <2>1. Moved(ses[p], nghttp2_session_add_goaway(ses[p], ses[p].last_proc, "none"), {})
    BY <1>1, AddGoaway DEF Keeps, Holds
  <2>2. ses' = [ses EXCEPT ![p] = nghttp2_session_add_goaway(ses[p], ses[p].last_proc, "none")]
    BY <1>1, <1>3 DEF SubmitGoaway
  <2>3. app' \in [Sides -> Apps]
    <3> DEFINE a == [app[p] EXCEPT !.quit = TRUE]
    <3>1. a \in Apps
      BY <1>2 DEF Apps
    <3>2. app' = [app EXCEPT ![p] = a]
      BY <1>2, <1>3 DEF SubmitGoaway
    <3> HIDE DEF a
    <3> QED
      BY <1>2, <3>1, <3>2
  <2> QED
    <3>1. net' = net
      BY <1>3 DEF SubmitGoaway
    <3> QED
      BY <2>1, <2>2, <2>3, <3>1, CallInv1
<1>4. CASE Terminate(p)
  <2>1. Moved(ses[p], nghttp2_session_terminate_session(ses[p], "none"), {})
    <3>1. "none" \in Errors
      BY DEF Errors
    <3> QED
      BY <1>1, <3>1, TerminateSession DEF Keeps, Holds
  <2>2. ses' = [ses EXCEPT ![p] = nghttp2_session_terminate_session(ses[p], "none")]
    BY <1>1, <1>4 DEF Terminate
  <2> QED
    <3>1. net' = net /\ app' = app
      BY <1>4 DEF Terminate
    <3> QED
      BY <1>2, <2>1, <2>2, <3>1, CallInv1
<1> QED
  BY <1>3, <1>4

LEMMA SubmitNoticeInv1 ==
    ASSUME Inv1, NEW p \in Sides, SubmitShutdownNotice(p) PROVE Inv1'
<1> DEFINE s == ses[p]
           f == [type |-> "GOAWAY", last |-> LeastOf(LastStream, s.local_last), aux |-> "notice"]
           l == Append(s.reg, f)
           g == s.goaway \cup {"submitted"}
           t == [s EXCEPT !.reg = l, !.goaway = g]
<1>1. SessionInv(s) /\ s \in Session /\ ses \in [Sides -> Session]
  BY SideInv DEF Inv1
<1>2. ses' = [ses EXCEPT ![p] = t]
  BY <1>1 DEF SubmitShutdownNotice, nghttp2_session_add_goaway, Session
<1>3. f \in RegularItems
  <2>1. s.local_last \in Int
    BY <1>1 DEF Session
  <2>2. LastStream \in Int
    BY SessionConstants DEF SessionConstants, LastStream
  <2> QED
    BY <2>1, <2>2, Least DEF RegularItems, GoawayItems
<1>4. s.reg \in Seq(RegularItems) /\ s.goaway \in SUBSET Flags
  BY <1>1 DEF Session
<1>5. l \in Seq(RegularItems) /\ g \in SUBSET Flags
  BY <1>3, <1>4 DEF Flags
<1> HIDE DEF s, f, l, g
<1>6. t \in Session
  BY <1>1, <1>5 DEF Session
<1>7. SameStreams(s, t) /\ t.syn = s.syn
  BY <1>1 DEF Session, SameStreams
<1> HIDE DEF t
<1>8. SessionInv(t) /\ t.server = s.server
  BY <1>1, <1>6, <1>7, SameStreamsKept DEF SameStreams
<1>9. SessionsInv(ses')
  BY <1>2, <1>8, SideSet DEF Inv1, s
<1> QED
  BY <1>9 DEF SubmitShutdownNotice, Inv1

LEMMA SubmitRstInv1 ==
    ASSUME Inv1, NEW p \in Sides, NEW id \in Ids, SubmitRstStream(p, id) PROVE Inv1'
<1>1. SessionInv(ses[p]) /\ ses \in [Sides -> Session] /\ app \in [Sides -> Apps]
  BY SideInv DEF Inv1
<1>2. "cancel" \in Faults \ {"refused"}
  BY DEF Reasons, Faults
<1>3. Moved(ses[p], nghttp2_session_add_rst_stream(ses[p], id, "cancel"), {})
  BY <1>1, <1>2, AddRstStream DEF Keeps, Holds
<1>4. /\ ses' = [ses EXCEPT ![p] = nghttp2_session_add_rst_stream(ses[p], id, "cancel")]
      /\ net' = net
  BY <1>1 DEF SubmitRstStream
<1>5. app' \in [Sides -> Apps]
  <2> DEFINE a == [app[p] EXCEPT !.reset = app[p].reset \cup {id}]
  <2>1. a \in Apps
    BY <1>1 DEF Apps
  <2>2. app' = [app EXCEPT ![p] = a]
    BY <1>1 DEF SubmitRstStream, Apps
  <2> HIDE DEF a
  <2> QED
    BY <1>1, <2>1, <2>2
<1> QED
  BY <1>3, <1>4, <1>5, CallInv1

LEMMA SubmitSettingsInv1 ==
    ASSUME Inv1, NEW p \in Sides, NEW iv \in Changes[p], SubmitSettings(p, iv) PROVE Inv1'
<1>1. SessionInv(ses[p]) /\ ses \in [Sides -> Session] /\ app \in [Sides -> Apps]
  BY SideInv DEF Inv1
<1>2. iv \in Entries
  BY Http2Constants DEF Http2Constants
<1>3. Moved(ses[p], nghttp2_session_add_settings(ses[p], iv), {})
  BY <1>1, <1>2, AddSettings
<1>4. /\ ses' = [ses EXCEPT ![p] = nghttp2_session_add_settings(ses[p], iv)]
      /\ net' = net /\ app' = app
  BY <1>1 DEF SubmitSettings
<1> QED
  BY <1>1, <1>3, <1>4, CallInv1

LEMMA ConsumeInv1 ==
    ASSUME Inv1, NEW p \in Sides, NEW id \in Ids, Consume(p, id) PROVE Inv1'
<1>1. SessionInv(ses[p]) /\ ses \in [Sides -> Session] /\ app \in [Sides -> Apps]
  BY SideInv DEF Inv1
<1>2. app[p].held[id] \in Int
  BY <1>1 DEF Apps
<1>3. Moved(ses[p], nghttp2_session_consume(ses[p], id, app[p].held[id]), {})
  BY <1>1, <1>2, ConsumeKept DEF Keeps, Holds
<1>4. /\ ses' = [ses EXCEPT ![p] = nghttp2_session_consume(ses[p], id, app[p].held[id])]
      /\ net' = net
  BY <1>1 DEF Consume
<1>5. app' \in [Sides -> Apps]
  <2> DEFINE h == [app[p].held EXCEPT ![id] = 0]
             a == [app[p] EXCEPT !.held = h]
  <2>1. h \in [Ids -> Int]
    BY <1>1 DEF Apps
  <2>2. app' = [app EXCEPT ![p] = a]
    BY <1>1 DEF Consume, Apps
  <2> HIDE DEF h
  <2>3. a \in Apps
    BY <1>1, <2>1 DEF Apps
  <2> HIDE DEF a
  <2> QED
    BY <1>1, <2>2, <2>3
<1> QED
  BY <1>3, <1>4, <1>5, CallInv1

\* What Pop does to the session and its application.
Pops(s, t) ==
    \/ \E f \in UrgentItems :
          \/ Holds(s, t, {})
          \/ Prepared(s, t, f)
    \/ /\ s.reg # <<>>
       /\ \E r : /\ Requeued(s, r) /\ r.reg = Tail(s.reg)
                 /\ \/ t = r /\ Head(s.reg).type # "GOAWAY"
                    \/ /\ Prepared(r, t, Head(s.reg))
                       /\ Head(s.reg).type = "HEADERS"
                            => session_predicate_response_headers_send(r, Head(s.reg).id)
    \/ s.syn # <<>> /\ Requested(s, t)
    \/ \E f \in DataFrames : Prepared(s, t, f)

LEMMA PopKept ==
    ASSUME Inv1, NEW p \in Sides, Pop(p)
    PROVE  \E t : /\ ses' = [ses EXCEPT ![p] = t] /\ Pops(ses[p], t)
                  /\ SessionInv(t) /\ t.server = ses[p].server
                  /\ app' \in [Sides -> Apps]
<1> DEFINE s == ses[p]
<1>1. SessionInv(s) /\ s \in Session /\ ses \in [Sides -> Session] /\ app \in [Sides -> Apps]
  BY SideInv DEF Inv1
<1>2. CASE PopUrgent(p)
  <2> DEFINE r == [s EXCEPT !.urgent = Tail(@)]
             f == Head(s.urgent)
             t == PrepControl(r, f)
  <2>1. ses' = [ses EXCEPT ![p] = t] /\ app' = app /\ s.urgent # <<>>
    BY <1>1, <1>2 DEF PopUrgent
  <2>2. /\ SessionInv(r) /\ Active(r) = Active(s) /\ f \in UrgentItems
        /\ SameStreams(s, r) /\ SameElsewhere(s, r) /\ r.reg = s.reg
    BY <1>1, <2>1, UrgentTaken
  <2> HIDE DEF s, r, f
  <2>3. Holds(s, r, {})
    <3>1. Len(s.reg) \in Nat
      BY <1>1, Lengths
    <3> QED
      BY <2>2, <3>1 DEF Holds, Moved, Follows, SameStreams, SameElsewhere
  <2>4. t = r \/ Prepared(r, t, f)
    BY <2>2, PrepControlKept
  <2>5. Holds(s, t, {}) \/ Prepared(s, t, f)
    <3>1. CASE t = r
      BY <2>3, <3>1
    <3>2. CASE Prepared(r, t, f)
      BY <2>2, <3>2 DEF Prepared, SameStreams, SameElsewhere
    <3> QED
      BY <2>4, <3>1, <3>2
  <2>6. SessionInv(t) /\ t.server = s.server
    BY <2>5 DEF Holds, Moved, Follows, Prepared, SameStreams
  <2>7. Pops(s, t)
    BY <2>2, <2>5 DEF Pops
  <2>8. app' \in [Sides -> Apps]
    BY <1>1, <2>1
  <2> HIDE DEF t
  <2> QED
    BY <2>1, <2>6, <2>7, <2>8 DEF s
<1>3. CASE PopRegular(p)
  <2> DEFINE r == [s EXCEPT !.reg = Tail(@)]
             f == Head(s.reg)
             t == PrepControl(r, f)
  <2>1. ses' = [ses EXCEPT ![p] = t] /\ app' = app /\ s.reg # <<>>
    BY <1>1, <1>3 DEF PopRegular
  <2>2. Requeued(s, r) /\ r.reg = Tail(s.reg) /\ f \in RegularItems
    BY <1>1, <2>1, RegularTaken
  <2> HIDE DEF s, r
  <2>3. \/ t = r /\ f.type # "GOAWAY"
        \/ /\ Prepared(r, t, f)
           /\ f.type = "HEADERS" => session_predicate_response_headers_send(r, f.id)
    BY <2>2, PrepControlKept DEF Requeued
  <2>4. SessionInv(t) /\ t.server = s.server
    BY <2>2, <2>3 DEF Requeued, Prepared, SameStreams
  <2>5. Pops(s, t)
    BY <2>1, <2>2, <2>3 DEF Pops
  <2>6. app' \in [Sides -> Apps]
    BY <1>1, <2>1
  <2> HIDE DEF t
  <2> QED
    BY <2>1, <2>4, <2>5, <2>6 DEF s
<1>4. CASE PopRequest(p)
  <2> DEFINE t == PrepRequest([s EXCEPT !.syn = Tail(@)], Head(s.syn))
  <2>1. ses' = [ses EXCEPT ![p] = t] /\ app' = app /\ s.syn # <<>>
    BY <1>1, <1>4 DEF PopRequest, SynReady
  <2>2. Requested(s, t)
    BY <1>1, <2>1, PrepRequestKept
  <2> HIDE DEF s, t
  <2>3. SessionInv(t) /\ t.server = s.server
    BY <2>2 DEF Requested
  <2>4. Pops(s, t)
    BY <2>1, <2>2 DEF Pops
  <2>5. app' \in [Sides -> Apps]
    BY <1>1, <2>1
  <2> HIDE DEF t
  <2> QED
    BY <2>1, <2>3, <2>4, <2>5 DEF s
<1>5. CASE PopData(p)
  <2>1. PICK id \in Sendable(s) :
           LET t == PrepData(s, id, app[p].left[id])
           IN  /\ ses' = [ses EXCEPT ![p] = t]
               /\ app' = IF t.aob = <<>> THEN app
                         ELSE [app EXCEPT ![p].left[id] = @ - t.aob[1].len]
    BY <1>5 DEF PopData
  <2> DEFINE t == PrepData(s, id, app[p].left[id])
  <2>2. id \in DOMAIN s.streams /\ id \in Ids
    BY <1>1, StreamType DEF Sendable
  <2>3. app[p].left[id] \in Int
    BY <1>1, <2>2 DEF Apps
  <2>4. Quiet(s, t) \/ \E f \in DataFrames : Prepared(s, t, f)
    BY <1>1, <2>2, <2>3, PrepDataKept
  <2> HIDE DEF s, t
  <2>5. Holds(s, t, {}) \/ \E f \in DataFrames : Prepared(s, t, f)
    BY <1>1, <2>4, QuietKeeps DEF Keeps
  <2>6. SessionInv(t) /\ t.server = s.server
    BY <2>5 DEF Holds, Moved, Follows, Prepared, SameStreams
  <2>7. Pops(s, t)
    <3>1. [type |-> "ACK"] \in UrgentItems
      BY DEF UrgentItems, AckFrames
    <3> QED
      BY <2>5, <3>1 DEF Pops
  <2>8. t.aob = <<>> \/ t.aob[1].len \in Int
    <3>1. CASE Quiet(s, t)
      <4>1. s.aob = <<>>
        BY DEF Pop, s
      <4> QED
        BY <3>1, <4>1 DEF Quiet, Retouched
    <3>2. CASE \E f \in DataFrames : Prepared(s, t, f)
      <4>1. PICK f \in DataFrames : t.aob = <<f>>
        BY <3>2 DEF Prepared
      <4>2. f.len \in Int
        BY DEF DataFrames
      <4> QED
        BY <4>1, <4>2
    <3> QED
      BY <2>4, <3>1, <3>2
  <2>9. app' \in [Sides -> Apps]
    <3>1. CASE t.aob = <<>>
      BY <1>1, <2>1, <3>1 DEF t, s
    <3>2. CASE t.aob # <<>>
      <4> DEFINE n == app[p].left[id] - t.aob[1].len
                 l == [app[p].left EXCEPT ![id] = n]
                 a == [app[p] EXCEPT !.left = l]
      <4>1. n \in Int
        BY <2>3, <2>8, <3>2
      <4>2. app' = [app EXCEPT ![p] = a]
        <5>1. app' = [app EXCEPT ![p].left[id] = @ - t.aob[1].len]
          BY <2>1, <3>2 DEF t, s
        <5> QED
          BY <1>1, <2>2, <5>1 DEF Apps
      <4> HIDE DEF n
      <4>3. l \in [Ids -> Int]
        BY <1>1, <4>1 DEF Apps
      <4> HIDE DEF l
      <4>4. a \in Apps
        BY <1>1, <4>3 DEF Apps
      <4> HIDE DEF a
      <4> QED
        BY <1>1, <4>2, <4>4
    <3> QED
      BY <3>1, <3>2
  <2> QED
    BY <2>1, <2>6, <2>7, <2>9 DEF s, t
<1> QED
  BY <1>2, <1>3, <1>4, <1>5 DEF Pop

LEMMA PopInv1 ==
    ASSUME Inv1, NEW p \in Sides, Pop(p) PROVE Inv1'
<1>1. PICK t : /\ ses' = [ses EXCEPT ![p] = t]
               /\ SessionInv(t) /\ t.server = ses[p].server /\ app' \in [Sides -> Apps]
  BY PopKept
<1>2. SessionsInv(ses')
  BY <1>1, SideSet DEF Inv1
<1> QED
  BY <1>1, <1>2 DEF Inv1, Pop

\* What Sent does: the frame leaves the session and enters the connection.
LEMMA SentStep ==
    ASSUME Inv1, NEW p \in Sides, Sent(p)
    PROVE  \E t : LET f == ses[p].aob[1]
                  IN  /\ ses' = [ses EXCEPT ![p] = t] /\ f \in PreparedItems
                      /\ Sends(ses[p], t, f) /\ SessionInv(t) /\ t.server = ses[p].server
                      /\ net' = [net EXCEPT ![Peer(p)] = Append(net[Peer(p)], Wire(f))]
                      /\ app' = IF p = "s" /\ f.type = "HEADERS"
                                THEN [app EXCEPT ![p].answered = @ \cup {f.id}] ELSE app
<1> DEFINE s == ses[p]
           f == s.aob[1]
           t == session_after_frame_sent(s, f)
<1>1. SessionInv(s) /\ s \in Session /\ ses \in [Sides -> Session]
  BY SideInv DEF Inv1
<1>2. f \in PreparedItems
  <2>1. s.aob \in Seq(PreparedItems) /\ s.aob # <<>>
    BY <1>1 DEF Session, Sent
  <2>2. Len(s.aob) \in Nat /\ Len(s.aob) # 0
    BY <2>1
  <2>3. 1 \in 1..Len(s.aob)
    BY <2>2
  <2> QED
    BY <2>1, <2>3
<1>3. Sends(s, t, f)
  BY <1>1, <1>2, SentKept
<1>4. SessionInv(t) /\ t.server = s.server
  <2> HIDE DEF t, s, f
  <2>1. Written(s).server = s.server /\ Written(s) \in Session
    BY <1>1, WrittenKept DEF SameStreams, SessionInv
  <2>2. GoawayOut(Written(s), f).server = s.server
    BY <2>1 DEF GoawayOut, Session
  <2> QED
    BY <1>3, <2>1, <2>2, SendsShape DEF Keeps, Holds, Moved, Follows
<1>5. Peer(p) \in Sides
  BY DEF Peer, Sides
<1>6. /\ ses' = [ses EXCEPT ![p] = t]
      /\ net' = [net EXCEPT ![Peer(p)] = Append(net[Peer(p)], Wire(f))]
      /\ app' = IF p = "s" /\ f.type = "HEADERS"
                THEN [app EXCEPT ![p].answered = @ \cup {f.id}] ELSE app
  BY <1>1, <1>5 DEF Sent, Inv1
<1> HIDE DEF t
<1> QED
  BY <1>2, <1>3, <1>4, <1>6

LEMMA SentInv1 ==
    ASSUME Inv1, NEW p \in Sides, Sent(p) PROVE Inv1'
<1> DEFINE f == ses[p].aob[1]
<1>1. PICK t : /\ ses' = [ses EXCEPT ![p] = t] /\ f \in PreparedItems
               /\ SessionInv(t) /\ t.server = ses[p].server
               /\ net' = [net EXCEPT ![Peer(p)] = Append(net[Peer(p)], Wire(f))]
               /\ app' = IF p = "s" /\ f.type = "HEADERS"
                         THEN [app EXCEPT ![p].answered = @ \cup {f.id}] ELSE app
  BY SentStep
<1> HIDE DEF f
<1>2. SessionsInv(ses')
  BY <1>1, SideSet DEF Inv1
<1>3. net' \in [Sides -> Seq(WireFrames)]
  <2>1. Peer(p) \in Sides /\ net \in [Sides -> Seq(WireFrames)]
    BY DEF Peer, Sides, Inv1
  <2>2. Wire(f) \in WireFrames
    BY <1>1, WireKept
  <2>3. Append(net[Peer(p)], Wire(f)) \in Seq(WireFrames)
    BY <2>1, <2>2
  <2> QED
    BY <1>1, <2>1, <2>3
<1>4. app' \in [Sides -> Apps]
  <2>1. app \in [Sides -> Apps]
    BY DEF Inv1
  <2>2. CASE p = "s" /\ f.type = "HEADERS"
    <3> DEFINE a == [app[p] EXCEPT !.answered = app[p].answered \cup {f.id}]
    <3>1. f.id \in Ids
      BY <1>1, <2>2 DEF PreparedItems, RegularItems, UrgentItems, Responses, RequestItems,
         DataFrames, RstFrames, SettingsFrames, AckFrames, GoawayItems, UpdateFrames
    <3>2. a \in Apps
      BY <2>1, <3>1 DEF Apps
    <3>3. app' = [app EXCEPT ![p] = a]
      BY <1>1, <2>1, <2>2 DEF Apps
    <3> HIDE DEF a
    <3> QED
      BY <2>1, <3>2, <3>3
  <2>3. CASE ~(p = "s" /\ f.type = "HEADERS")
    BY <1>1, <2>1, <2>3
  <2> QED
    BY <2>2, <2>3
<1> QED
  BY <1>2, <1>3, <1>4 DEF Inv1

\* What Recv does: the frame leaves the connection and is processed.
LEMMA RecvStep ==
    ASSUME Inv1, NEW p \in Sides, Recv(p)
    PROVE  \E t : LET f == Head(net[p])
                  IN  /\ ses' = [ses EXCEPT ![p] = t] /\ f \in WireFrames
                      /\ Receives(ses[p], t, f) /\ SessionInv(t) /\ t.server = ses[p].server
                      /\ net[p] # <<>> /\ net' = [net EXCEPT ![p] = Tail(net[p])]
<1> DEFINE s == ses[p]
           f == Head(net[p])
           t == nghttp2_session_mem_recv(s, f)
<1>1. SessionInv(s) /\ s \in Session /\ ses \in [Sides -> Session]
  BY SideInv DEF Inv1
<1>2. net[p] # <<>> /\ net \in [Sides -> Seq(WireFrames)]
  BY DEF Recv, Inv1
<1>3. f \in WireFrames
  BY <1>2
<1>4. Receives(s, t, f)
  BY <1>1, <1>3, ReceiveKept
<1>5. /\ ses' = [ses EXCEPT ![p] = t] /\ net' = [net EXCEPT ![p] = Tail(net[p])]
  BY <1>1, <1>2 DEF Recv
<1>6. SessionInv(t) /\ t.server = s.server
  <2> HIDE DEF t, s, f
  <2>1. CASE Moved(s, t, RefusedBy(f))
    BY <2>1 DEF Moved, Follows
  <2>2. CASE /\ f.id \in Ids /\ f.id > s.last_recv
             /\ Moved(Seen(s, f.id), t, {}) \/ Refuses(s, t, f.id)
    <3>1. SessionInv(Seen(s, f.id)) /\ Seen(s, f.id).server = s.server
      BY <1>1, <2>2, SeenKept
    <3>2. CASE Moved(Seen(s, f.id), t, {})
      BY <3>1, <3>2 DEF Moved, Follows
    <3>3. CASE Refuses(s, t, f.id)
      <4>1. t.server = Seen(s, f.id).server
        BY <3>1, <3>3 DEF Refuses, SessionInv, Session
      <4> QED
        BY <3>1, <3>3, <4>1 DEF Refuses
    <3> QED
      BY <2>2, <3>2, <3>3
  <2>3. CASE s.server /\ \E o : Opens(s, o, f.id) /\ Moved(o, t, {})
    <3>1. PICK o : Opens(s, o, f.id) /\ Moved(o, t, {})
      BY <2>3
    <3>2. o.server = TRUE /\ s.server = TRUE /\ t.server = o.server /\ SessionInv(t)
      <4>1. o \in Session /\ o.server
        BY <3>1 DEF Opens, SessionInv
      <4> QED
        BY <1>1, <2>3, <3>1, <4>1 DEF Moved, Follows, Session
    <3> QED
      BY <3>2
  <2> QED
    BY <1>4, <2>1, <2>2, <2>3, ReceivesShape
<1> HIDE DEF t
<1> QED
  BY <1>2, <1>3, <1>4, <1>5, <1>6

LEMMA RecvInv1 ==
    ASSUME Inv1, NEW p \in Sides, Recv(p) PROVE Inv1'
<1> DEFINE f == Head(net[p])
<1>1. PICK t : /\ ses' = [ses EXCEPT ![p] = t] /\ f \in WireFrames
               /\ SessionInv(t) /\ t.server = ses[p].server
               /\ net[p] # <<>> /\ net' = [net EXCEPT ![p] = Tail(net[p])]
  BY RecvStep
<1>2. SessionsInv(ses')
  BY <1>1, SideSet DEF Inv1
<1>3. net' \in [Sides -> Seq(WireFrames)]
  <2>1. net \in [Sides -> Seq(WireFrames)]
    BY DEF Inv1
  <2>2. Tail(net[p]) \in Seq(WireFrames)
    BY <1>1, <2>1
  <2> QED
    BY <1>1, <2>1, <2>2
<1>4. app' \in [Sides -> Apps]
  <2>1. app \in [Sides -> Apps]
    BY DEF Inv1
  <2>2. app' = IF Delivers(ses[p], f)
               THEN [app EXCEPT ![p].got[f.id] = @ + f.len,
                                ![p].held[f.id] = IF NoAutoWindowUpdate THEN @ + f.len ELSE @]
               ELSE app
    BY DEF Recv
  <2>3. CASE Delivers(ses[p], f)
    <3>1. f.type = "DATA"
      BY <2>3 DEF Delivers
    <3> HIDE DEF f
    <3>2. f.id \in Ids /\ f.len \in Int
      BY <1>1, <3>1 DEF WireFrames, UrgentItems, HeadersFrames, DataFrames, RstFrames,
         SettingsFrames, AckFrames, GoawayFrames, UpdateFrames
    <3> DEFINE n == app[p].got[f.id] + f.len
               k == IF NoAutoWindowUpdate THEN app[p].held[f.id] + f.len ELSE app[p].held[f.id]
               g == [app[p].got EXCEPT ![f.id] = n]
               h == [app[p].held EXCEPT ![f.id] = k]
               a == [app[p] EXCEPT !.got = g, !.held = h]
    <3>3. app[p].got \in [Ids -> Int] /\ app[p].held \in [Ids -> Int] /\ app[p] \in Apps
      BY <2>1 DEF Apps
    <3>4. n \in Int /\ k \in Int
      BY <3>2, <3>3
    <3>5. app' = [app EXCEPT ![p] = a]
      BY <2>1, <2>2, <2>3, <3>2 DEF Apps
    <3> HIDE DEF n, k
    <3>6. g \in [Ids -> Int] /\ h \in [Ids -> Int]
      BY <3>3, <3>4
    <3> HIDE DEF g, h
    <3>7. a \in Apps
      BY <3>3, <3>6 DEF Apps
    <3> HIDE DEF a
    <3> QED
      BY <2>1, <3>5, <3>7
  <2>4. CASE ~Delivers(ses[p], f)
    BY <2>1, <2>2, <2>4
  <2> QED
    BY <2>3, <2>4
<1> QED
  BY <1>2, <1>3, <1>4 DEF Inv1

LEMMA NextInv1 == Inv1 /\ [Next]_vars => Inv1'
<1> SUFFICES ASSUME Inv1, [Next]_vars PROVE Inv1'
  OBVIOUS
<1>1. CASE SubmitRequest
  BY <1>1, SubmitRequestInv1
<1>2. ASSUME NEW id \in Ids, SubmitResponse(id) PROVE Inv1'
  BY <1>2, SubmitResponseInv1
<1>3. ASSUME NEW p \in Sides, NEW id \in Ids, SubmitRstStream(p, id) PROVE Inv1'
  BY <1>3, SubmitRstInv1
<1>4. ASSUME NEW p \in Sides, NEW id \in Ids, Consume(p, id) PROVE Inv1'
  BY <1>4, ConsumeInv1
<1>5. ASSUME NEW p \in Sides, NEW iv \in Changes[p], SubmitSettings(p, iv) PROVE Inv1'
  BY <1>5, SubmitSettingsInv1
<1>6. ASSUME NEW p \in Sides, SubmitGoaway(p) \/ Terminate(p) PROVE Inv1'
  BY <1>6, SubmitGoawayInv1
<1>7. ASSUME NEW p \in Sides, SubmitShutdownNotice(p) PROVE Inv1'
  BY <1>7, SubmitNoticeInv1
<1>8. ASSUME NEW p \in Sides, Pop(p) PROVE Inv1'
  BY <1>8, PopInv1
<1>9. ASSUME NEW p \in Sides, Sent(p) PROVE Inv1'
  BY <1>9, SentInv1
<1>10. ASSUME NEW p \in Sides, Recv(p) PROVE Inv1'
  BY <1>10, RecvInv1
<1>11. CASE UNCHANGED vars
  BY <1>11 DEF vars, Inv1
<1> QED
  BY <1>1, <1>2, <1>3, <1>4, <1>5, <1>6, <1>7, <1>8, <1>9, <1>10, <1>11 DEF Next

LEMMA Inv1Always == Spec => []Inv1
<1> QED
  BY InitInv1, NextInv1, PTL DEF Spec

\* num_outgoing_streams and num_incoming_streams count the open streams exactly, whatever
\* opens and closes them: requests, refusals, resets, ends of both bodies, GOAWAYs that
\* close many streams at once, and a stream opened only to be closed again because its
\* request may not be sent any more.
THEOREM StreamsCountedAlways == Spec => []StreamsCounted
<1>1. Inv1 => StreamsCounted
  BY DEF Inv1, SessionsInv, SessionInv, StreamsCounted
<1> QED
  BY <1>1, Inv1Always, PTL
=============================================================================
