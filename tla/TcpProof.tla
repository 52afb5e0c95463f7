------------------------------ MODULE TcpProof ------------------------------
(***************************************************************************)
(* The control blocks of both ends of a TCP connection stay sound: the     *)
(* retransmission timer runs while a segment is in flight, the persist     *)
(* timer runs only while none is, and snd_buf is what the queues leave of  *)
(* TCP_SND_BUF (PersistInFlight, SendBufferExact, FlightTimed).            *)
(*                                                                         *)
(* A function of the TCP core takes an endpoint to an endpoint, so each    *)
(* has one lemma, which follows from the lemmas of the functions it calls. *)
(* Good says of an endpoint that its control block is Sound and that no    *)
(* assertion about the persist timer has failed, Live the same outside     *)
(* SYN_SENT and TIME_WAIT, and Light that a function changes nothing       *)
(* Sound speaks of. In SYN_SENT more is needed: the SYN|ACK drops the      *)
(* first segment of a queue without counting its bytes, so this segment    *)
(* must be the SYN (SynFirst), however often it went back to unsent and    *)
(* whatever was written behind it.                                         *)
(***************************************************************************)
EXTENDS Tcp, FoldFacts, SequenceTheorems

-----------------------------------------------------------------------------
(* Numbers and sequences.                                                  *)

Num == 0 .. SeqSpace - 1

LEMMA ModType == ASSUME NEW a \in Int, NEW b \in Nat \ {0} PROVE a % b \in 0 .. b - 1
  OBVIOUS

LEMMA PlusType == ASSUME NEW a \in Int, NEW n \in Int PROVE Plus(a, n) \in Num
  BY ModType, TcpOutAssumption DEF Plus, Num

LEMMA NumInt == \A n \in Num : n \in Int
  BY TcpOutAssumption DEF Num

LEMMA NumPlus ==
    ASSUME NEW a \in Num
    PROVE  /\ \A n \in Int : Plus(a, n) \in Num
           /\ Plus(a, 1) \in Num /\ Plus(a, SeqSpace - 1) \in Num
<1>1. a \in Int /\ 1 \in Int /\ SeqSpace - 1 \in Int
  BY NumInt, TcpOutAssumption
<1>2. \A n \in Int : Plus(a, n) \in Num
  BY <1>1, PlusType
<1> QED
  BY <1>1, <1>2

\* A distance below half the sequence space is seen as such.
LEMMA AheadBySmall ==
    ASSUME NEW a \in Num, NEW d \in 1 .. WndSpace - 1
    PROVE  TCP_SEQ_LT(a, Plus(a, d))
  BY TcpOutAssumption DEF Plus, Num, TCP_SEQ_LT, SeqDiff

LEMMA ModUnique ==
    ASSUME NEW b \in Nat \ {0}, NEW k \in Int, NEW r \in 0 .. b - 1, NEW v \in Int,
           v = b * k + r
    PROVE  v % b = r
<1> DEFINE j == v \div b
           z == v % b
<1>1. j \in Int /\ z \in 0 .. b - 1 /\ v = b * j + z
  OBVIOUS
<1> HIDE DEF j, z
<1>2. b * (k - j) = z - r
  <2>1. b * (k - j) = b * k - b * j /\ b * k \in Int /\ b * j \in Int
    BY <1>1
  <2> QED BY <1>1, <2>1
<1>3. ASSUME NEW d \in Int, d >= 1 PROVE b * d >= b
  <2>1. b * d = b * (d - 1) + b /\ b * (d - 1) \in Nat
    BY <1>3
  <2> QED BY <2>1
<1>4. ~(k - j >= 1)
  <2> SUFFICES ASSUME k - j >= 1 PROVE FALSE
    OBVIOUS
  <2>1. b * (k - j) >= b
    BY <1>1, <1>3
  <2> QED BY <1>1, <1>2, <2>1
<1>5. ~(j - k >= 1)
  <2> SUFFICES ASSUME j - k >= 1 PROVE FALSE
    OBVIOUS
  <2>1. b * (j - k) >= b
    BY <1>1, <1>3
  <2>2. b * (j - k) = 0 - b * (k - j) /\ b * (j - k) \in Int
    BY <1>1
  <2> QED BY <1>1, <1>2, <2>1, <2>2
<1>6. k = j
  BY <1>1, <1>4, <1>5
<1>7. z = r
  BY <1>1, <1>2, <1>6
<1> QED
  BY <1>7 DEF z

LEMMA PlusPlus ==
    ASSUME NEW a \in Num, NEW x \in Int, NEW y \in Int
    PROVE  Plus(Plus(a, x), y) = Plus(a, x + y)
<1> DEFINE S == SeqSpace
           u == a + x
           v == u + y
           c == u % S
           q == u \div S
           r == v % S
           k == v \div S
<1>1. S \in Nat \ {0} /\ a \in Int
  BY NumInt, TcpOutAssumption
<1>2. u \in Int /\ v \in Int
  BY <1>1
<1> HIDE DEF S, u
<1>3. c \in Int /\ q \in Int /\ u = S * q + c
  BY <1>1, <1>2
<1>4. r \in 0 .. S - 1 /\ k \in Int /\ v = S * k + r
  <2> HIDE DEF v
  <2> QED BY <1>1, <1>2
<1> HIDE DEF c, q, r, k
<1>5. c + y = S * (k - q) + r /\ k - q \in Int /\ c + y \in Int
  <2>1. S * (k - q) = S * k - S * q /\ S * k \in Int /\ S * q \in Int
    BY <1>1, <1>3, <1>4
  <2> QED BY <1>1, <1>2, <1>3, <1>4, <2>1
<1>6. (c + y) % S = r
  <2> DEFINE e == c + y
             m == k - q
  <2>1. e = S * m + r /\ m \in Int /\ e \in Int
    BY <1>5
  <2> HIDE DEF e, m
  <2>2. e % S = r
    BY <1>1, <1>4, <2>1, ModUnique
  <2> QED BY <2>2 DEF e
<1>7. a + (x + y) = v
  BY <1>1 DEF u
<1> QED
  BY <1>6, <1>7 DEF Plus, c, r, u, S

\* The largest number of a set that has one.
LEMMA MaxIn ==
    ASSUME NEW n \in Nat, NEW S \in SUBSET (0 .. n), S # {}
    PROVE  Max(S) \in S /\ \A x \in S : x <= Max(S)
<1>1. \E x \in S : \A y \in S : x >= y
  <2> SUFFICES ASSUME ~ \E x \in S : \A y \in S : x >= y PROVE FALSE
    BY Zenon
  <2> DEFINE N == {k \in Nat : \E y \in S : y >= k}
  <2>1. 0 \in N
    <3>1. PICK z \in S : TRUE
      OBVIOUS
    <3>2. z >= 0
      OBVIOUS
    <3> QED BY <3>2
  <2>2. ASSUME NEW k \in Nat, k \in N PROVE k + 1 \in N
    <3>1. PICK x \in S : x >= k
      BY <2>2
    <3>2. PICK y \in S : ~(x >= y)
      OBVIOUS
    <3>3. y >= k + 1
      BY <3>1, <3>2
    <3> QED
      BY <3>3
  <2>3. n + 1 \in N
    <3> HIDE DEF N
    <3> QED BY <2>1, <2>2, NatSet
  <2> QED
    BY <2>3
<1> QED
  BY <1>1 DEF Max

\* A sequence cut in two.
LEMMA Parts ==
    ASSUME NEW E, NEW q \in Seq(E), NEW k \in 0 .. Len(q)
    PROVE  /\ SubSeq(q, 1, k) \in Seq(E) /\ Len(SubSeq(q, 1, k)) = k
           /\ \A i \in 1 .. k : SubSeq(q, 1, k)[i] = q[i]
           /\ Skip(q, k) \in Seq(E) /\ Len(Skip(q, k)) = Len(q) - k
           /\ \A i \in 1 .. Len(q) - k : Skip(q, k)[i] = q[k + i]
           /\ SubSeq(q, 1, k) \o Skip(q, k) = q
<1>1. Len(q) \in Nat /\ \A i \in 1 .. Len(q) : q[i] \in E
  OBVIOUS
<1>2. /\ SubSeq(q, 1, k) \in Seq(E) /\ Len(SubSeq(q, 1, k)) = k
      /\ \A i \in 1 .. k : SubSeq(q, 1, k)[i] = q[i]
  <2>1. \A i \in 1 .. k : q[i] \in E
    BY <1>1
  <2> QED BY <1>1, <2>1, SubSeqProperties
<1>3. /\ Skip(q, k) \in Seq(E) /\ Len(Skip(q, k)) = Len(q) - k
      /\ \A i \in 1 .. Len(q) - k : Skip(q, k)[i] = q[k + i]
  <2>1. k + 1 \in Int /\ Len(q) \in Int /\ \A i \in k + 1 .. Len(q) : q[i] \in E
    BY <1>1
  <2>2. /\ SubSeq(q, k + 1, Len(q)) \in Seq(E)
        /\ Len(SubSeq(q, k + 1, Len(q)))
             = IF k + 1 <= Len(q) THEN Len(q) - (k + 1) + 1 ELSE 0
        /\ \A i \in 1 .. Len(q) - (k + 1) + 1 :
             SubSeq(q, k + 1, Len(q))[i] = q[k + 1 + i - 1]
    BY <2>1, SubSeqProperties
  <2> QED BY <1>1, <2>2 DEF Skip
<1>4. SubSeq(q, 1, k) \o Skip(q, k) = q
  <2>1. SubSeq(q, 1, k) \o SubSeq(q, k + 1, Len(q)) = SubSeq(q, 1, Len(q))
    <3>1. 1 \in 1 .. Len(q) + 1 /\ k \in 1 - 1 .. Len(q) /\ Len(q) \in k .. Len(q)
      BY <1>1
    <3> QED BY ONLY <3>1, q \in Seq(E), ConcatAdjacentSubSeq, Zenon
  <2>2. SubSeq(q, 1, Len(q)) = q
    BY SubSeqFull
  <2> QED BY <2>1, <2>2 DEF Skip
<1> QED
  BY <1>2, <1>3, <1>4

LEMMA Joined ==
    ASSUME NEW E, NEW a \in Seq(E), NEW b \in Seq(E)
    PROVE  /\ a \o b \in Seq(E) /\ Len(a \o b) = Len(a) + Len(b)
           /\ Len(a) \in Nat /\ Len(b) \in Nat
           /\ \A i \in 1 .. Len(a) : (a \o b)[i] = a[i]
           /\ \A i \in 1 .. Len(b) : (a \o b)[Len(a) + i] = b[i]
<1>1. Len(a) \in Nat /\ Len(b) \in Nat
  OBVIOUS
<1>2. /\ a \o b \in Seq(E) /\ Len(a \o b) = Len(a) + Len(b)
      /\ \A i \in 1 .. Len(a) + Len(b) : (a \o b)[i] =
            IF i <= Len(a) THEN a[i] ELSE b[i - Len(a)]
  BY ConcatProperties
<1>3. ASSUME NEW i \in 1 .. Len(a) PROVE (a \o b)[i] = a[i]
  BY <1>1, <1>2
<1>4. ASSUME NEW i \in 1 .. Len(b) PROVE (a \o b)[Len(a) + i] = b[i]
  <2>1. /\ Len(a) + i \in 1 .. Len(a) + Len(b) /\ ~(Len(a) + i <= Len(a))
        /\ (Len(a) + i) - Len(a) = i
    BY <1>1
  <2> QED BY <1>2, <2>1
<1> QED
  BY <1>1, <1>2, <1>3, <1>4

\* What is left of a sequence when more or less of it is cut than it has.
LEMMA CutType ==
    ASSUME NEW E, NEW q \in Seq(E), NEW n \in Int
    PROVE  /\ SubSeq(q, 1, AtMost(n, Len(q))) \in Seq(E)
           /\ n >= 0 => Skip(q, n) \in Seq(E)
<1>1. Len(q) \in Nat /\ \A i \in 1 .. Len(q) : q[i] \in E
  OBVIOUS
<1>2. AtMost(n, Len(q)) \in Int /\ \A i \in 1 .. AtMost(n, Len(q)) : q[i] \in E
  BY <1>1 DEF AtMost
<1>3. SubSeq(q, 1, AtMost(n, Len(q))) \in Seq(E)
  BY <1>2, SubSeqProperties
<1>4. ASSUME n >= 0 PROVE Skip(q, n) \in Seq(E)
  <2>1. n + 1 \in Int /\ Len(q) \in Int /\ \A i \in n + 1 .. Len(q) : q[i] \in E
    BY <1>1, <1>4
  <2> QED BY <2>1, SubSeqProperties DEF Skip
<1> QED
  BY <1>3, <1>4

-----------------------------------------------------------------------------
(* The bytes on a queue.                                                   *)

\* A segment holds at most TCP_MSS bytes.
Data == {d \in Seq(Nat) : Len(d) <= TCP_MSS}

LEMMA CutData ==
    ASSUME NEW d \in Seq(Nat), Len(d) <= TCP_MSS, NEW n \in Int
    PROVE  /\ SubSeq(d, 1, AtMost(n, Len(d))) \in Data
           /\ n >= 0 => Skip(d, n) \in Data
<1>1. Len(d) \in Nat /\ TCP_MSS \in Nat
  BY TcpOutAssumption
<1>2. SubSeq(d, 1, AtMost(n, Len(d))) \in Seq(Nat) /\ (n >= 0 => Skip(d, n) \in Seq(Nat))
  BY CutType
<1> DEFINE m == AtMost(n, Len(d))
<1>3. m \in Int /\ m <= Len(d) /\ \A i \in 1 .. m : d[i] \in Nat
  BY <1>1 DEF AtMost
<1>4. Len(SubSeq(d, 1, m)) <= TCP_MSS
  <2> HIDE DEF m
  <2>1. 1 \in Int
    OBVIOUS
  <2>2. Len(SubSeq(d, 1, m)) = IF 1 <= m THEN m - 1 + 1 ELSE 0
    BY <1>3, <2>1, SubSeqProperties
  <2> QED BY <1>1, <1>3, <2>2
<1>5. ASSUME n >= 0 PROVE Len(Skip(d, n)) <= TCP_MSS
  <2> DEFINE l == Len(d)
             k == n + 1
  <2>1. k \in Int /\ l \in Nat /\ k >= 1 /\ l <= TCP_MSS /\ \A i \in k .. l : d[i] \in Nat
    BY <1>1, <1>5
  <2>2. Skip(d, n) = SubSeq(d, k, l)
    BY DEF Skip
  <2> HIDE DEF k, l
  <2>3. Len(SubSeq(d, k, l)) = IF k <= l THEN l - k + 1 ELSE 0
    BY <2>1, SubSeqProperties
  <2> QED BY <1>1, <2>1, <2>2, <2>3
<1> QED
  BY <1>2, <1>4, <1>5 DEF Data

Seg == [seqno : Num, data : Data, syn : BOOLEAN, fin : BOOLEAN]

Bytes(q) == Len(QueuedData(q))

\* f[i] is the number of bytes of the first i segments of q.
IsSum(f, q) ==
    /\ f \in [0 .. Len(q) -> Nat] /\ f[0] = 0
    /\ \A i \in 1 .. Len(q) : f[i] = f[i - 1] + Len(q[i].data)

\* The function by which FlattenSeq is defined, and that it exists.
IsFlat(g, d, n) == g = [i \in 1 .. n |-> IF i = 1 THEN d[i] ELSE g[i - 1] \o d[i]]

LEMMA FlattenExists ==
    ASSUME NEW E, NEW n \in Nat \ {0}, NEW d \in [1 .. n -> Seq(E)]
    PROVE  \E g \in [1 .. n -> Seq(E)] : IsFlat(g, d, n)
<1> DEFINE Eq(g, k) == \A i \in 1 .. k : g[i] = IF i = 1 THEN d[i] ELSE g[i - 1] \o d[i]
           N == {k \in Nat : k <= n => \E g \in [1 .. k -> Seq(E)] : Eq(g, k)}
<1>1. 0 \in N
  <2>1. [i \in 1 .. 0 |-> <<>>] \in [1 .. 0 -> Seq(E)] /\ Eq([i \in 1 .. 0 |-> <<>>], 0)
    OBVIOUS
  <2>2. \E g \in [1 .. 0 -> Seq(E)] : Eq(g, 0)
    <3> HIDE DEF Eq
    <3> QED BY <2>1
  <2> QED BY <2>2
<1>2. ASSUME NEW k \in Nat, k \in N PROVE k + 1 \in N
  <2> SUFFICES ASSUME k + 1 <= n PROVE \E g \in [1 .. k + 1 -> Seq(E)] : Eq(g, k + 1)
    <3>1. k + 1 \in Nat
      OBVIOUS
    <3> HIDE DEF Eq
    <3> QED BY <3>1
  <2>1. PICK g \in [1 .. k -> Seq(E)] : Eq(g, k)
    BY <1>2
  <2> DEFINE x == IF k = 0 THEN d[1] ELSE g[k] \o d[k + 1]
             h == [i \in 1 .. k + 1 |-> IF i = k + 1 THEN x ELSE g[i]]
  <2>2. x \in Seq(E)
    <3>1. k + 1 \in 1 .. n /\ (k # 0 => k \in 1 .. k)
      OBVIOUS
    <3>2. d[k + 1] \in Seq(E) /\ (k # 0 => g[k] \in Seq(E)) /\ (k = 0 => d[1] \in Seq(E))
      BY <3>1
    <3> QED BY <3>2, ConcatProperties
  <2>3. h \in [1 .. k + 1 -> Seq(E)]
    <3> HIDE DEF x
    <3> QED BY <2>2
  <2>4. ASSUME NEW i \in 1 .. k + 1
        PROVE  h[i] = IF i = 1 THEN d[i] ELSE h[i - 1] \o d[i]
    <3>1. CASE i = k + 1
      BY <3>1
    <3>2. CASE i # k + 1
      <4>1. i \in 1 .. k /\ h[i] = g[i] /\ (i # 1 => i - 1 \in 1 .. k /\ h[i - 1] = g[i - 1])
        BY <3>2
      <4>2. g[i] = IF i = 1 THEN d[i] ELSE g[i - 1] \o d[i]
        BY <2>1, <4>1
      <4> HIDE DEF h
      <4> QED BY <4>1, <4>2
    <3> QED BY <3>1, <3>2
  <2>5. Eq(h, k + 1)
    <3> HIDE DEF h
    <3> QED BY <2>4
  <2> QED
    <3> HIDE DEF h, Eq
    <3> QED BY <2>3, <2>5
<1>3. n \in N
  <2> HIDE DEF N
  <2> QED BY <1>1, <1>2, NatSet
<1>4. PICK g \in [1 .. n -> Seq(E)] : Eq(g, n)
  <2>1. n <= n => \E g \in [1 .. n -> Seq(E)] : Eq(g, n)
    <3> HIDE DEF Eq
    <3> QED BY <1>3
  <2>2. n <= n
    OBVIOUS
  <2> QED BY <2>1, <2>2, Zenon
<1>5. IsFlat(g, d, n)
  BY <1>4 DEF IsFlat
<1> QED
  BY <1>5

LEMMA BytesSum ==
    ASSUME NEW q \in Seq(Seg)
    PROVE  QueuedData(q) \in Seq(Nat) /\ \E f : IsSum(f, q) /\ Bytes(q) = f[Len(q)]
<1> DEFINE n == Len(q)
           d == [i \in 1 .. n |-> q[i].data]
           flat == CHOOSE g : g = [i \in 1 .. n |-> IF i = 1 THEN d[i] ELSE g[i - 1] \o d[i]]
           f == [i \in 0 .. n |-> IF i = 0 THEN 0 ELSE Len(flat[i])]
<1>1. n \in Nat /\ \A i \in 1 .. n : q[i].data \in Seq(Nat)
  <2>1. n \in Nat /\ \A i \in 1 .. n : q[i] \in Seg
    OBVIOUS
  <2> QED BY <2>1 DEF Seg, Data
<1>2. d \in [1 .. n -> Seq(Nat)] /\ d \in Seq(Seq(Nat)) /\ Len(d) = n
  BY <1>1
<1>3. CASE n = 0
  <2>1. d = <<>>
    BY <1>3
  <2>2. QueuedData(q) = <<>>
    BY <1>2, <1>3, <2>1 DEF QueuedData, FlattenSeq
  <2>3. Bytes(q) = 0
    BY <2>2 DEF Bytes
  <2>4. IsSum([i \in 0 .. 0 |-> 0], q) /\ Len(q) = 0 /\ [i \in 0 .. 0 |-> 0][0] = 0
    BY <1>3 DEF IsSum
  <2> QED BY <2>2, <2>3, <2>4
<1>4. CASE n # 0
  <2>1. \E g : g = [i \in 1 .. n |-> IF i = 1 THEN d[i] ELSE g[i - 1] \o d[i]]
    <3> HIDE DEF d
    <3>1. n \in Nat \ {0} /\ d \in [1 .. n -> Seq(Nat)]
      BY <1>1, <1>2, <1>4
    <3> HIDE DEF n
    <3>2. \E g \in [1 .. n -> Seq(Nat)] : IsFlat(g, d, n)
      BY ONLY <3>1, FlattenExists
    <3> QED BY <3>2, Zenon DEF IsFlat
  <2>2. flat = [i \in 1 .. n |-> IF i = 1 THEN d[i] ELSE flat[i - 1] \o d[i]]
    <3> HIDE DEF n, d
    <3> QED BY <2>1, Zenon
  <2>3. QueuedData(q) = flat[n]
    <3>1. QueuedData(q) = FlattenSeq(d)
      BY Zenon DEF QueuedData
    <3>2. FlattenSeq(d) = flat[n]
      <4>1. FlattenSeq(d) = IF Len(d) = 0 THEN d ELSE
              (CHOOSE g : g = [i \in 1 .. Len(d) |-> IF i = 1 THEN d[i]
                                                     ELSE g[i - 1] \o d[i]])[Len(d)]
        <5> HIDE DEF d, n
        <5> QED BY Zenon DEF FlattenSeq
      <4> HIDE DEF d, n
      <4> QED BY <1>2, <1>4, <4>1, Zenon
    <3> QED BY <3>1, <3>2, Zenon
  <2> HIDE DEF flat
  <2> DEFINE N == {k \in Nat : k + 1 <= n => flat[k + 1] \in Seq(Nat)}
  <2>4. flat[1] \in Seq(Nat) /\ Len(flat[1]) = Len(q[1].data)
    BY <1>1, <1>4, <2>2
  <2>5. ASSUME NEW i \in 1 .. n, i # 1
        PROVE  /\ i - 1 \in 1 .. n /\ i - 1 # 0
               /\ flat[i] = flat[i - 1] \o q[i].data
    <3>1. i - 1 \in 1 .. n /\ i - 1 # 0
      BY <1>1, <2>5
    <3>2. d[i] = q[i].data
      OBVIOUS
    <3> HIDE DEF n, d
    <3>3. flat[i] = IF i = 1 THEN d[i] ELSE flat[i - 1] \o d[i]
      BY <2>2
    <3> QED BY <2>5, <3>1, <3>2, <3>3
  <2>6. 0 \in N
    BY <2>4
  <2>7. ASSUME NEW k \in Nat, k \in N PROVE k + 1 \in N
    <3> SUFFICES ASSUME (k + 1) + 1 <= n PROVE flat[(k + 1) + 1] \in Seq(Nat)
      OBVIOUS
    <3>1. flat[(k + 1) + 1] = flat[k + 1] \o q[(k + 1) + 1].data
      <4> DEFINE j == (k + 1) + 1
      <4>1. j \in 1 .. n /\ j # 1 /\ j - 1 = k + 1
        BY <1>1
      <4>2. flat[j] = flat[j - 1] \o q[j].data
        <5> HIDE DEF j, n
        <5> QED BY <2>5, <4>1
      <4> QED BY <4>1, <4>2
    <3>2. flat[k + 1] \in Seq(Nat) /\ q[(k + 1) + 1].data \in Seq(Nat)
      BY <1>1, <2>7
    <3> QED BY <3>1, <3>2, ConcatProperties
  <2>8. Nat \subseteq N
    <3> HIDE DEF N
    <3> QED BY <2>6, <2>7, NatSet
  <2>9. \A i \in 1 .. n : flat[i] \in Seq(Nat)
    <3> SUFFICES ASSUME NEW i \in 1 .. n PROVE flat[i] \in Seq(Nat)
      OBVIOUS
    <3>1. i - 1 \in Nat /\ (i - 1) + 1 = i /\ i <= n
      BY <1>1
    <3>2. i - 1 \in N
      BY <2>8, <3>1
    <3> QED BY <3>1, <3>2
  <2>10. IsSum(f, q)
    <3>1. f \in [0 .. n -> Nat] /\ f[0] = 0
      BY <1>1, <2>9
    <3>2. ASSUME NEW i \in 1 .. n PROVE f[i] = f[i - 1] + Len(q[i].data)
      <4>1. CASE i = 1
        BY <1>1, <2>4, <4>1
      <4>2. CASE i # 1
        <5>1. flat[i] = flat[i - 1] \o q[i].data /\ i - 1 \in 1 .. n /\ i - 1 # 0
          BY <2>5, <4>2
        <5>2. flat[i - 1] \in Seq(Nat) /\ q[i].data \in Seq(Nat)
          BY <1>1, <2>9, <5>1
        <5>3. Len(flat[i]) = Len(flat[i - 1]) + Len(q[i].data)
          BY <5>1, <5>2, ConcatProperties
        <5>4. i \in 0 .. n /\ i # 0 /\ i - 1 \in 0 .. n /\ i - 1 # 0
          BY <1>1, <5>1
        <5>5. f[i] = Len(flat[i]) /\ f[i - 1] = Len(flat[i - 1])
          BY <5>4
        <5> HIDE DEF f
        <5> QED BY <5>3, <5>5
      <4> QED BY <4>1, <4>2
    <3> QED BY <3>1, <3>2 DEF IsSum
  <2>11. f[n] = Len(flat[n]) /\ flat[n] \in Seq(Nat)
    BY <1>1, <1>4, <2>9
  <2> QED
    <3> HIDE DEF f
    <3> QED BY <2>3, <2>10, <2>11 DEF Bytes
<1> QED
  BY <1>3, <1>4

LEMMA SumUnique ==
    ASSUME NEW q, Len(q) \in Nat, NEW f, NEW g, IsSum(f, q), IsSum(g, q)
    PROVE  \A i \in 0 .. Len(q) : f[i] = g[i]
<1> DEFINE N == {k \in Nat : k <= Len(q) => f[k] = g[k]}
<1>1. 0 \in N
  BY DEF IsSum
<1>2. ASSUME NEW k \in Nat, k \in N PROVE k + 1 \in N
  BY <1>2 DEF IsSum
<1>3. Nat \subseteq N
  <2> HIDE DEF N
  <2> QED BY <1>1, <1>2, NatSet
<1> QED
  BY <1>3

\* Bytes are added up segment by segment.
LEMMA BytesConcat ==
    ASSUME NEW q \in Seq(Seg), NEW r \in Seq(Seg)
    PROVE  q \o r \in Seq(Seg) /\ Bytes(q \o r) = Bytes(q) + Bytes(r)
<1>1. /\ q \o r \in Seq(Seg) /\ Len(q) \in Nat /\ Len(r) \in Nat
      /\ Len(q \o r) = Len(q) + Len(r)
      /\ \A i \in 1 .. Len(q) + Len(r) : (q \o r)[i] =
            IF i <= Len(q) THEN q[i] ELSE r[i - Len(q)]
  BY ConcatProperties
<1>2. PICK f : IsSum(f, q \o r) /\ Bytes(q \o r) = f[Len(q \o r)]
  BY <1>1, BytesSum
<1>3. PICK g : IsSum(g, q) /\ Bytes(q) = g[Len(q)]
  BY BytesSum
<1>4. PICK h : IsSum(h, r) /\ Bytes(r) = h[Len(r)]
  BY BytesSum
<1> DEFINE a == [i \in 0 .. Len(q) |-> f[i]]
           b == [i \in 0 .. Len(r) |-> h[i] + g[Len(q)]]
           N == {k \in Nat : k <= Len(r) => f[Len(q) + k] = g[Len(q)] + h[k]}
<1>5. IsSum(a, q)
  BY <1>1, <1>2 DEF IsSum
<1>6. a[Len(q)] = g[Len(q)]
  <2> HIDE DEF a
  <2> QED BY <1>1, <1>3, <1>5, SumUnique
<1>7. f[Len(q)] = g[Len(q)]
  BY <1>1, <1>6
<1>8. 0 \in N
  <2>1. Len(q) + 0 = Len(q) /\ Len(q) \in 0 .. Len(q)
    BY <1>1
  <2>2. h[0] = 0 /\ g[Len(q)] \in Nat
    BY <1>3, <1>4, <2>1 DEF IsSum
  <2>3. f[Len(q) + 0] = g[Len(q)] + h[0]
    BY <1>7, <2>1, <2>2
  <2> QED BY <2>3
<1>9. ASSUME NEW k \in Nat, k \in N PROVE k + 1 \in N
  <2> SUFFICES ASSUME k + 1 <= Len(r) PROVE f[Len(q) + (k + 1)] = g[Len(q)] + h[k + 1]
    OBVIOUS
  <2>1. (q \o r)[Len(q) + (k + 1)] = r[k + 1]
    BY <1>1
  <2>2. f[Len(q) + (k + 1)] = f[Len(q) + k] + Len(r[k + 1].data)
    BY <1>1, <1>2, <2>1 DEF IsSum
  <2>3. h[k + 1] = h[k] + Len(r[k + 1].data) /\ h[k] \in Nat /\ h[k + 1] \in Nat
        /\ g[Len(q)] \in Nat /\ f[Len(q) + k] \in Nat
    <3>1. /\ k + 1 \in 1 .. Len(r) /\ k \in 0 .. Len(r) /\ (k + 1) - 1 = k
          /\ Len(q) \in 0 .. Len(q) /\ Len(q) + k \in 0 .. Len(q \o r)
          /\ k + 1 \in 0 .. Len(r)
      BY <1>1
    <3>2. h[k + 1] = h[(k + 1) - 1] + Len(r[k + 1].data) /\ h[k] \in Nat /\ h[k + 1] \in Nat
      BY <1>4, <3>1 DEF IsSum
    <3>3. g[Len(q)] \in Nat
      BY <1>3, <3>1 DEF IsSum
    <3>4. f[Len(q) + k] \in Nat
      BY <1>2, <3>1 DEF IsSum
    <3> QED BY <3>1, <3>2, <3>3, <3>4
  <2>4. Len(r[k + 1].data) \in Nat
    BY <1>1 DEF Seg, Data
  <2>5. f[Len(q) + k] = g[Len(q)] + h[k]
    <3>1. k <= Len(r)
      BY <1>1
    <3> QED BY <1>9, <3>1
  <2> DEFINE x == f[Len(q) + (k + 1)]
             y == f[Len(q) + k]
             z == h[k + 1]
             v == h[k]
             i == g[Len(q)]
             l == Len(r[k + 1].data)
  <2>6. /\ x = y + l /\ z = v + l /\ y = i + v
        /\ v \in Nat /\ z \in Nat /\ i \in Nat /\ y \in Nat /\ l \in Nat
    BY <2>2, <2>3, <2>4, <2>5
  <2> HIDE DEF x, y, z, v, i, l
  <2>7. x = i + z
    BY ONLY <2>6
  <2> QED BY <2>7 DEF x, i, z
<1>10. Len(r) \in N
  <2> HIDE DEF N
  <2> QED BY <1>1, <1>8, <1>9, NatSet
<1> QED
  BY <1>1, <1>2, <1>3, <1>4, <1>10

LEMMA BytesNat == ASSUME NEW q \in Seq(Seg) PROVE Bytes(q) \in Nat
  BY BytesSum DEF Bytes

LEMMA BytesEmpty == Bytes(<<>>) = 0
<1>1. <<>> \in Seq(Seg) /\ Len(<<>>) = 0
  OBVIOUS
<1>2. PICK f : IsSum(f, <<>>) /\ Bytes(<<>>) = f[Len(<<>>)]
  BY <1>1, BytesSum
<1> QED
  BY <1>1, <1>2 DEF IsSum

LEMMA BytesOne ==
    ASSUME NEW x \in Seg
    PROVE  <<x>> \in Seq(Seg) /\ Bytes(<<x>>) = Len(x.data) /\ Len(x.data) \in Nat
<1>1. <<x>> \in Seq(Seg) /\ Len(<<x>>) = 1 /\ <<x>>[1] = x
  OBVIOUS
<1>2. PICK f : IsSum(f, <<x>>) /\ Bytes(<<x>>) = f[Len(<<x>>)]
  BY <1>1, BytesSum
<1>3. Len(x.data) \in Nat
  BY DEF Seg, Data
<1>4. f[1] = f[0] + Len(x.data) /\ f[0] = 0
  BY <1>1, <1>2 DEF IsSum
<1> QED
  BY <1>1, <1>2, <1>3, <1>4

-----------------------------------------------------------------------------
(* Queues that are kept sorted.                                            *)

\* How many segments at the head of a queue have some property.
LEMMA RunIn ==
    ASSUME NEW n \in Nat, NEW S, 0 \in S, S \subseteq 0 .. n
    PROVE  Max(S) \in 0 .. n /\ Max(S) \in S /\ \A x \in S : x <= Max(S)
  BY MaxIn

\* Where InsertSeg puts a segment: behind what precedes it.
IsAt(q, x, k) == InsertSeg(q, x) = SubSeq(q, 1, k) \o <<x>> \o Skip(q, k)

LEMMA InsertPlace ==
    ASSUME NEW q \in Seq(Seg), NEW x \in Seg
    PROVE  \E k \in 0 .. Len(q) :
              /\ IsAt(q, x, k)
              /\ (q # <<>> /\ TCP_SEQ_LT(q[1].seqno, x.seqno)) => k >= 1
<1> DEFINE S == {k \in 0 .. Len(q) : \A i \in 1 .. k : TCP_SEQ_LT(q[i].seqno, x.seqno)}
           m == Max(S)
<1>1. Len(q) \in Nat /\ (q # <<>> => Len(q) >= 1)
  OBVIOUS
<1>2. 0 \in S /\ S \subseteq 0 .. Len(q)
  BY <1>1
<1>3. m \in 0 .. Len(q) /\ \A y \in S : y <= m
  <2> HIDE DEF S
  <2> QED BY <1>1, <1>2, RunIn
<1>4. IsAt(q, x, m)
  BY Zenon DEF IsAt, InsertSeg, HeadRun
<1>5. ASSUME q # <<>>, TCP_SEQ_LT(q[1].seqno, x.seqno) PROVE m >= 1
  <2>1. 1 \in S
    BY <1>1, <1>5
  <2> HIDE DEF S
  <2> QED BY <1>3, <2>1
<1> QED
  <2> HIDE DEF m
  <2> QED BY <1>3, <1>4, <1>5

LEMMA InsertBytes ==
    ASSUME NEW q \in Seq(Seg), NEW x \in Seg
    PROVE  /\ InsertSeg(q, x) \in Seq(Seg)
           /\ Bytes(InsertSeg(q, x)) = Bytes(q) + Len(x.data)
           /\ InsertSeg(q, x) # <<>>
<1>1. PICK k \in 0 .. Len(q) : IsAt(q, x, k)
  BY InsertPlace, Zenon
<1> DEFINE a == SubSeq(q, 1, k)
           b == Skip(q, k)
<1>2. a \in Seq(Seg) /\ b \in Seq(Seg) /\ a \o b = q
  BY Parts
<1> HIDE DEF a, b
<1>3. <<x>> \in Seq(Seg) /\ Bytes(<<x>>) = Len(x.data) /\ Len(x.data) \in Nat
  BY BytesOne, Zenon
<1>4. a \o <<x>> \in Seq(Seg) /\ Bytes(a \o <<x>>) = Bytes(a) + Len(x.data)
  <2> DEFINE o == <<x>>
  <2> HIDE DEF o
  <2>1. o \in Seq(Seg) /\ Bytes(o) = Len(x.data)
    BY <1>3 DEF o
  <2>2. a \o o \in Seq(Seg) /\ Bytes(a \o o) = Bytes(a) + Bytes(o)
    BY <1>2, <2>1, BytesConcat
  <2> QED BY <2>1, <2>2 DEF o
<1>5. /\ a \o <<x>> \o b \in Seq(Seg)
      /\ Bytes(a \o <<x>> \o b) = Bytes(a) + Len(x.data) + Bytes(b)
  BY <1>2, <1>4, BytesConcat
<1>6. Bytes(q) = Bytes(a) + Bytes(b) /\ Bytes(a) \in Nat /\ Bytes(b) \in Nat
  BY <1>2, BytesConcat, BytesNat
<1>7. a \o <<x>> \o b # <<>>
  <2>1. Len(a \o <<x>>) = Len(a) + 1 /\ Len(a) \in Nat /\ Len(b) \in Nat
    BY <1>2, <1>3
  <2>2. Len(a \o <<x>> \o b) = Len(a) + 1 + Len(b)
    BY <1>2, <1>4, <2>1, ConcatProperties
  <2> QED BY <2>1, <2>2
<1>8. InsertSeg(q, x) = a \o <<x>> \o b
  BY <1>1 DEF a, b, IsAt
<1> QED
  BY <1>3, <1>5, <1>6, <1>7, <1>8

\* What SendUnsent puts on unacked: the segments of q, one after the other.
IsInserted(g, u, q) ==
    /\ g \in [0 .. Len(q) -> Seq(Seg)] /\ g[0] = u
    /\ \A i \in 1 .. Len(q) : g[i] = InsertSeg(g[i - 1], q[i])

LEMMA InsertedOneByOne ==
    ASSUME NEW u \in Seq(Seg), NEW q \in Seq(Seg)
    PROVE  \E g : IsInserted(g, u, q) /\ FoldLeft(InsertSeg, u, q) = g[Len(q)]
<1> DEFINE n == Len(q)
           S == 1 .. n
           V == Seq(Seg)
           op(i, r) == InsertSeg(r, q[i])
           F == [i \in S |-> [r \in V |-> op(i, r)]]
           C == [T \in SUBSET S |-> Max(T)]
           iter == CHOOSE f : f = [T \in SUBSET S |-> IF T = {} THEN u
                                     ELSE op(Max(T), f[T \ {Max(T)}])]
           g == [i \in 0 .. n |-> iter[1 .. i]]
<1>1. n \in Nat /\ \A i \in S : q[i] \in Seg
  OBVIOUS
<1>2. IsFiniteSet(S)
  BY <1>1, FS_Interval
<1>3. \A i \in S, r \in V : op(i, r) \in V
  BY <1>1, InsertBytes
<1>4. F \in [S -> [V -> V]]
  <2> HIDE DEF op, S, V
  <2> QED BY <1>3
<1>5. ASSUME NEW T \in SUBSET S, T # {} PROVE Max(T) \in T
  <2>1. T \in SUBSET (0 .. n)
    BY <1>1
  <2> QED BY <1>1, <1>5, <2>1, MaxIn
<1>6. \A T \in SUBSET S : C[T] = Max(T) /\ (T # {} => C[T] \in T)
  <2> HIDE DEF S
  <2> QED BY <1>5
<1>7. PICK f \in [SUBSET S -> V] : IsFoldBy(f, S, u, F, C)
  <2> HIDE DEF F, S, V, C
  <2>1. u \in V
    BY DEF V
  <2> QED BY FoldByExists, <1>2, <1>4, <1>6, <2>1
<1>8. f = [T \in SUBSET S |-> IF T = {} THEN u ELSE op(Max(T), f[T \ {Max(T)}])]
  <2> HIDE DEF op, S, V, C
  <2>1. ASSUME NEW T \in SUBSET S
        PROVE  f[T] = IF T = {} THEN u ELSE op(Max(T), f[T \ {Max(T)}])
    <3>1. f[T] = IF T = {} THEN u ELSE F[Max(T)][f[T \ {Max(T)}]]
      <4> HIDE DEF F
      <4> QED BY <1>6, <1>7 DEF IsFoldBy
    <3>2. T # {} => Max(T) \in S /\ f[T \ {Max(T)}] \in V
      BY <1>5, <1>7
    <3>3. T # {} => F[Max(T)][f[T \ {Max(T)}]] = op(Max(T), f[T \ {Max(T)}])
      BY <3>2
    <3> QED BY <3>1, <3>3
  <2> QED BY <1>7, <2>1
<1>9. iter = [T \in SUBSET S |-> IF T = {} THEN u ELSE op(Max(T), iter[T \ {Max(T)}])]
  <2> HIDE DEF op, S
  <2> QED BY <1>8, Zenon
<1>10. FoldLeft(InsertSeg, u, q) = iter[S]
  <2>1. DOMAIN q = S
    OBVIOUS
  <2>2. FoldLeft(InsertSeg, u, q) =
          (CHOOSE h : h = [T \in SUBSET DOMAIN q |-> IF T = {} THEN u
                             ELSE InsertSeg(h[T \ {Max(T)}], q[Max(T)])])[DOMAIN q]
    BY Zenon DEF FoldLeft, MapThenFoldSet
  <2> HIDE DEF S
  <2> QED BY <2>1, <2>2, Zenon
<1> HIDE DEF iter
<1>11. ASSUME NEW i \in S PROVE iter[1 .. i] = InsertSeg(iter[1 .. (i - 1)], q[i])
  <2>1. 1 .. i \in SUBSET S /\ 1 .. i # {}
    BY <1>1
  <2>2. Max(1 .. i) = i
    <3>1. 1 .. i \in SUBSET (0 .. n) /\ i \in 1 .. i
      BY <1>1
    <3>2. Max(1 .. i) \in 1 .. i /\ \A x \in 1 .. i : x <= Max(1 .. i)
      BY <1>1, <2>1, <3>1, MaxIn
    <3> QED BY <1>1, <3>1, <3>2
  <2>3. (1 .. i) \ {i} = 1 .. (i - 1)
    BY <1>1
  <2>4. iter[1 .. i] = op(Max(1 .. i), iter[(1 .. i) \ {Max(1 .. i)}])
    <3> HIDE DEF op, S
    <3> QED BY <1>9, <2>1
  <2> QED BY <2>2, <2>3, <2>4
<1>12. iter[1 .. 0] = u
  <2>1. 1 .. 0 = {} /\ 1 .. 0 \in SUBSET S
    OBVIOUS
  <2> HIDE DEF op, S
  <2> QED BY <1>9, <2>1
<1> DEFINE N == {k \in Nat : k <= n => iter[1 .. k] \in V}
<1>13. 0 \in N
  BY <1>12
<1>14. ASSUME NEW k \in Nat, k \in N PROVE k + 1 \in N
  <2> SUFFICES ASSUME k + 1 <= n PROVE iter[1 .. k + 1] \in V
    OBVIOUS
  <2>1. k + 1 \in S /\ (k + 1) - 1 = k
    BY <1>1
  <2>2. iter[1 .. k + 1] = InsertSeg(iter[1 .. k], q[k + 1])
    BY <1>11, <2>1
  <2>3. iter[1 .. k] \in V
    BY <1>1, <1>14
  <2> QED BY <1>1, <2>1, <2>2, <2>3, InsertBytes
<1>15. Nat \subseteq N
  <2> HIDE DEF N
  <2> QED BY <1>13, <1>14, NatSet
<1>16. g \in [0 .. n -> Seq(Seg)] /\ \A i \in 0 .. n : g[i] = iter[1 .. i]
  BY <1>15
<1>17. IsInserted(g, u, q) /\ g[n] = iter[S]
  <2> HIDE DEF g
  <2>1. g[0] = u /\ g[n] = iter[S]
    BY <1>1, <1>12, <1>16
  <2>2. ASSUME NEW i \in 1 .. n PROVE g[i] = InsertSeg(g[i - 1], q[i])
    <3>1. i \in 0 .. n /\ i - 1 \in 0 .. n
      BY <1>1
    <3> QED BY <1>11, <1>16, <3>1
  <2> QED BY <1>16, <2>1, <2>2 DEF IsInserted
<1> QED
  <2> HIDE DEF g
  <2> QED BY <1>10, <1>17

LEMMA TcplenType ==
    ASSUME NEW x, x.data \in Seq(Nat), x.syn \in BOOLEAN, x.fin \in BOOLEAN
    PROVE  TCP_TCPLEN(x) \in Nat
<1>1. Len(x.data) \in Nat
  OBVIOUS
<1>2. CASE x.syn \/ x.fin
  <2>1. TCP_TCPLEN(x) = Len(x.data) + 1
    BY <1>2, Zenon DEF TCP_TCPLEN
  <2> QED BY <1>1, <2>1
<1>3. CASE ~(x.syn \/ x.fin)
  <2>1. TCP_TCPLEN(x) = Len(x.data) + 0
    BY <1>3, Zenon DEF TCP_TCPLEN
  <2> QED BY <1>1, <2>1
<1> QED
  BY <1>2, <1>3

LEMMA QueuedLenType ==
    ASSUME NEW q \in Seq(Seg)
    PROVE  QueuedLen(q) \in Nat
<1> DEFINE S == DOMAIN q
           op(i, r) == TCP_TCPLEN(q[i]) + r
           F == [i \in S |-> [r \in Nat |-> op(i, r)]]
           iter == CHOOSE f : f = [T \in SUBSET S |-> IF T = {} THEN 0
                                     ELSE op(Pick(T), f[T \ {Pick(T)}])]
           Q == {T \in SUBSET S : iter[T] \in Nat}
<1>2. \A i \in S : TCP_TCPLEN(q[i]) \in Nat
  <2>1. \A i \in S : q[i] \in Seg
    OBVIOUS
  <2> QED BY <2>1, TcplenType DEF Seg, Data
<1>3. IsFiniteSet(S)
  <2>1. S = 1 .. Len(q) /\ Len(q) \in Nat
    OBVIOUS
  <2> QED BY <2>1, FS_Interval
<1>4. \A i \in S, r \in Nat : op(i, r) \in Nat
  BY <1>2
<1>5. F \in [S -> [Nat -> Nat]]
  <2> HIDE DEF op, S
  <2> QED BY <1>4
<1>6. PICK f \in [SUBSET S -> Nat] : IsFold(f, S, 0, F)
  <2>1. 0 \in Nat
    OBVIOUS
  <2> HIDE DEF F, S
  <2> QED BY FoldExists, <1>3, <1>5, <2>1
<1>7. f = [T \in SUBSET S |-> IF T = {} THEN 0 ELSE op(Pick(T), f[T \ {Pick(T)}])]
  <2> HIDE DEF op, S
  <2> QED BY <1>6, PickIn DEF IsFold
<1>8. iter = [T \in SUBSET S |-> IF T = {} THEN 0 ELSE op(Pick(T), iter[T \ {Pick(T)}])]
  <2> HIDE DEF op, S
  <2> QED BY <1>7, Zenon
<1>9. QueuedLen(q) = iter[S]
  BY Zenon DEF QueuedLen, FoldSeq, FoldFunction, FoldFunctionOnSet,
               MapThenFoldSet, Pick
<1> HIDE DEF iter
<1>10. {} \in Q
  <2> HIDE DEF op, S
  <2> QED BY <1>8
<1>11. ASSUME NEW T \in SUBSET S, T # {}, T \ {Pick(T)} \in Q PROVE T \in Q
  <2>1. Pick(T) \in T
    BY <1>11, PickIn
  <2> HIDE DEF op, S
  <2>2. iter[T] = op(Pick(T), iter[T \ {Pick(T)}])
    BY <1>8, <1>11
  <2>3. Pick(T) \in S /\ iter[T \ {Pick(T)}] \in Nat
    BY <1>11, <2>1
  <2> QED
    BY <1>4, <1>11, <2>2, <2>3
<1>12. S \in Q
  <2> HIDE DEF Q, S
  <2> QED BY <1>3, <1>10, <1>11, PickInduction
<1> QED
  BY <1>9, <1>12

-----------------------------------------------------------------------------
(* Types.                                                                  *)

States == {"CLOSED", "SYN_SENT", "SYN_RCVD", "ESTABLISHED", "FIN_WAIT_1", "FIN_WAIT_2",
           "CLOSE_WAIT", "CLOSING", "LAST_ACK", "TIME_WAIT"}

Flags == {"ACK_DELAY", "ACK_NOW", "FIN", "RTO", "INFR", "NAGLEMEMERR", "RXCLOSED", "CLOSEPEND"}
Events == {"GOT_FIN", "RESET", "CLOSED", "ABRT"}
Asserts == {"persist in-flight", "persist empty", "tcplen > rcv_wnd",
            "ooseq tcplen > rcv_wnd"}
Errors == {"", "ABRT", "RST", "CLSD"}

RefusedData == [data : Seq(Nat), fin : BOOLEAN]

Block ==
    [state : States, flags : SUBSET Flags, unsent : Seq(Seg), unacked : Seq(Seg),
     ooseq : Seq(Seg), refused : RefusedData,
     snd_nxt : Num, lastack : Num, snd_lbb : Num, snd_buf : Int,
     snd_wnd : Nat, snd_wl1 : Num, snd_wl2 : Num,
     rcv_nxt : Num, rcv_wnd : Nat, rcv_ann_wnd : Nat, rcv_ann_right_edge : Num,
     cwnd : Int, ssthresh : Int, bytes_acked : Int, dupacks : Int,
     nrtx : Int, rtime : BOOLEAN, rto_end : Num,
     persist : BOOLEAN, persist_probe : Int]

App == [opened : BOOLEAN, wr : Nat, rx : Seq(Nat), unread : Int, acked : Int,
        eof : BOOLEAN, fin : BOOLEAN, closed : BOOLEAN, accepted : Int, err : Errors]

Wire == [seqno : Num, data : Data, syn : BOOLEAN, fin : BOOLEAN, rst : BOOLEAN,
         ack : BOOLEAN, ackno : Num, wnd : Nat]

\* What a function of the TCP core works on.
Work == [p : Block, a : App, out : SUBSET Wire, mem : BOOLEAN, asserts : SUBSET Asserts,
         listening : BOOLEAN, iss : Num, fresh : BOOLEAN, recv_data : Seq(Nat),
         recv_flags : SUBSET Events, recv_acked : Int]

\* A control block is replaced, and what is said of the rest.
LEMMA PutBlock ==
    ASSUME NEW w \in Work, NEW b \in Block
    PROVE  /\ [w EXCEPT !.p = b] \in Work
           /\ [w EXCEPT !.p = b].p = b
           /\ [w EXCEPT !.p = b].asserts = w.asserts
           /\ [w EXCEPT !.p = b].recv_flags = w.recv_flags
           /\ [w EXCEPT !.p = b].mem = w.mem
  BY DEF Work

LEMMA WorkBlock == ASSUME NEW w \in Work PROVE w.p \in Block
  BY DEF Work

-----------------------------------------------------------------------------
(* What the functions of the TCP core keep.                                *)

\* The send buffer has room for what is not on the queues.
Exact(b) == b.snd_buf + Bytes(b.unacked) + Bytes(b.unsent) = TCP_SND_BUF

\* Before the SYN is acknowledged it is the first segment of the queues; the bytes written
\* so far follow it, and so many that they are seen to follow.
SynSeg(b, x) == x.seqno = b.lastack /\ x.data = <<>>
DataSeg(b, x) == TCP_SEQ_LT(b.lastack, x.seqno)

Led(b, q) ==
    q # <<>> /\ SynSeg(b, q[1]) /\ \A i \in 2 .. Len(q) : DataSeg(b, q[i])

SynFirst(b) ==
    /\ b.snd_buf >= 0 /\ b.snd_lbb = Plus(b.lastack, 1 + TCP_SND_BUF - b.snd_buf)
    /\ \/ Led(b, b.unacked) /\ \A i \in 1 .. Len(b.unsent) : DataSeg(b, b.unsent[i])
       \/ b.unacked = <<>> /\ Led(b, b.unsent)

Sound(b) ==
    /\ b \in Block
    /\ b.persist => b.unacked = <<>>
    /\ b.unacked # <<>> => b.rtime
    /\ b.state # "TIME_WAIT" => Exact(b)
    /\ b.state = "SYN_SENT" => SynFirst(b)

Fine(w) == w \in Work /\ "persist in-flight" \notin w.asserts

Good(w) == Fine(w) /\ Sound(w.p)

\* c is b but for the fields that the invariant says nothing about.
Same(b, c) ==
    /\ c \in Block
    /\ c.state = b.state /\ c.unsent = b.unsent /\ c.unacked = b.unacked
    /\ c.snd_buf = b.snd_buf /\ c.snd_lbb = b.snd_lbb /\ c.lastack = b.lastack
    /\ c.rtime = b.rtime /\ c.persist = b.persist

Light(w, v) == Fine(v) /\ Same(w.p, v.p)

LEMMA SameSound == ASSUME NEW b, NEW c, Sound(b), Same(b, c) PROVE Sound(c)
<1>1. Exact(b) => Exact(c)
  BY DEF Same, Exact
<1>2. SynFirst(b) => SynFirst(c)
  BY DEF Same, SynFirst, Led, SynSeg, DataSeg
<1> QED
  BY <1>1, <1>2 DEF Sound, Same

LEMMA LightGood == ASSUME NEW w, NEW v, Good(w), Light(w, v) PROVE Good(v)
  BY SameSound DEF Good, Light

LEMMA LightRefl == ASSUME NEW w, Fine(w) PROVE Light(w, w)
  BY WorkBlock DEF Light, Same, Fine

LEMMA LightTrans ==
    ASSUME NEW w, NEW v, NEW u, Light(w, v), Light(v, u) PROVE Light(w, u)
  BY DEF Light, Same

\* Every function that only replaces the control block.
LEMMA PutFine ==
    ASSUME NEW w, Fine(w), NEW b \in Block
    PROVE  Fine([w EXCEPT !.p = b]) /\ [w EXCEPT !.p = b].p = b
  BY PutBlock DEF Fine

LEMMA PutSame ==
    ASSUME NEW w, Fine(w), NEW b, Same(w.p, b) PROVE Light(w, [w EXCEPT !.p = b])
<1>1. b \in Block
  BY DEF Same
<1> QED
  BY <1>1, PutFine DEF Light

-----------------------------------------------------------------------------
(* tcp_out.c: flags and segments on the wire.                              *)

LEMMA FlagsLight ==
    ASSUME NEW w, Fine(w), NEW f \in SUBSET Flags
    PROVE  Light(w, SetFlags(w, f)) /\ Light(w, ClearFlags(w, f))
<1> DEFINE a == [w.p EXCEPT !.flags = @ \cup f]
           b == [w.p EXCEPT !.flags = @ \ f]
<1>1. w \in Work /\ w.p \in Block
  BY WorkBlock DEF Fine
<1>2. Same(w.p, a) /\ Same(w.p, b)
  BY <1>1 DEF Same, Block
<1>3. SetFlags(w, f) = [w EXCEPT !.p = a] /\ ClearFlags(w, f) = [w EXCEPT !.p = b]
  BY DEF SetFlags, ClearFlags
<1> HIDE DEF a, b
<1> QED
  BY <1>2, <1>3, PutSame

LEMMA AckNowLight == ASSUME NEW w, Fine(w) PROVE Light(w, tcp_ack_now(w))
<1>1. {"ACK_NOW"} \in SUBSET Flags
  BY DEF Flags
<1> QED
  BY <1>1, FlagsLight DEF tcp_ack_now

LEMMA AckLight == ASSUME NEW w, Fine(w) PROVE Light(w, tcp_ack(w))
<1>1. {"ACK_DELAY"} \in SUBSET Flags
  BY DEF Flags
<1> DEFINE v == ClearFlags(w, {"ACK_DELAY"})
<1>2. Light(w, v) /\ Light(w, SetFlags(w, {"ACK_DELAY"}))
  BY <1>1, FlagsLight
<1>3. Light(v, tcp_ack_now(v))
  <2> HIDE DEF v
  <2> QED BY <1>2, AckNowLight DEF Light
<1>4. Light(w, tcp_ack_now(v))
  <2> HIDE DEF v
  <2> QED BY <1>2, <1>3, LightTrans
<1> QED
  BY <1>2, <1>4 DEF tcp_ack

LEMMA EmitLight ==
    ASSUME NEW w, Fine(w), NEW s \in Wire PROVE Light(w, Emit(w, s)) /\ Emit(w, s).p = w.p
<1>1. w \in Work /\ w.p \in Block
  BY WorkBlock DEF Fine
<1>2. Emit(w, s) \in Work /\ Emit(w, s).p = w.p /\ Emit(w, s).asserts = w.asserts
  BY <1>1 DEF Emit, Work
<1> QED
  BY <1>1, <1>2 DEF Light, Fine, Same

LEMMA AnnounceLight == ASSUME NEW w, Fine(w) PROVE Light(w, Announce(w))
<1> DEFINE e == Plus(w.p.rcv_nxt, w.p.rcv_ann_wnd)
           b == [w.p EXCEPT !.rcv_ann_right_edge = e]
<1>1. w \in Work /\ w.p \in Block
  BY WorkBlock DEF Fine
<1>2. e \in Num
  <2>1. w.p.rcv_nxt \in Num /\ w.p.rcv_ann_wnd \in Nat
    BY <1>1 DEF Block
  <2>2. w.p.rcv_nxt \in Int /\ w.p.rcv_ann_wnd \in Int
    BY <2>1, NumInt
  <2> QED BY <2>2, PlusType
<1> HIDE DEF e
<1>3. Same(w.p, b)
  BY <1>1, <1>2 DEF Same, Block
<1>4. Announce(w) = [w EXCEPT !.p = b]
  BY DEF Announce, e
<1> HIDE DEF b
<1> QED
  BY <1>3, <1>4, PutSame

LEMMA NoBytes == <<>> \in Data
<1>1. <<>> \in Seq(Nat) /\ Len(<<>>) = 0 /\ TCP_MSS \in Nat
  BY TcpOutAssumption
<1> QED
  BY <1>1 DEF Data

LEMMA HeaderWire ==
    ASSUME NEW b \in Block, NEW n \in Num, NEW d \in Data, NEW f \in BOOLEAN
    PROVE  Header(b, n, d, f) \in Wire
  BY DEF Header, Wire, Block

LEMMA RstLight ==
    ASSUME NEW w, Fine(w), NEW n \in Num, NEW a \in Num PROVE Light(w, tcp_rst(w, n, a))
<1> DEFINE s == [seqno |-> n, data |-> <<>>, syn |-> FALSE, fin |-> FALSE,
                 rst |-> TRUE, ack |-> TRUE, ackno |-> a, wnd |-> TCP_WND]
<1>1. s \in Wire
  BY TcpOutAssumption, NoBytes DEF Wire
<1>2. tcp_rst(w, n, a) = IF w.mem THEN Emit(w, s) ELSE w
  BY Zenon DEF tcp_rst
<1> HIDE DEF s
<1> QED
  BY <1>1, <1>2, EmitLight, LightRefl

LEMMA EmptyAckLight == ASSUME NEW w, Fine(w) PROVE Light(w, tcp_send_empty_ack(w))
<1> DEFINE s == Header(w.p, w.p.snd_nxt, <<>>, FALSE)
           v == Emit(w, s)
           u == Announce(v)
           f == {"ACK_DELAY", "ACK_NOW"}
<1>1. w \in Work /\ w.p \in Block
  BY WorkBlock DEF Fine
<1>2. s \in Wire
  <2>1. w.p.snd_nxt \in Num /\ <<>> \in Data /\ FALSE \in BOOLEAN
    BY <1>1, NoBytes DEF Block
  <2> QED BY <1>1, <2>1, HeaderWire
<1>3. f \in SUBSET Flags
  BY DEF Flags
<1>4. tcp_send_empty_ack(w) = IF w.mem THEN ClearFlags(u, f) ELSE SetFlags(w, f)
  BY Zenon DEF tcp_send_empty_ack
<1> HIDE DEF s, f
<1>5. Light(w, v)
  BY <1>2, EmitLight
<1> HIDE DEF v
<1>6. Light(v, u)
  BY <1>5, AnnounceLight DEF Light
<1> HIDE DEF u
<1>7. Light(u, ClearFlags(u, f)) /\ Light(w, SetFlags(w, f))
  BY <1>3, <1>6, FlagsLight DEF Light
<1>8. Light(w, ClearFlags(u, f))
  BY <1>5, <1>6, <1>7, LightTrans
<1> QED
  BY <1>4, <1>7, <1>8

\* A segment of a queue, and what it is on the wire.
LEMMA SegFacts ==
    ASSUME NEW x \in Seg
    PROVE  /\ x.seqno \in Num /\ x.data \in Seq(Nat) /\ Len(x.data) \in Nat
           /\ Len(x.data) <= TCP_MSS /\ x.syn \in BOOLEAN /\ x.fin \in BOOLEAN
           /\ TCP_TCPLEN(x) \in Nat /\ SegEnd(x) \in Num
<1>1. /\ x.seqno \in Num /\ x.data \in Seq(Nat) /\ x.syn \in BOOLEAN /\ x.fin \in BOOLEAN
      /\ Len(x.data) \in Nat /\ Len(x.data) <= TCP_MSS
  BY DEF Seg, Data
<1>2. TCP_TCPLEN(x) \in Nat
  BY <1>1, TcplenType
<1>3. SegEnd(x) \in Num
  <2>1. x.seqno \in Int /\ TCP_TCPLEN(x) \in Int
    BY <1>1, <1>2, NumInt
  <2> QED BY <2>1, PlusType DEF SegEnd
<1> QED
  BY <1>1, <1>2, <1>3

LEMMA OnWireType == ASSUME NEW b \in Block, NEW x \in Seg PROVE OnWire(b, x) \in Wire
  BY DEF OnWire, Wire, Block, Seg

\* What is inserted into unacked keeps its bytes, and the SYN before the data.
LEMMA InsertedBytes ==
    ASSUME NEW u \in Seq(Seg), NEW q \in Seq(Seg)
    PROVE  /\ FoldLeft(InsertSeg, u, q) \in Seq(Seg)
           /\ Bytes(FoldLeft(InsertSeg, u, q)) = Bytes(u) + Bytes(q)
<1>1. PICK g : IsInserted(g, u, q) /\ FoldLeft(InsertSeg, u, q) = g[Len(q)]
  BY InsertedOneByOne, Zenon
<1> DEFINE r == FoldLeft(InsertSeg, u, q)
<1>2. r = g[Len(q)]
  BY <1>1
<1> HIDE DEF r
<1>3. PICK f : IsSum(f, q) /\ Bytes(q) = f[Len(q)]
  BY BytesSum
<1> DEFINE N == {k \in Nat : k <= Len(q) => Bytes(g[k]) = Bytes(u) + f[k]}
<1>4. Len(q) \in Nat /\ Bytes(u) \in Nat
  BY BytesNat
<1>5. 0 \in N
  BY <1>1, <1>3, <1>4 DEF IsInserted, IsSum
<1>6. ASSUME NEW k \in Nat, k \in N PROVE k + 1 \in N
  <2> SUFFICES ASSUME k + 1 <= Len(q) PROVE Bytes(g[k + 1]) = Bytes(u) + f[k + 1]
    OBVIOUS
  <2>1. k + 1 \in 1 .. Len(q) /\ (k + 1) - 1 = k /\ k \in 0 .. Len(q)
    BY <1>4
  <2>2. q[k + 1] \in Seg /\ g[k] \in Seq(Seg) /\ g[k + 1] = InsertSeg(g[k], q[k + 1])
    BY <1>1, <2>1 DEF IsInserted
  <2>3. Bytes(g[k + 1]) = Bytes(g[k]) + Len(q[k + 1].data) /\ Len(q[k + 1].data) \in Nat
    BY <2>2, InsertBytes, SegFacts
  <2>4. f[k + 1] = f[k] + Len(q[k + 1].data) /\ f[k] \in Nat
    BY <1>3, <2>1 DEF IsSum
  <2> QED BY <1>4, <1>6, <2>1, <2>3, <2>4
<1>7. Len(q) \in N
  <2> HIDE DEF N
  <2> QED BY <1>4, <1>5, <1>6, NatSet
<1>8. Bytes(g[Len(q)]) = Bytes(u) + Bytes(q) /\ g[Len(q)] \in Seq(Seg)
  BY <1>1, <1>3, <1>4, <1>7 DEF IsInserted
<1> QED
  BY <1>2, <1>8 DEF r

LEMMA InsertLed ==
    ASSUME NEW b \in Block, NEW q \in Seq(Seg), NEW x \in Seg, Led(b, q), DataSeg(b, x)
    PROVE  Led(b, InsertSeg(q, x))
<1>1. TCP_SEQ_LT(q[1].seqno, x.seqno) /\ q # <<>>
  BY DEF Led, SynSeg, DataSeg
<1>2. PICK k \in 0 .. Len(q) : IsAt(q, x, k) /\ k >= 1
  BY <1>1, InsertPlace, Zenon
<1> DEFINE c == SubSeq(q, 1, k)
           d == Skip(q, k)
           o == <<x>>
           r == (c \o o) \o d
<1>3. Len(q) \in Nat /\ k \in Nat /\ k <= Len(q)
  BY <1>2
<1>4. /\ c \in Seq(Seg) /\ Len(c) = k /\ \A i \in 1 .. k : c[i] = q[i]
      /\ d \in Seq(Seg) /\ Len(d) = Len(q) - k
      /\ \A i \in 1 .. Len(q) - k : d[i] = q[k + i]
  BY Parts
<1>5. o \in Seq(Seg) /\ Len(o) = 1 /\ o[1] = x
  OBVIOUS
<1>6. InsertSeg(q, x) = r
  BY <1>2 DEF IsAt
<1> HIDE DEF c, d, o
<1>7. /\ c \o o \in Seq(Seg) /\ Len(c \o o) = k + 1
      /\ \A i \in 1 .. k : (c \o o)[i] = q[i]
      /\ (c \o o)[k + 1] = x
  <2>1. /\ c \o o \in Seq(Seg) /\ Len(c \o o) = Len(c) + Len(o)
        /\ \A i \in 1 .. Len(c) : (c \o o)[i] = c[i]
        /\ \A i \in 1 .. Len(o) : (c \o o)[Len(c) + i] = o[i]
    <3>1. c \in Seq(Seg) /\ o \in Seq(Seg)
      BY <1>4, <1>5
    <3> QED BY ONLY <3>1, Joined
  <2>2. 1 \in 1 .. Len(o)
    BY <1>5
  <2> QED BY <1>3, <1>4, <1>5, <2>1, <2>2
<1>8. /\ r \in Seq(Seg) /\ Len(r) = Len(q) + 1
      /\ \A i \in 1 .. k : r[i] = q[i]
      /\ r[k + 1] = x
      /\ \A i \in k + 2 .. Len(q) + 1 : r[i] = q[i - 1]
  <2>1. /\ r \in Seq(Seg) /\ Len(r) = Len(c \o o) + Len(d)
        /\ \A i \in 1 .. Len(c \o o) : r[i] = (c \o o)[i]
        /\ \A i \in 1 .. Len(d) : r[Len(c \o o) + i] = d[i]
    <3>1. c \o o \in Seq(Seg) /\ d \in Seq(Seg)
      BY <1>4, <1>7
    <3> QED BY ONLY <3>1, Joined
  <2> HIDE DEF r
  <2>2. ASSUME NEW i \in k + 2 .. Len(q) + 1 PROVE r[i] = q[i - 1]
    <3> DEFINE j == i - (k + 1)
    <3>1. j \in 1 .. Len(q) - k /\ (k + 1) + j = i /\ k + j = i - 1
      BY <1>3
    <3> HIDE DEF j
    <3>2. r[(k + 1) + j] = d[j] /\ d[j] = q[k + j]
      BY <1>4, <1>7, <2>1, <3>1
    <3> QED BY <3>1, <3>2
  <2>3. k + 1 \in 1 .. k + 1 /\ \A i \in 1 .. k : i \in 1 .. k + 1
    BY <1>3
  <2>4. Len(r) = Len(q) + 1
    BY <1>3, <1>4, <1>7, <2>1
  <2> QED BY <1>7, <2>1, <2>2, <2>3, <2>4
<1> HIDE DEF r
<1>9. r # <<>> /\ r[1] = q[1]
  BY <1>2, <1>3, <1>8
<1>10. ASSUME NEW i \in 2 .. Len(r) PROVE DataSeg(b, r[i])
  <2>1. i \in 2 .. Len(q) + 1
    BY <1>8
  <2>2. CASE i <= k
    <3>1. r[i] = q[i] /\ i \in 2 .. Len(q)
      BY <1>3, <1>8, <2>1, <2>2
    <3> QED BY <3>1 DEF Led
  <2>3. CASE i = k + 1
    <3>1. r[i] = x
      BY <1>8, <2>3
    <3> QED BY <3>1
  <2>4. CASE i > k + 1
    <3>1. i \in k + 2 .. Len(q) + 1 /\ i - 1 \in 2 .. Len(q)
      BY <1>2, <1>3, <2>1, <2>4
    <3>2. r[i] = q[i - 1]
      BY <1>8, <3>1
    <3> QED BY <3>1, <3>2 DEF Led
  <2> QED BY <1>3, <2>1, <2>2, <2>3, <2>4
<1> QED
  BY <1>6, <1>9, <1>10 DEF Led

LEMMA InsertedLed ==
    ASSUME NEW b \in Block, NEW u \in Seq(Seg), NEW q \in Seq(Seg),
           \/ Led(b, u) /\ \A i \in 1 .. Len(q) : DataSeg(b, q[i])
           \/ u = <<>> /\ Led(b, q)
    PROVE  Led(b, FoldLeft(InsertSeg, u, q))
<1>1. PICK g : IsInserted(g, u, q) /\ FoldLeft(InsertSeg, u, q) = g[Len(q)]
  BY InsertedOneByOne, Zenon
<1> DEFINE r == FoldLeft(InsertSeg, u, q)
<1>2. r = g[Len(q)]
  BY <1>1
<1> HIDE DEF r
<1>3. Len(q) \in Nat
  OBVIOUS
<1>4. ASSUME NEW m \in 0 .. Len(q), Led(b, g[m]),
             \A i \in m + 1 .. Len(q) : DataSeg(b, q[i])
      PROVE  Led(b, g[Len(q)])
  <2> DEFINE N == {k \in Nat : m + k <= Len(q) => Led(b, g[m + k])}
  <2>1. 0 \in N
    <3>1. m + 0 = m
      OBVIOUS
    <3> QED BY <1>4, <3>1
  <2>2. ASSUME NEW k \in Nat, k \in N PROVE k + 1 \in N
    <3> SUFFICES ASSUME m + (k + 1) <= Len(q) PROVE Led(b, g[m + (k + 1)])
      OBVIOUS
    <3> DEFINE j == m + (k + 1)
    <3>1. j \in 1 .. Len(q) /\ j \in m + 1 .. Len(q) /\ j - 1 = m + k /\ m + k <= Len(q)
          /\ m + k \in 0 .. Len(q)
      BY <1>3
    <3> HIDE DEF j
    <3>2. g[j] = InsertSeg(g[m + k], q[j]) /\ g[m + k] \in Seq(Seg) /\ q[j] \in Seg
      BY <1>1, <3>1 DEF IsInserted
    <3>3. Led(b, g[m + k]) /\ DataSeg(b, q[j])
      BY <1>4, <2>2, <3>1
    <3>4. Led(b, g[j])
      BY <3>2, <3>3, InsertLed
    <3> QED BY <3>4 DEF j
  <2>3. Len(q) - m \in N
    <3>1. Len(q) - m \in Nat
      BY <1>3
    <3> HIDE DEF N
    <3> QED BY <2>1, <2>2, <3>1, NatSet
  <2>4. m + (Len(q) - m) = Len(q)
    BY <1>3
  <2> QED BY <1>3, <2>3, <2>4
<1>5. CASE Led(b, u) /\ \A i \in 1 .. Len(q) : DataSeg(b, q[i])
  <2>1. g[0] = u /\ 0 \in 0 .. Len(q) /\ 0 + 1 = 1
    BY <1>1, <1>3 DEF IsInserted
  <2>2. Led(b, g[0]) /\ \A i \in 0 + 1 .. Len(q) : DataSeg(b, q[i])
    BY <1>5, <2>1
  <2> QED BY <1>2, <1>4, <2>1, <2>2 DEF r
<1>6. CASE u = <<>> /\ Led(b, q)
  <2>1. 1 \in 1 .. Len(q) /\ 1 \in 0 .. Len(q) /\ 1 - 1 = 0 /\ q[1] \in Seg
    BY <1>3, <1>6 DEF Led
  <2>2. g[1] = InsertSeg(<<>>, q[1])
    BY <1>1, <1>6, <2>1 DEF IsInserted
  <2>3. InsertSeg(<<>>, q[1]) = <<q[1]>>
    <3>1. <<>> \in Seq(Seg) /\ Len(<<>>) = 0
      OBVIOUS
    <3>2. PICK k \in 0 .. Len(<<>>) : IsAt(<<>>, q[1], k)
      BY <2>1, <3>1, InsertPlace, Zenon
    <3>3. SubSeq(<<>>, 1, k) = <<>> /\ Skip(<<>>, k) = <<>>
      BY <3>1, <3>2 DEF Skip
    <3>4. <<>> \o <<q[1]>> \o <<>> = <<q[1]>>
      OBVIOUS
    <3> QED BY <3>2, <3>3, <3>4 DEF IsAt
  <2>4. Led(b, g[1])
    BY <1>6, <2>2, <2>3 DEF Led
  <2>5. \A i \in 1 + 1 .. Len(q) : DataSeg(b, q[i])
    BY <1>6 DEF Led
  <2> QED BY <1>2, <1>4, <2>1, <2>4, <2>5 DEF r
<1> QED
  BY <1>5, <1>6

\* The queues are Led or not whatever the other fields are.
LEMMA LedSame ==
    ASSUME NEW b, NEW c, c.lastack = b.lastack, NEW q
    PROVE  (Led(b, q) <=> Led(c, q)) /\ \A x : DataSeg(b, x) <=> DataSeg(c, x)
  BY DEF Led, SynSeg, DataSeg

\* Parts of a queue.
LEMMA PartsBytes ==
    ASSUME NEW q \in Seq(Seg), NEW k \in 0 .. Len(q)
    PROVE  /\ SubSeq(q, 1, k) \in Seq(Seg) /\ Skip(q, k) \in Seq(Seg)
           /\ Bytes(SubSeq(q, 1, k)) + Bytes(Skip(q, k)) = Bytes(q)
           /\ Bytes(SubSeq(q, 1, k)) \in Nat /\ Bytes(Skip(q, k)) \in Nat
<1> DEFINE a == SubSeq(q, 1, k)
           c == Skip(q, k)
<1>1. a \in Seq(Seg) /\ c \in Seq(Seg) /\ a \o c = q
  BY Parts
<1> HIDE DEF a, c
<1>2. Bytes(a \o c) = Bytes(a) + Bytes(c)
  BY ONLY <1>1, BytesConcat
<1>3. Bytes(a) \in Nat /\ Bytes(c) \in Nat
  BY <1>1, BytesNat
<1> QED
  BY <1>1, <1>2, <1>3 DEF a, c

LEMMA SendUnsentSound ==
    ASSUME NEW w, Fine(w)
    PROVE  /\ Fine(SendUnsent(w))
           /\ Sound(w.p) /\ ~w.p.persist => Sound(SendUnsent(w).p)
<1> DEFINE p == w.p
           S == {n \in 0 .. Len(p.unsent) :
                   \A i \in 1 .. n : Fits(p, p.unsent[i]) /\ Nagle(p, i)}
           k == Max(S)
           sent == SubSeq(p.unsent, 1, k)
           rest == Skip(p.unsent, k)
           una == FoldLeft(InsertSeg, p.unacked, sent)
           next == NextSeq(p, sent[k])
           fl == IF p.state = "SYN_SENT" THEN p.flags ELSE p.flags \ {"ACK_DELAY", "ACK_NOW"}
           o == w.out \cup {OnWire(p, sent[i]) : i \in 1 .. k}
           v == Announce(w)
           r == [v EXCEPT !.out = o, !.p.unsent = rest, !.p.unacked = una,
                          !.p.snd_nxt = next, !.p.rtime = TRUE, !.p.flags = fl]
           b == [v.p EXCEPT !.unsent = rest, !.unacked = una, !.snd_nxt = next,
                            !.rtime = TRUE, !.flags = fl]
<1>1. w \in Work /\ p \in Block
  BY WorkBlock DEF Fine
<1>2. Fine(v) /\ Same(p, v.p) /\ v \in Work /\ v.p \in Block
  BY AnnounceLight, WorkBlock DEF Light, Fine
<1>3. /\ p.unsent \in Seq(Seg) /\ Len(p.unsent) \in Nat /\ p.unacked \in Seq(Seg)
      /\ p.flags \in SUBSET Flags /\ p.snd_nxt \in Num
  BY <1>1 DEF Block
<1>4. SendUnsent(w) = IF k = 0 THEN w ELSE r
  BY Zenon DEF SendUnsent
<1>5. k \in 0 .. Len(p.unsent)
  <2>1. 0 \in S /\ S \subseteq 0 .. Len(p.unsent)
    BY <1>3
  <2> HIDE DEF S, p
  <2> QED BY <1>3, <2>1, RunIn
<1> HIDE DEF S, k, p
<1>6. CASE k = 0
  BY <1>4, <1>6 DEF p
<1>7. CASE k # 0
  <2>1. /\ sent \in Seq(Seg) /\ rest \in Seq(Seg) /\ Len(sent) = k
        /\ \A i \in 1 .. k : sent[i] = p.unsent[i]
        /\ Len(rest) = Len(p.unsent) - k
        /\ \A i \in 1 .. Len(p.unsent) - k : rest[i] = p.unsent[k + i]
    BY <1>3, <1>5, Parts
  <2>2. /\ Bytes(sent) + Bytes(rest) = Bytes(p.unsent)
        /\ Bytes(sent) \in Nat /\ Bytes(rest) \in Nat
    BY <1>3, <1>5, PartsBytes
  <2>3. \A i \in 1 .. k : sent[i] \in Seg
    BY <2>1
  <2> HIDE DEF sent, rest
  <2>4. una \in Seq(Seg) /\ Bytes(una) = Bytes(p.unacked) + Bytes(sent)
    BY <1>3, <2>1, InsertedBytes
  <2>5. next \in Num
    <3>1. k \in 1 .. k
      BY <1>5, <1>7
    <3> QED BY <1>3, <2>3, <3>1, SegFacts DEF NextSeq
  <2>6. fl \in SUBSET Flags
    BY <1>3
  <2>7. o \in SUBSET Wire
    <3>1. w.out \in SUBSET Wire
      BY <1>1 DEF Work
    <3> QED BY <1>1, <2>3, <3>1, OnWireType
  <2> HIDE DEF una, next, fl, o, v
  <2>8. /\ b \in Block /\ b.state = v.p.state /\ b.unsent = rest /\ b.unacked = una
        /\ b.snd_buf = v.p.snd_buf /\ b.snd_lbb = v.p.snd_lbb /\ b.lastack = v.p.lastack
        /\ b.rtime = TRUE /\ b.persist = v.p.persist
    BY <1>2, <2>1, <2>4, <2>5, <2>6 DEF Block
  <2>9. r = [[v EXCEPT !.p = b] EXCEPT !.out = o]
    BY <1>2 DEF Work
  <2> HIDE DEF b
  <2>10. r \in Work /\ r.p = b /\ r.asserts = v.asserts
    BY <1>2, <2>7, <2>8, <2>9 DEF Work
  <2>11. Fine(r)
    BY <1>2, <2>10 DEF Fine
  <2>12. ASSUME Sound(p), ~p.persist PROVE Sound(b)
    <3>1. p.state # "TIME_WAIT" => Exact(b)
      <4>1. p.state # "TIME_WAIT" => p.snd_buf + Bytes(p.unacked) + Bytes(p.unsent) = TCP_SND_BUF
        BY <2>12 DEF Sound, Exact
      <4>2. Bytes(p.unacked) \in Nat /\ p.snd_buf \in Int
        BY <1>1, <1>3, BytesNat DEF Block
      <4> QED BY <1>2, <2>2, <2>4, <2>8, <4>1, <4>2 DEF Exact, Same
    <3>2. ASSUME p.state = "SYN_SENT" PROVE SynFirst(b)
      <4>1. SynFirst(p)
        BY <2>12, <3>2 DEF Sound
      <4>2. b.lastack = p.lastack
        BY <1>2, <2>8 DEF Same
      <4>3. Led(p, una) /\ \A i \in 1 .. Len(rest) : DataSeg(p, rest[i])
        <5>1. CASE Led(p, p.unacked) /\ \A i \in 1 .. Len(p.unsent) : DataSeg(p, p.unsent[i])
          <6>1. \A i \in 1 .. Len(sent) : DataSeg(p, sent[i])
            BY <1>3, <1>5, <2>1, <5>1
          <6>2. \A i \in 1 .. Len(rest) : DataSeg(p, rest[i])
            BY <1>3, <1>5, <2>1, <5>1
          <6>3. Led(p, FoldLeft(InsertSeg, p.unacked, sent))
            BY <1>1, <1>3, <2>1, <5>1, <6>1, InsertedLed
          <6> QED BY <6>2, <6>3 DEF una
        <5>2. CASE p.unacked = <<>> /\ Led(p, p.unsent)
          <6>1. Led(p, sent)
            <7>1. sent # <<>> /\ 1 \in 1 .. k /\ sent[1] = p.unsent[1]
              BY <1>3, <1>5, <1>7, <2>1
            <7>2. \A i \in 2 .. Len(sent) : sent[i] = p.unsent[i] /\ i \in 2 .. Len(p.unsent)
              BY <1>3, <1>5, <1>7, <2>1
            <7> QED BY <5>2, <7>1, <7>2 DEF Led
          <6>2. \A i \in 1 .. Len(rest) : DataSeg(p, rest[i])
            BY <1>3, <1>5, <1>7, <2>1, <5>2 DEF Led
          <6>3. Led(p, FoldLeft(InsertSeg, p.unacked, sent))
            BY <1>1, <1>3, <2>1, <5>2, <6>1, InsertedLed
          <6> QED BY <6>2, <6>3 DEF una
        <5> QED BY <4>1, <5>1, <5>2 DEF SynFirst
      <4>4. Led(b, una) /\ \A i \in 1 .. Len(rest) : DataSeg(b, rest[i])
        BY <4>2, <4>3, LedSame
      <4> QED BY <1>2, <2>8, <4>1, <4>4 DEF SynFirst, Same
    <3>3. ~b.persist
      BY <1>2, <2>8, <2>12 DEF Same
    <3> QED BY <1>2, <2>8, <3>1, <3>2, <3>3 DEF Sound, Same
  <2> HIDE DEF r
  <2> QED BY <1>4, <1>7, <2>10, <2>11, <2>12 DEF p
<1> QED
  BY <1>6, <1>7

LEMMA OutputSound ==
    ASSUME NEW w, Fine(w)
    PROVE  Fine(tcp_output(w)) /\ (Good(w) => Good(tcp_output(w)))
<1> DEFINE p == w.p
           stuck == p.unsent # <<>> /\ ~Fits(p, p.unsent[1])
           d == [p EXCEPT !.persist = TRUE]
           b == [d EXCEPT !.persist_probe = 0]
           c == [p EXCEPT !.persist = FALSE]
           wb == [w EXCEPT !.p.persist = TRUE, !.p.persist_probe = 0]
           w1 == IF stuck /\ StartPersist(p) THEN wb ELSE w
           w2 == [w EXCEPT !.p.persist = FALSE]
           w3 == SendUnsent(w2)
           f == {"NAGLEMEMERR"}
<1>1. w \in Work /\ p \in Block
  BY WorkBlock DEF Fine
<1>2. f \in SUBSET Flags
  BY DEF Flags
<1>3. tcp_output(w) = IF p.unsent = <<>> \/ stuck
                      THEN IF "ACK_NOW" \in p.flags THEN tcp_send_empty_ack(w1)
                           ELSE ClearFlags(w1, f)
                      ELSE ClearFlags(w3, f)
  BY Zenon DEF tcp_output
<1> HIDE DEF stuck
<1>12. wb = [w EXCEPT !.p = b] /\ w2 = [w EXCEPT !.p = c]
  BY <1>1 DEF Work
<1> HIDE DEF p
<1>4. /\ b \in Block /\ b.state = p.state /\ b.unsent = p.unsent /\ b.unacked = p.unacked
      /\ b.snd_buf = p.snd_buf /\ b.snd_lbb = p.snd_lbb /\ b.lastack = p.lastack
      /\ b.rtime = p.rtime
  <2>1. /\ d \in Block /\ d.state = p.state /\ d.unsent = p.unsent /\ d.unacked = p.unacked
        /\ d.snd_buf = p.snd_buf /\ d.snd_lbb = p.snd_lbb /\ d.lastack = p.lastack
        /\ d.rtime = p.rtime
    BY <1>1 DEF Block
  <2> HIDE DEF d
  <2>2. 0 \in Int
    OBVIOUS
  <2> QED BY <2>1, <2>2 DEF Block
<1>5. /\ c \in Block /\ c.state = p.state /\ c.unsent = p.unsent /\ c.unacked = p.unacked
      /\ c.snd_buf = p.snd_buf /\ c.snd_lbb = p.snd_lbb /\ c.lastack = p.lastack
      /\ c.rtime = p.rtime /\ ~c.persist
  BY <1>1 DEF Block
<1> USE DEF p
<1>6. StartPersist(p) => p.unacked = <<>>
  BY DEF StartPersist
<1> HIDE DEF p, b, c, f, wb, w2
<1>7. ASSUME NEW e \in Block, e.state = p.state, e.unsent = p.unsent, e.unacked = p.unacked,
             e.snd_buf = p.snd_buf, e.snd_lbb = p.snd_lbb, e.lastack = p.lastack,
             e.rtime = p.rtime, e.persist => e.unacked = <<>>, Sound(p)
      PROVE  Sound(e)
  <2>1. Exact(p) => Exact(e)
    BY <1>7 DEF Exact
  <2>2. SynFirst(p) => SynFirst(e)
    BY <1>7, LedSame DEF SynFirst
  <2> QED BY <1>7, <2>1, <2>2 DEF Sound
<1>8. Fine(w1) /\ (Good(w) => Good(w1))
  <2>1. CASE stuck /\ StartPersist(p)
    <3>1. Fine(wb) /\ wb.p = b
      BY <1>4, <1>12, PutFine
    <3>2. b.unacked = <<>>
      BY <1>4, <1>6, <2>1
    <3>3. Sound(p) => Sound(b)
      BY <1>4, <1>7, <3>2
    <3> QED BY <2>1, <3>1, <3>3 DEF Good, p
  <2>2. CASE ~(stuck /\ StartPersist(p))
    BY <2>2
  <2> QED BY <2>1, <2>2
<1>9. Fine(w3) /\ (Good(w) => Good(w3))
  <2>1. Fine(w2) /\ w2.p = c
    BY <1>5, <1>12, PutFine
  <2>2. Sound(p) => Sound(c)
    BY <1>5, <1>7
  <2> QED BY <1>5, <2>1, <2>2, SendUnsentSound DEF Good, p
<1> HIDE DEF w1, w3
<1>10. Light(w1, tcp_send_empty_ack(w1)) /\ Light(w1, ClearFlags(w1, f))
       /\ Light(w3, ClearFlags(w3, f))
  BY <1>2, <1>8, <1>9, EmptyAckLight, FlagsLight
<1>11. /\ Fine(tcp_send_empty_ack(w1)) /\ Fine(ClearFlags(w1, f)) /\ Fine(ClearFlags(w3, f))
       /\ Good(w) => /\ Good(tcp_send_empty_ack(w1)) /\ Good(ClearFlags(w1, f))
                     /\ Good(ClearFlags(w3, f))
  BY <1>8, <1>9, <1>10, LightGood DEF Light
<1> QED
  BY <1>3, <1>11

-----------------------------------------------------------------------------
(* tcp_out.c: queueing.                                                    *)

\* A queue with one segment more, and one whose last segment is another.
LEMMA AppendBytes ==
    ASSUME NEW q \in Seq(Seg), NEW x \in Seg
    PROVE  /\ Append(q, x) \in Seq(Seg) /\ Append(q, x) # <<>>
           /\ Bytes(Append(q, x)) = Bytes(q) + Len(x.data)
<1> DEFINE o == <<x>>
<1>1. Append(q, x) = q \o o /\ Append(q, x) # <<>>
  OBVIOUS
<1>2. o \in Seq(Seg) /\ Bytes(o) = Len(x.data)
  BY BytesOne
<1> HIDE DEF o
<1>3. q \o o \in Seq(Seg) /\ Bytes(q \o o) = Bytes(q) + Bytes(o)
  BY ONLY <1>2, q \in Seq(Seg), BytesConcat
<1> QED
  BY <1>1, <1>2, <1>3

LEMMA LastBytes ==
    ASSUME NEW q \in Seq(Seg), NEW r \in Seq(Seg), q # <<>>, Len(r) = Len(q),
           \A i \in 1 .. Len(q) - 1 : r[i] = q[i]
    PROVE  /\ q[Len(q)] \in Seg /\ r[Len(q)] \in Seg /\ r # <<>>
           /\ Bytes(r) = (Bytes(q) - Len(q[Len(q)].data)) + Len(r[Len(q)].data)
<1> DEFINE n == Len(q)
<1>1. n \in Nat /\ n >= 1 /\ n \in 1 .. n /\ n - 1 \in 0 .. n /\ n \in 0 .. n
  OBVIOUS
<1>2. q[n] \in Seg /\ r[n] \in Seg
  BY <1>1
<1>3. Len(q[n].data) \in Nat /\ Len(r[n].data) \in Nat
  BY <1>2, SegFacts
<1>4. PICK f : IsSum(f, q) /\ Bytes(q) = f[n]
  BY BytesSum
<1>5. PICK h : IsSum(h, r) /\ Bytes(r) = h[n]
  BY BytesSum
<1> DEFINE N == {k \in Nat : k <= n - 1 => h[k] = f[k]}
<1>6. 0 \in N
  BY <1>4, <1>5 DEF IsSum
<1>7. ASSUME NEW k \in Nat, k \in N PROVE k + 1 \in N
  <2> SUFFICES ASSUME k + 1 <= n - 1 PROVE h[k + 1] = f[k + 1]
    OBVIOUS
  <2>1. k + 1 \in 1 .. n /\ k + 1 \in 1 .. n - 1 /\ (k + 1) - 1 = k /\ k <= n - 1
    BY <1>1
  <2>2. f[k + 1] = f[(k + 1) - 1] + Len(q[k + 1].data)
    BY <1>4, <2>1 DEF IsSum
  <2>3. h[k + 1] = h[(k + 1) - 1] + Len(r[k + 1].data)
    BY <1>5, <2>1 DEF IsSum
  <2> QED BY <1>7, <2>1, <2>2, <2>3
<1>8. n - 1 \in N
  <2>1. n - 1 \in Nat
    BY <1>1
  <2> HIDE DEF N
  <2> QED BY <1>6, <1>7, <2>1, NatSet
<1>9. /\ f[n] = f[n - 1] + Len(q[n].data) /\ h[n] = h[n - 1] + Len(r[n].data)
      /\ f[n - 1] \in Nat /\ h[n - 1] \in Nat
  BY <1>1, <1>4, <1>5 DEF IsSum
<1>10. r # <<>>
  BY <1>1
<1> HIDE DEF n, N
<1>11. h[n - 1] = f[n - 1]
  BY <1>1, <1>8 DEF N
<1>12. Bytes(r) = (Bytes(q) - Len(q[n].data)) + Len(r[n].data)
  BY <1>3, <1>4, <1>5, <1>9, <1>11
<1> QED
  BY <1>2, <1>10, <1>12 DEF n

\* What tcp_enqueue_flags leaves.
LEMMA EnqueueFields ==
    ASSUME NEW w, Fine(w), NEW syn \in BOOLEAN, NEW fin \in BOOLEAN
    PROVE  LET v == tcp_enqueue_flags(w, syn, fin)
               x == [seqno |-> w.p.snd_lbb, data |-> <<>>, syn |-> syn, fin |-> fin]
           IN  /\ Fine(v) /\ x \in Seg /\ v.p.unsent = Append(w.p.unsent, x)
               /\ v.p.snd_lbb = Plus(w.p.snd_lbb, 1)
               /\ v.p.state = w.p.state /\ v.p.unacked = w.p.unacked
               /\ v.p.snd_buf = w.p.snd_buf /\ v.p.lastack = w.p.lastack
               /\ v.p.rtime = w.p.rtime /\ v.p.persist = w.p.persist
<1> DEFINE v == tcp_enqueue_flags(w, syn, fin)
           p == w.p
           x == [seqno |-> p.snd_lbb, data |-> <<>>, syn |-> syn, fin |-> fin]
           q == Append(p.unsent, x)
           n == Plus(p.snd_lbb, 1)
           fl == IF fin THEN p.flags \cup {"FIN"} ELSE p.flags
           b == [p EXCEPT !.unsent = q, !.snd_lbb = n, !.flags = fl]
<1>1. w \in Work /\ p \in Block
  BY WorkBlock DEF Fine
<1>2. p.snd_lbb \in Num /\ p.unsent \in Seq(Seg) /\ p.flags \in SUBSET Flags
  BY <1>1 DEF Block
<1>3. x \in Seg
  BY <1>2, NoBytes DEF Seg
<1>4. v = [w EXCEPT !.p = b]
  <2>1. v = [w EXCEPT !.p.unsent = q, !.p.snd_lbb = n, !.p.flags = fl]
    BY Zenon DEF tcp_enqueue_flags
  <2> HIDE DEF q, n, fl, v
  <2> QED BY <1>1, <2>1 DEF Work
<1>5. n \in Num
  BY <1>2, NumPlus
<1>6. fl \in SUBSET Flags
  BY <1>2 DEF Flags
<1> HIDE DEF x
<1>7. q \in Seq(Seg)
  BY <1>2, <1>3, AppendBytes
<1> HIDE DEF q, n, fl, p
<1>8. /\ b \in Block /\ b.unsent = q /\ b.snd_lbb = n /\ b.state = p.state
      /\ b.unacked = p.unacked /\ b.snd_buf = p.snd_buf /\ b.lastack = p.lastack
      /\ b.rtime = p.rtime /\ b.persist = p.persist
  BY <1>1, <1>5, <1>6, <1>7 DEF Block
<1> HIDE DEF b, v
<1>9. Fine(v) /\ v.p = b
  BY <1>4, <1>8, PutFine
<1> QED
  BY <1>3, <1>8, <1>9 DEF v, q, n, x, p

\* A connection past SYN_SENT and before TIME_WAIT, and what is then left of Sound.
Live(w) == Good(w) /\ w.p.state \notin {"SYN_SENT", "TIME_WAIT"}

LEMMA LiveFacts ==
    ASSUME NEW w
    PROVE  Live(w) <=> /\ Fine(w) /\ w.p \in Block
                       /\ w.p.persist => w.p.unacked = <<>>
                       /\ w.p.unacked # <<>> => w.p.rtime
                       /\ Exact(w.p)
                       /\ w.p.state \notin {"SYN_SENT", "TIME_WAIT"}
<1>1. Fine(w) => w.p \in Block
  BY WorkBlock DEF Fine
<1> QED
  BY <1>1 DEF Live, Good, Sound

LEMMA LightLive == ASSUME NEW w, NEW v, Live(w), Light(w, v) PROVE Live(v)
<1>1. Good(v)
  BY LightGood DEF Live
<1>2. v.p.state = w.p.state
  BY DEF Light, Same
<1> QED
  BY <1>1, <1>2 DEF Live

\* A change of state.
LEMMA StateGood ==
    ASSUME NEW w, Live(w), NEW st \in States, st # "SYN_SENT"
    PROVE  /\ Good([w EXCEPT !.p.state = st])
           /\ st # "TIME_WAIT" => Live([w EXCEPT !.p.state = st])
<1> DEFINE p == w.p
           b == [p EXCEPT !.state = st]
           v == [w EXCEPT !.p.state = st]
<1>1. /\ Fine(w) /\ w \in Work /\ p \in Block
      /\ p.persist => p.unacked = <<>>
      /\ p.unacked # <<>> => p.rtime
      /\ Exact(p)
  BY LiveFacts DEF Fine
<1>2. v = [w EXCEPT !.p = b]
  OBVIOUS
<1> HIDE DEF p
<1>3. /\ b \in Block /\ b.state = st /\ b.unsent = p.unsent /\ b.unacked = p.unacked
      /\ b.snd_buf = p.snd_buf /\ b.rtime = p.rtime /\ b.persist = p.persist
  BY <1>1 DEF Block
<1> HIDE DEF b, v
<1>4. Fine(v) /\ v.p = b
  BY <1>1, <1>2, <1>3, PutFine
<1>5. Exact(b)
  BY <1>1, <1>3 DEF Exact
<1>6. Good(v)
  BY <1>1, <1>3, <1>4, <1>5 DEF Good, Sound
<1> QED
  BY <1>3, <1>4, <1>6 DEF Live, v

LEMMA EnqueueLive ==
    ASSUME NEW w, Live(w), NEW syn \in BOOLEAN, NEW fin \in BOOLEAN
    PROVE  Live(tcp_enqueue_flags(w, syn, fin))
           /\ tcp_enqueue_flags(w, syn, fin).p.state = w.p.state
<1> DEFINE v == tcp_enqueue_flags(w, syn, fin)
           x == [seqno |-> w.p.snd_lbb, data |-> <<>>, syn |-> syn, fin |-> fin]
<1>1. /\ Fine(w) /\ w.p \in Block
      /\ w.p.persist => w.p.unacked = <<>>
      /\ w.p.unacked # <<>> => w.p.rtime
      /\ Exact(w.p) /\ w.p.state \notin {"SYN_SENT", "TIME_WAIT"}
  BY LiveFacts
<1>2. /\ Fine(v) /\ x \in Seg /\ v.p.unsent = Append(w.p.unsent, x)
      /\ v.p.state = w.p.state /\ v.p.unacked = w.p.unacked
      /\ v.p.snd_buf = w.p.snd_buf
      /\ v.p.rtime = w.p.rtime /\ v.p.persist = w.p.persist
  BY <1>1, EnqueueFields
<1>3. Len(x.data) = 0
  OBVIOUS
<1> HIDE DEF v, x
<1>4. w.p.unsent \in Seq(Seg) /\ w.p.unacked \in Seq(Seg) /\ w.p.snd_buf \in Int
  BY <1>1 DEF Block
<1>5. Bytes(v.p.unsent) = Bytes(w.p.unsent) + 0 /\ Bytes(w.p.unsent) \in Nat
  BY <1>2, <1>3, <1>4, AppendBytes, BytesNat
<1>6. Exact(v.p)
  BY <1>1, <1>2, <1>5 DEF Exact
<1>7. v.p \in Block
  BY <1>2, WorkBlock DEF Fine
<1> QED
  BY <1>1, <1>2, <1>6, <1>7, LiveFacts DEF v

LEMMA SendFinLive ==
    ASSUME NEW w, Live(w)
    PROVE  Live(tcp_send_fin(w)) /\ tcp_send_fin(w).p.state = w.p.state
<1> DEFINE p == w.p
           q == p.unsent
           n == Len(q)
           r == [q EXCEPT ![n].fin = TRUE]
           fl == p.flags \cup {"FIN"}
           b == [p EXCEPT !.unsent = r, !.flags = fl]
           v == [w EXCEPT !.p.unsent[n].fin = TRUE, !.p.flags = fl]
<1>1. /\ Fine(w) /\ w \in Work /\ p \in Block
      /\ p.persist => p.unacked = <<>>
      /\ p.unacked # <<>> => p.rtime
      /\ Exact(p) /\ p.state \notin {"SYN_SENT", "TIME_WAIT"}
  BY LiveFacts DEF Fine
<1>2. TRUE \in BOOLEAN /\ FALSE \in BOOLEAN
  OBVIOUS
<1>3. CASE ~FinOnLast(w.p)
  BY <1>2, <1>3, EnqueueLive DEF tcp_send_fin
<1>4. CASE FinOnLast(w.p)
  <2>1. tcp_send_fin(w) = v
    BY <1>4, Zenon DEF tcp_send_fin
  <2>2. v = [w EXCEPT !.p = b]
    BY <1>1 DEF Work
  <2>3. q \in Seq(Seg) /\ q # <<>> /\ p.flags \in SUBSET Flags /\ p.snd_buf \in Int
        /\ p.unacked \in Seq(Seg)
    BY <1>1, <1>4 DEF Block, FinOnLast
  <2> HIDE DEF q
  <2>4. /\ r \in Seq(Seg) /\ Len(r) = n /\ (\A i \in 1 .. n - 1 : r[i] = q[i])
        /\ r[n].data = q[n].data
    <3>1. n \in Nat /\ n \in 1 .. n /\ q[n] \in Seg /\ q \in [1 .. n -> Seg]
      BY <2>3
    <3>2. [q[n] EXCEPT !.fin = TRUE] \in Seg /\ [q[n] EXCEPT !.fin = TRUE].data = q[n].data
      BY <1>2, <3>1 DEF Seg
    <3> DEFINE y == [q[n] EXCEPT !.fin = TRUE]
    <3> HIDE DEF y
    <3>3. r = [q EXCEPT ![n] = y]
      BY DEF y
    <3>4. y \in Seg /\ y.data = q[n].data
      BY <3>2 DEF y
    <3> HIDE DEF r, n
    <3>5. r \in [1 .. n -> Seg]
      BY <3>1, <3>3, <3>4
    <3>6. r \in Seq(Seg) /\ Len(r) = n
      BY <3>1, <3>5
    <3>7. r[n] = y /\ \A i \in 1 .. n - 1 : r[i] = q[i]
      BY <3>1, <3>3, <3>4
    <3> QED BY <3>4, <3>6, <3>7
  <2> HIDE DEF r
  <2>5. Bytes(r) = (Bytes(q) - Len(q[n].data)) + Len(r[n].data) /\ q[n] \in Seg
    BY <2>3, <2>4, LastBytes
  <2>6. Bytes(r) = Bytes(q)
    <3>1. Len(q[n].data) \in Nat /\ Bytes(q) \in Nat
      BY <2>3, <2>5, SegFacts, BytesNat
    <3> QED BY <2>4, <2>5, <3>1
  <2>7. fl \in SUBSET Flags
    BY <2>3 DEF Flags
  <2> HIDE DEF fl, p
  <2>8. /\ b \in Block /\ b.state = p.state /\ b.unsent = r /\ b.unacked = p.unacked
        /\ b.snd_buf = p.snd_buf /\ b.rtime = p.rtime /\ b.persist = p.persist
    BY <1>1, <2>4, <2>7 DEF Block
  <2> HIDE DEF b, v
  <2>9. Fine(v) /\ v.p = b
    BY <1>1, <2>2, <2>8, PutFine
  <2>10. Exact(b)
    BY <1>1, <2>6, <2>8 DEF Exact, q
  <2> QED BY <1>1, <2>1, <2>8, <2>9, <2>10, LiveFacts DEF p
<1> QED
  BY <1>3, <1>4

\* Where the i-th part of n bytes begins, when each takes TCP_MSS of them.
LEMMA ChunkPlace ==
    ASSUME NEW n \in Nat, NEW m, m = (n + TCP_MSS - 1) \div TCP_MSS
    PROVE  /\ m \in Nat /\ m * TCP_MSS >= n /\ 0 * TCP_MSS = 0
           /\ \A i \in 1 .. m : /\ (i - 1) * TCP_MSS \in Nat /\ (i - 1) * TCP_MSS < n
                                /\ i * TCP_MSS = (i - 1) * TCP_MSS + TCP_MSS
<1> DEFINE s == TCP_MSS
<1>1. s \in Nat \ {0}
  BY TcpOutAssumption
<1> HIDE DEF s
<1>2. m \in Nat /\ s * m >= n /\ s * m <= n + s - 1
  BY <1>1 DEF s
<1>3. ASSUME NEW i \in 1 .. m
      PROVE  (i - 1) * s \in Nat /\ (i - 1) * s < n /\ i * s = (i - 1) * s + s
  <2>1. i \in Nat /\ i >= 1 /\ i <= m /\ i - 1 \in Nat
    BY <1>2
  <2>2. i * s = (i - 1) * s + s /\ (i - 1) * s \in Nat
    BY <1>1, <2>1
  <2>3. i * s <= m * s
    <3>1. m - i \in Nat
      BY <1>2, <2>1
    <3>2. (m - i) * s \in Nat /\ m * s = (m - i) * s + i * s
      BY <1>1, <1>2, <2>1, <3>1
    <3>3. i * s \in Nat
      BY <1>1, <2>1
    <3> QED BY <3>2, <3>3
  <2>4. m * s = s * m /\ m * s \in Nat
    BY <1>1, <1>2
  <2> QED BY <1>1, <1>2, <2>2, <2>3, <2>4
<1>4. m * s >= n /\ 0 * s = 0
  BY <1>1, <1>2
<1> QED
  BY <1>2, <1>3, <1>4 DEF s

\* The segments that tcp_write makes of the bytes that the last one does not take.
Chunks(c, d, m) ==
    /\ d \in Seq(Nat) /\ m = (Len(d) + TCP_MSS - 1) \div TCP_MSS
    /\ c \in [1 .. m -> [seqno : Num, data : Seq(Nat), syn : BOOLEAN, fin : BOOLEAN]]
    /\ \A i \in 1 .. m : c[i].data = SubSeq(d, (i - 1) * TCP_MSS + 1,
                                            AtMost(i * TCP_MSS, Len(d)))

LEMMA ChunkBytes ==
    ASSUME NEW d, NEW m, NEW c, Chunks(c, d, m)
    PROVE  c \in Seq(Seg) /\ Len(c) = m /\ Bytes(c) = Len(d)
<1> USE DEF Chunks
<1> DEFINE n == Len(d)
           s == TCP_MSS
           at(i) == AtMost(i * s, n)
           f == [i \in 0 .. m |-> at(i)]
<1>1. n \in Nat /\ s \in Nat \ {0}
  BY TcpOutAssumption
<1>2. /\ m \in Nat /\ m * s >= n /\ 0 * s = 0
      /\ \A i \in 1 .. m : /\ (i - 1) * s \in Nat /\ (i - 1) * s < n
                           /\ i * s = (i - 1) * s + s
  BY <1>1, ChunkPlace
<1>3. ASSUME NEW i \in 1 .. m
      PROVE  /\ at(i - 1) = (i - 1) * s /\ at(i) \in Nat /\ at(i) <= n
             /\ at(i) >= (i - 1) * s /\ at(i) - (i - 1) * s <= s
             /\ Len(c[i].data) = at(i) - at(i - 1)
             /\ c[i] \in Seg
  <2> DEFINE a == (i - 1) * s
             e == i * s
  <2>1. a \in Nat /\ a < n /\ e = a + s
    BY <1>2
  <2> HIDE DEF a, e, n, s
  <2>2. AtMost(a, n) = a /\ AtMost(e, n) \in Nat /\ AtMost(e, n) <= n /\ AtMost(e, n) > a
        /\ AtMost(e, n) - a <= s
    BY <1>1, <2>1 DEF AtMost
  <2>3. Len(SubSeq(d, a + 1, AtMost(e, n))) = AtMost(e, n) - a
        /\ SubSeq(d, a + 1, AtMost(e, n)) \in Seq(Nat)
    <3>1. a + 1 \in Int /\ AtMost(e, n) \in Int /\ a + 1 <= AtMost(e, n) + 1
      BY <1>1, <2>1, <2>2
    <3>2. \A j \in a + 1 .. AtMost(e, n) : d[j] \in Nat
      BY <1>1, <2>1, <2>2 DEF n
    <3>3. (AtMost(e, n) - (a + 1)) + 1 = AtMost(e, n) - a
      BY <2>1, <2>2
    <3> DEFINE z == AtMost(e, n)
               y == a + 1
    <3> HIDE DEF z, y
    <3>4. y \in Int /\ z \in Int /\ y <= z + 1 /\ \A j \in y .. z : d[j] \in Nat
      BY <3>1, <3>2 DEF z, y
    <3>5. SubSeq(d, y, z) \in Seq(Nat) /\ Len(SubSeq(d, y, z)) = (IF y <= z THEN (z - y) + 1 ELSE 0)
      BY <3>4, SubSeqProperties
    <3> QED BY <3>1, <3>3, <3>4, <3>5, <2>1, <2>2 DEF z, y
  <2>4. c[i].data = SubSeq(d, a + 1, AtMost(e, n))
    BY DEF a, e, n, s
  <2>5. c[i] \in [seqno : Num, data : Seq(Nat), syn : BOOLEAN, fin : BOOLEAN]
    OBVIOUS
  <2>6. c[i].data \in Data
    BY <2>2, <2>3, <2>4 DEF Data, s
  <2>7. c[i] \in Seg
    BY <2>5, <2>6 DEF Seg
  <2>8. Len(c[i].data) = AtMost(e, n) - a
    BY <2>3, <2>4
  <2>9. i \in Nat /\ AtMost((i - 1) * s, n) = AtMost(a, n)
    BY <1>2 DEF a
  <2> QED BY <2>1, <2>2, <2>7, <2>8, <2>9 DEF a, e
<1>4. c \in [1 .. m -> Seg]
  BY <1>3
<1> HIDE DEF Chunks
<1>5. c \in Seq(Seg) /\ Len(c) = m
  <2>1. m \in Nat
    BY <1>2
  <2> QED BY ONLY <1>4, <2>1
<1>6. at(0) = 0 /\ at(m) = n
  BY <1>1, <1>2 DEF AtMost
<1> HIDE DEF at
<1>7. IsSum(f, c)
  <2>1. \A i \in 0 .. m : at(i) \in Nat
    <3> SUFFICES ASSUME NEW i \in 0 .. m PROVE at(i) \in Nat
      OBVIOUS
    <3>1. i = 0 \/ i \in 1 .. m
      BY <1>2
    <3> QED BY <1>3, <1>6, <3>1
  <2>2. f \in [0 .. m -> Nat] /\ f[0] = 0
    BY <1>2, <1>6, <2>1
  <2>3. ASSUME NEW i \in 1 .. m PROVE f[i] = f[i - 1] + Len(c[i].data)
    <3>1. i \in 0 .. m /\ i - 1 \in 0 .. m
      BY <1>2
    <3>2. f[i] = at(i) /\ f[i - 1] = at(i - 1)
      BY <3>1
    <3>3. at(i) \in Nat /\ at(i - 1) \in Nat
      BY <2>1, <3>1
    <3> QED BY <1>3, <3>2, <3>3
  <2> QED BY <1>5, <2>2, <2>3 DEF IsSum
<1>8. PICK g : IsSum(g, c) /\ Bytes(c) = g[Len(c)]
  BY <1>5, BytesSum
<1> HIDE DEF f
<1>9. g[m] = f[m]
  <2>1. m \in 0 .. Len(c)
    BY <1>2, <1>5
  <2> QED BY <1>2, <1>5, <1>7, <1>8, <2>1, SumUnique
<1>10. f[m] = n
  BY <1>2, <1>6 DEF f
<1> QED
  BY <1>5, <1>8, <1>9, <1>10

\* tcp_write fills the last segment of unsent. The SYN holds no bytes and is not filled.
LEMMA FilledQueue ==
    ASSUME NEW q \in Seq(Seg), NEW d \in Seq(Nat), q # <<>>,
           Len(q[Len(q)].data) + Len(d) <= TCP_MSS
    PROVE  LET r == [q EXCEPT ![Len(q)].data = @ \o d]
           IN  /\ r \in Seq(Seg) /\ Len(r) = Len(q) /\ Bytes(r) = Bytes(q) + Len(d)
               /\ \A i \in 1 .. Len(q) - 1 : r[i] = q[i]
               /\ r[Len(q)].seqno = q[Len(q)].seqno
<1> DEFINE n == Len(q)
           r == [q EXCEPT ![n].data = @ \o d]
           y == [q[n] EXCEPT !.data = @ \o d]
<1>1. n \in Nat /\ n \in 1 .. n /\ q[n] \in Seg /\ q \in [1 .. n -> Seg]
  OBVIOUS
<1>2. q[n].data \in Seq(Nat) /\ Len(q[n].data) \in Nat /\ Len(d) \in Nat
  BY <1>1, SegFacts
<1>3. q[n].data \o d \in Seq(Nat) /\ Len(q[n].data \o d) = Len(q[n].data) + Len(d)
  BY <1>2
<1>4. q[n].data \o d \in Data
  BY <1>3 DEF Data
<1>5. y \in Seg /\ y.data = q[n].data \o d /\ y.seqno = q[n].seqno
  <2> DEFINE e == q[n].data \o d
  <2>1. e \in Data
    BY <1>4
  <2> HIDE DEF e
  <2>2. [q[n] EXCEPT !.data = e] \in Seg /\ [q[n] EXCEPT !.data = e].data = e
        /\ [q[n] EXCEPT !.data = e].seqno = q[n].seqno
    BY <1>1, <2>1 DEF Seg
  <2> QED BY <2>2 DEF e
<1>6. r = [q EXCEPT ![n] = y]
  OBVIOUS
<1> HIDE DEF y, r, n
<1>7. r \in [1 .. n -> Seg]
  BY <1>1, <1>5, <1>6
<1>8. r \in Seq(Seg) /\ Len(r) = n
  BY <1>1, <1>7
<1>9. r[n] = y /\ \A i \in 1 .. n - 1 : r[i] = q[i]
  BY <1>1, <1>5, <1>6
<1>10. Bytes(r) = (Bytes(q) - Len(q[n].data)) + Len(r[n].data)
  BY <1>8, <1>9, LastBytes DEF n
<1>11. Bytes(q) \in Nat /\ Len(r[n].data) = Len(q[n].data) + Len(d)
  BY <1>3, <1>5, <1>9, BytesNat
<1>12. Bytes(r) = Bytes(q) + Len(d)
  BY <1>2, <1>10, <1>11
<1> QED
  BY <1>5, <1>8, <1>9, <1>12 DEF r, n

LEMMA WriteGood ==
    ASSUME NEW w, Good(w), w.p.state # "TIME_WAIT", NEW bytes \in Seq(Nat),
           Len(bytes) <= w.p.snd_buf
    PROVE  Good(tcp_write(w, bytes))
<1> DEFINE p == w.p
           q == p.unsent
           space == IF q = <<>> \/ Last(q).data = <<>> THEN 0
                    ELSE TCP_MSS - Len(Last(q).data)
           fill == AtMost(space, Len(bytes))
           rest == Skip(bytes, fill)
           m == (Len(rest) + TCP_MSS - 1) \div TCP_MSS
           seg(i) == [seqno |-> Plus(p.snd_lbb, fill + (i - 1) * TCP_MSS),
                      data |-> SubSeq(rest, (i - 1) * TCP_MSS + 1,
                                      AtMost(i * TCP_MSS, Len(rest))),
                      syn |-> FALSE, fin |-> FALSE]
           c == [i \in 1 .. m |-> seg(i)]
           d == SubSeq(bytes, 1, fill)
           filled == IF fill = 0 THEN q ELSE [q EXCEPT ![Len(q)].data = @ \o d]
           r == filled \o c
           lbb == Plus(p.snd_lbb, Len(bytes))
           buf == p.snd_buf - Len(bytes)
           b == [p EXCEPT !.unsent = r, !.snd_lbb = lbb, !.snd_buf = buf]
           v == tcp_write(w, bytes)
<1>1. Fine(w) /\ w \in Work /\ Sound(p) /\ p \in Block
  BY WorkBlock DEF Good, Fine
<1>2. /\ q \in Seq(Seg) /\ p.unacked \in Seq(Seg) /\ p.snd_lbb \in Num /\ p.snd_buf \in Int
      /\ Len(bytes) \in Nat /\ TCP_MSS \in Nat \ {0} /\ p.lastack \in Num
  BY <1>1, TcpOutAssumption DEF Block
<1>3. v = [w EXCEPT !.p = b]
  <2>1. v = [w EXCEPT !.p.unsent = r, !.p.snd_lbb = lbb, !.p.snd_buf = buf]
    BY Zenon DEF tcp_write
  <2> HIDE DEF r, lbb, buf, v
  <2> QED BY <1>1, <2>1 DEF Work
<1> HIDE DEF p, v
<1>4. q # <<>> => /\ Last(q) = q[Len(q)] /\ q[Len(q)] \in Seg
                  /\ Len(q[Len(q)].data) \in Nat /\ Len(q[Len(q)].data) <= TCP_MSS
                  /\ q[Len(q)].data \in Seq(Nat)
  <2>1. q # <<>> => Len(q) \in 1 .. Len(q)
    BY <1>2
  <2>2. q # <<>> => q[Len(q)] \in Seg
    BY <1>2, <2>1
  <2> QED BY <2>2, SegFacts DEF Last
<1>5. /\ space \in Nat
      /\ space # 0 => /\ q # <<>> /\ q[Len(q)].data # <<>>
                      /\ Len(q[Len(q)].data) + space = TCP_MSS
  <2> HIDE DEF q
  <2>1. CASE q = <<>> \/ Last(q).data = <<>>
    <3>1. space = 0
      BY <2>1
    <3> HIDE DEF space
    <3> QED BY <3>1
  <2>2. CASE ~(q = <<>> \/ Last(q).data = <<>>)
    <3>1. space = TCP_MSS - Len(Last(q).data)
      BY <2>2
    <3> DEFINE l == Len(q[Len(q)].data)
    <3>2. l \in Nat /\ l <= TCP_MSS /\ q # <<>> /\ q[Len(q)].data # <<>> /\ space = TCP_MSS - l
      BY <1>4, <2>2, <3>1
    <3>3. TCP_MSS \in Nat
      BY <1>2
    <3> HIDE DEF space, l
    <3>4. space \in Nat /\ l + space = TCP_MSS
      BY ONLY <3>2, <3>3
    <3> QED BY <3>2, <3>4 DEF l
  <2> QED BY <2>1, <2>2
<1> HIDE DEF q, space
<1>6. fill \in 0 .. Len(bytes) /\ fill <= space
  BY <1>2, <1>5 DEF AtMost
<1> HIDE DEF fill
<1>7. /\ d \in Seq(Nat) /\ Len(d) = fill /\ rest \in Seq(Nat) /\ Len(rest) = Len(bytes) - fill
  BY <1>6, Parts
<1> HIDE DEF d, rest
<1>8. /\ filled \in Seq(Seg) /\ Len(filled) = Len(q) /\ Bytes(filled) = Bytes(q) + fill
      /\ \A i \in 1 .. Len(q) - 1 : filled[i] = q[i]
      /\ q # <<>> => filled[Len(q)].seqno = q[Len(q)].seqno
      /\ q # <<>> /\ q[Len(q)].data = <<>> => filled = q
  <2>1. CASE fill = 0
    <3>1. filled = q
      BY <2>1
    <3>2. Bytes(q) = Bytes(q) + fill
      BY <1>2, <2>1, BytesNat
    <3> QED BY <1>2, <3>1, <3>2
  <2>2. CASE fill # 0
    <3> DEFINE z == [q EXCEPT ![Len(q)].data = @ \o d]
    <3>1. space # 0 /\ filled = z
      BY <1>2, <1>5, <1>6, <2>2
    <3>2. q # <<>> /\ q[Len(q)].data # <<>> /\ Len(q[Len(q)].data) + Len(d) <= TCP_MSS
      BY <1>2, <1>4, <1>5, <1>6, <1>7, <3>1
    <3>3. /\ z \in Seq(Seg) /\ Len(z) = Len(q) /\ Bytes(z) = Bytes(q) + Len(d)
          /\ (\A i \in 1 .. Len(q) - 1 : z[i] = q[i])
          /\ z[Len(q)].seqno = q[Len(q)].seqno
      BY <1>2, <1>7, <3>2, FilledQueue
    <3> HIDE DEF z
    <3> QED BY <1>7, <3>1, <3>2, <3>3
  <2> QED BY <2>1, <2>2
<1> HIDE DEF filled
<1>9. Len(rest) \in Nat
  BY <1>7
<1>10. /\ m \in Nat
       /\ \A i \in 1 .. m : (i - 1) * TCP_MSS \in Nat /\ (i - 1) * TCP_MSS < Len(rest)
  BY <1>9, ChunkPlace
<1>11. c \in [1 .. m -> [seqno : Num, data : Seq(Nat), syn : BOOLEAN, fin : BOOLEAN]]
  <2> SUFFICES ASSUME NEW i \in 1 .. m
               PROVE  seg(i) \in [seqno : Num, data : Seq(Nat), syn : BOOLEAN, fin : BOOLEAN]
    OBVIOUS
  <2>1. (i - 1) * TCP_MSS \in Nat /\ fill + (i - 1) * TCP_MSS \in Int /\ i * TCP_MSS \in Int
    BY <1>2, <1>6, <1>10
  <2>2. Plus(p.snd_lbb, fill + (i - 1) * TCP_MSS) \in Num
    BY <1>2, <2>1, NumPlus
  <2>3. SubSeq(rest, (i - 1) * TCP_MSS + 1, AtMost(i * TCP_MSS, Len(rest))) \in Seq(Nat)
    <3> DEFINE y == (i - 1) * TCP_MSS + 1
               z == AtMost(i * TCP_MSS, Len(rest))
    <3>1. y \in Int /\ y >= 1 /\ z \in Int /\ z <= Len(rest)
      BY <1>9, <2>1 DEF AtMost
    <3> HIDE DEF y, z
    <3>2. \A j \in y .. z : rest[j] \in Nat
      BY <1>7, <1>9, <3>1
    <3>3. SubSeq(rest, y, z) \in Seq(Nat)
      BY <3>1, <3>2, SubSeqProperties
    <3> QED BY <3>3 DEF y, z
  <2>4. FALSE \in BOOLEAN
    OBVIOUS
  <2> QED BY <2>2, <2>3, <2>4, Zenon
<1>12. /\ \A i \in 1 .. m : c[i].data = SubSeq(rest, (i - 1) * TCP_MSS + 1,
                                               AtMost(i * TCP_MSS, Len(rest)))
       /\ \A i \in 1 .. m : c[i].seqno = Plus(p.snd_lbb, fill + (i - 1) * TCP_MSS)
  OBVIOUS
<1> HIDE DEF c
<1>13. c \in Seq(Seg) /\ Len(c) = m /\ Bytes(c) = Len(rest)
  <2>1. rest \in Seq(Nat) /\ m = (Len(rest) + TCP_MSS - 1) \div TCP_MSS
    BY <1>7
  <2> HIDE DEF m, rest, fill
  <2>2. Chunks(c, rest, m)
    BY <1>11, <1>12, <2>1, Zenon DEF Chunks
  <2> QED BY <2>2, ChunkBytes
<1> HIDE DEF m
<1>14. r \in Seq(Seg) /\ Bytes(r) = Bytes(filled) + Bytes(c)
  <2>1. filled \in Seq(Seg) /\ c \in Seq(Seg)
    BY <1>8, <1>13
  <2> QED BY ONLY <2>1, BytesConcat
<1>15. /\ Len(r) = Len(q) + m
       /\ \A i \in 1 .. Len(q) : r[i] = filled[i]
       /\ \A i \in 1 .. m : r[Len(q) + i] = c[i]
  <2>1. filled \in Seq(Seg) /\ c \in Seq(Seg)
    BY <1>8, <1>13
  <2>2. /\ Len(r) = Len(filled) + Len(c)
        /\ \A i \in 1 .. Len(filled) : r[i] = filled[i]
        /\ \A i \in 1 .. Len(c) : r[Len(filled) + i] = c[i]
    BY ONLY <2>1, Joined
  <2> QED BY <1>8, <1>13, <2>2
<1> HIDE DEF r
<1>16. lbb \in Num /\ buf \in Int /\ buf >= 0
  <2>1. Len(bytes) \in Int /\ Len(bytes) <= p.snd_buf
    BY <1>2 DEF p
  <2>2. lbb \in Num
    BY <1>2, <2>1, NumPlus
  <2>3. p.snd_buf \in Int
    BY <1>2
  <2>4. buf \in Int /\ buf >= 0
    BY ONLY <2>1, <2>3 DEF buf
  <2> QED BY <2>2, <2>4
<1> HIDE DEF lbb, buf
<1>17. /\ b \in Block /\ b.state = p.state /\ b.unsent = r /\ b.unacked = p.unacked
       /\ b.snd_buf = buf /\ b.snd_lbb = lbb /\ b.lastack = p.lastack
       /\ b.rtime = p.rtime /\ b.persist = p.persist
  BY <1>1, <1>14, <1>16 DEF Block
<1> HIDE DEF b
<1>18. Exact(b)
  <2>1. p.snd_buf + Bytes(p.unacked) + Bytes(q) = TCP_SND_BUF
    BY <1>1 DEF Sound, Exact, p, q
  <2>2. Bytes(q) \in Nat /\ Bytes(p.unacked) \in Nat /\ fill \in Nat
    BY <1>2, <1>6, BytesNat
  <2>3. Bytes(r) = Bytes(q) + Len(bytes)
    BY <1>2, <1>7, <1>8, <1>13, <1>14, <2>2
  <2> QED BY <1>2, <1>17, <2>1, <2>2, <2>3 DEF Exact, buf
<1>19. ASSUME p.state = "SYN_SENT" PROVE SynFirst(b)
  <2>1. SynFirst(p)
    BY <1>1, <1>19 DEF Sound
  <2> DEFINE o == 1 + TCP_SND_BUF - p.snd_buf
  <2>2. p.snd_buf >= 0 /\ p.snd_lbb = Plus(p.lastack, o)
    BY <2>1 DEF SynFirst
  <2>3. o \in Int /\ o + Len(bytes) = 1 + TCP_SND_BUF - buf /\ o + Len(bytes) <= WndSpace
        /\ o >= 1 /\ WndSpace \in Nat
    <3>1. p.snd_buf <= TCP_SND_BUF
      <4>1. p.snd_buf + Bytes(p.unacked) + Bytes(q) = TCP_SND_BUF
        BY <1>1 DEF Sound, Exact, p, q
      <4>2. Bytes(q) \in Nat /\ Bytes(p.unacked) \in Nat
        BY <1>2, BytesNat
      <4> QED BY <1>2, <4>1, <4>2, TcpOutAssumption
    <3> QED BY <1>2, <1>16, <3>1, TcpOutAssumption DEF buf
  <2> HIDE DEF o
  <2>4. lbb = Plus(p.lastack, 1 + TCP_SND_BUF - buf)
    <3>1. Plus(Plus(p.lastack, o), Len(bytes)) = Plus(p.lastack, o + Len(bytes))
      BY <1>2, <2>3, PlusPlus
    <3> QED BY <2>2, <2>3, <3>1 DEF lbb
  <2>5. ASSUME NEW i \in 1 .. m PROVE DataSeg(p, c[i])
    <3> DEFINE e == fill + (i - 1) * TCP_MSS
               f == o + e
    <3>1. e \in Nat /\ e < Len(bytes)
      <4> DEFINE g == (i - 1) * TCP_MSS
      <4>1. g \in Nat /\ g < Len(rest) /\ Len(rest) = Len(bytes) - fill
        BY <1>7, <1>10
      <4>2. fill \in Nat /\ Len(bytes) \in Nat
        BY <1>2, <1>6
      <4> HIDE DEF g
      <4>3. fill + g \in Nat /\ fill + g < Len(bytes)
        BY ONLY <4>1, <4>2
      <4> QED BY <4>3 DEF g
    <3>2. c[i].seqno = Plus(p.snd_lbb, e)
      BY <1>12
    <3> HIDE DEF e
    <3>3. Plus(Plus(p.lastack, o), e) = Plus(p.lastack, f)
      BY <1>2, <2>3, <3>1, PlusPlus
    <3>4. f \in 1 .. WndSpace - 1
      BY <1>2, <2>3, <3>1
    <3> HIDE DEF f
    <3>5. TCP_SEQ_LT(p.lastack, Plus(p.lastack, f))
      BY <1>2, <3>4, AheadBySmall
    <3> QED BY <2>2, <3>2, <3>3, <3>5 DEF DataSeg
  <2>6. Len(q) \in Nat /\ m \in Nat
    BY <1>2, <1>10 DEF m
  <2>7. ASSUME NEW i \in 1 .. Len(q), DataSeg(p, q[i]) PROVE DataSeg(p, filled[i])
    <3>1. filled[i].seqno = q[i].seqno
      <4>1. CASE i = Len(q)
        BY <1>8, <2>6, <4>1
      <4>2. CASE i # Len(q)
        <5>1. i \in 1 .. Len(q) - 1
          BY <2>6, <4>2
        <5> QED BY <1>8, <5>1
      <4> QED BY <4>1, <4>2
    <3> QED BY <2>7, <3>1 DEF DataSeg
  <2>8. ASSUME NEW i \in 1 .. Len(r), i <= Len(q) => DataSeg(p, q[i])
        PROVE  DataSeg(p, r[i])
    <3>1. CASE i <= Len(q)
      <4>1. i \in 1 .. Len(q)
        BY <2>6, <3>1
      <4> QED BY <1>15, <2>7, <2>8, <3>1, <4>1
    <3>2. CASE i > Len(q)
      <4> DEFINE j == i - Len(q)
      <4>1. j \in 1 .. m /\ Len(q) + j = i
        BY <1>15, <2>6, <3>2
      <4> HIDE DEF j
      <4> QED BY <1>15, <2>5, <4>1
    <3> QED BY <2>6, <3>1, <3>2
  <2>9. CASE Led(p, p.unacked) /\ \A i \in 1 .. Len(q) : DataSeg(p, q[i])
    <3>1. \A i \in 1 .. Len(r) : DataSeg(p, r[i])
      BY <2>6, <2>8, <2>9
    <3>2. Led(b, p.unacked) /\ \A i \in 1 .. Len(r) : DataSeg(b, r[i])
      BY <1>17, <2>9, <3>1, LedSame
    <3> QED BY <1>16, <1>17, <2>4, <3>2 DEF SynFirst
  <2>10. CASE p.unacked = <<>> /\ Led(p, q)
    <3>1. q # <<>> /\ SynSeg(p, q[1]) /\ 1 \in 1 .. Len(q)
      BY <2>6, <2>10 DEF Led
    <3>2. filled[1] = q[1]
      <4>1. CASE Len(q) = 1
        <5>1. q[Len(q)].data = <<>>
          BY <3>1, <4>1 DEF SynSeg
        <5>2. filled = q
          BY <1>8, <3>1, <5>1
        <5> QED BY <5>2
      <4>2. CASE Len(q) # 1
        <5>1. 1 \in 1 .. Len(q) - 1
          <6> DEFINE n == Len(q)
          <6>1. n \in Nat /\ n # 0 /\ n # 1
            BY <2>6, <3>1, <4>2
          <6> HIDE DEF n
          <6>2. 1 <= n - 1 /\ n - 1 \in Nat
            BY ONLY <6>1
          <6>3. 1 \in 1 .. n - 1
            BY ONLY <6>2
          <6> QED BY <6>3 DEF n
        <5> QED BY <1>8, <5>1
      <4> QED BY <4>1, <4>2
    <3>3. r # <<>> /\ r[1] = q[1]
      BY <1>15, <2>6, <3>1, <3>2
    <3>4. ASSUME NEW i \in 2 .. Len(r) PROVE DataSeg(p, r[i])
      <4>1. i \in 1 .. Len(r)
        BY <1>15, <2>6
      <4>2. i <= Len(q) => i \in 2 .. Len(q)
        BY <2>6
      <4>3. i <= Len(q) => DataSeg(p, q[i])
        BY <2>10, <4>2 DEF Led
      <4> QED BY <2>8, <4>1, <4>3
    <3>5. Led(p, r)
      BY <3>1, <3>3, <3>4 DEF Led
    <3>6. Led(b, r)
      BY <1>17, <3>5, LedSame
    <3> QED BY <1>16, <1>17, <2>4, <2>10, <3>6 DEF SynFirst
  <2> QED BY <2>1, <2>9, <2>10 DEF SynFirst, q
<1>20. Sound(b)
  BY <1>1, <1>17, <1>18, <1>19 DEF Sound
<1>21. Fine(v) /\ v.p = b
  BY <1>1, <1>3, <1>17, PutFine
<1> QED
  BY <1>20, <1>21 DEF Good, v

LEMMA HeadTail ==
    ASSUME NEW q \in Seq(Seg), q # <<>>
    PROVE  /\ Head(q) \in Seg /\ Head(q) = q[1] /\ Tail(q) \in Seq(Seg)
           /\ Len(Tail(q)) = Len(q) - 1 /\ Len(q) \in Nat /\ Len(q) >= 1
           /\ \A i \in 1 .. Len(q) - 1 : Tail(q)[i] = q[i + 1]
           /\ Bytes(q) = Len(Head(q).data) + Bytes(Tail(q))
           /\ Bytes(Tail(q)) \in Nat /\ Len(Head(q).data) \in Nat
<1> DEFINE h == Head(q)
           t == Tail(q)
           o == <<h>>
<1>1. /\ h \in Seg /\ h = q[1] /\ t \in Seq(Seg) /\ Len(t) = Len(q) - 1
      /\ Len(q) \in Nat /\ Len(q) >= 1 /\ \A i \in 1 .. Len(q) - 1 : t[i] = q[i + 1]
  BY HeadTailProperties
<1>2. o \in Seq(Seg) /\ Bytes(o) = Len(h.data) /\ Len(h.data) \in Nat
  BY <1>1, BytesOne
<1>3. q = o \o t
  <2>1. Len(o \o t) = Len(q) /\ o \o t \in Seq(Seg)
    BY <1>1, <1>2
  <2>2. ASSUME NEW i \in 1 .. Len(q) PROVE (o \o t)[i] = q[i]
    BY <1>1
  <2> QED BY <2>1, <2>2, SeqEqual
<1> HIDE DEF o, t, h
<1>4. Bytes(o \o t) = Bytes(o) + Bytes(t)
  BY ONLY <1>1, <1>2, BytesConcat
<1>5. Bytes(t) \in Nat
  BY <1>1, BytesNat
<1> QED
  BY <1>1, <1>2, <1>3, <1>4, <1>5 DEF t, h

\* A segment cut in two: the persist timer sends what fits the window.
LEMMA SplitGood ==
    ASSUME NEW w, Good(w), NEW n \in Nat, w.p.persist, w.p.unsent # <<>>
    PROVE  Good(tcp_split_unsent_seg(w, n))
<1> DEFINE p == w.p
           q == p.unsent
           h == Head(q)
           x == [seqno |-> Plus(h.seqno, n), data |-> Skip(h.data, n),
                 syn |-> FALSE, fin |-> h.fin]
           y == [h EXCEPT !.data = SubSeq(h.data, 1, n)]
           r == <<y, x>> \o Tail(q)
           b == [p EXCEPT !.unsent = r]
           v == [w EXCEPT !.p.unsent = r]
<1>1. Fine(w) /\ w \in Work /\ Sound(p) /\ p \in Block
  BY WorkBlock DEF Good, Fine
<1>2. q \in Seq(Seg) /\ p.unacked \in Seq(Seg) /\ p.snd_buf \in Int /\ q # <<>>
  BY <1>1 DEF Block
<1>3. /\ h \in Seg /\ h = q[1] /\ Tail(q) \in Seq(Seg)
      /\ Bytes(q) = Len(h.data) + Bytes(Tail(q)) /\ Bytes(Tail(q)) \in Nat
  BY <1>2, HeadTail
<1>4. tcp_split_unsent_seg(w, n) = IF Len(h.data) <= n THEN w ELSE v
  BY Zenon DEF tcp_split_unsent_seg
<1>5. v = [w EXCEPT !.p = b]
  OBVIOUS
<1> HIDE DEF p, v
<1>6. p.unacked = <<>>
  BY <1>1 DEF Sound, p
<1>7. ASSUME p.state = "SYN_SENT" PROVE Len(h.data) <= n
  <2>1. SynFirst(p)
    BY <1>1, <1>7 DEF Sound
  <2>2. SynSeg(p, q[1])
    BY <1>6, <2>1 DEF SynFirst, Led
  <2>3. h.data = <<>>
    BY <1>3, <2>2 DEF SynSeg
  <2> QED BY <2>3
<1> HIDE DEF q
<1>8. CASE Len(h.data) <= n
  BY <1>4, <1>8
<1>9. CASE ~(Len(h.data) <= n)
  <2>1. /\ h.seqno \in Num /\ h.data \in Seq(Nat) /\ Len(h.data) \in Nat
        /\ Len(h.data) <= TCP_MSS /\ h.fin \in BOOLEAN /\ TCP_MSS \in Nat
    BY <1>3, SegFacts, TcpOutAssumption
  <2> HIDE DEF h
  <2>2. n \in 0 .. Len(h.data)
    BY <1>9, <2>1
  <2>3. /\ SubSeq(h.data, 1, n) \in Seq(Nat) /\ Len(SubSeq(h.data, 1, n)) = n
        /\ Skip(h.data, n) \in Seq(Nat) /\ Len(Skip(h.data, n)) = Len(h.data) - n
    BY <2>1, <2>2, Parts
  <2>4. SubSeq(h.data, 1, n) \in Data /\ Skip(h.data, n) \in Data
    <3>1. n <= TCP_MSS /\ Len(h.data) - n <= TCP_MSS
      BY <2>1, <2>2
    <3> QED BY <2>3, <3>1 DEF Data
  <2>5. x \in Seg /\ Len(x.data) = Len(h.data) - n
    <3>1. Plus(h.seqno, n) \in Num
      <4>1. n \in Int
        OBVIOUS
      <4> QED BY <2>1, <4>1, NumPlus
    <3> QED BY <2>1, <2>3, <2>4, <3>1 DEF Seg
  <2>6. y \in Seg /\ Len(y.data) = n
    <3> DEFINE d == SubSeq(h.data, 1, n)
    <3>1. d \in Data /\ Len(d) = n
      BY <2>3, <2>4
    <3> HIDE DEF d
    <3>2. [h EXCEPT !.data = d] \in Seg /\ [h EXCEPT !.data = d].data = d
      BY <1>3, <3>1 DEF Seg
    <3> QED BY <3>1, <3>2 DEF d
  <2> HIDE DEF x, y
  <2>7. <<y, x>> \in Seq(Seg) /\ Bytes(<<y, x>>) = Len(y.data) + Len(x.data)
    <3> DEFINE o == <<y>>
    <3>1. o \in Seq(Seg) /\ Bytes(o) = Len(y.data)
      BY <2>6, BytesOne
    <3>2. <<y, x>> = Append(o, x)
      OBVIOUS
    <3> HIDE DEF o
    <3> QED BY <2>5, <3>1, <3>2, AppendBytes
  <2> DEFINE o == <<y, x>>
             t == Tail(q)
  <2>8. o \in Seq(Seg) /\ Bytes(o) = Len(y.data) + Len(x.data) /\ t \in Seq(Seg) /\ r = o \o t
        /\ Bytes(t) \in Nat
    BY <1>3, <2>7
  <2> HIDE DEF o, t
  <2>9. o \o t \in Seq(Seg) /\ Bytes(o \o t) = Bytes(o) + Bytes(t)
    BY ONLY <2>8, BytesConcat
  <2>10. r \in Seq(Seg) /\ Bytes(r) = Bytes(q)
    <3>1. Bytes(r) = Bytes(o) + Bytes(t) /\ Bytes(q) = Len(h.data) + Bytes(t)
      BY <1>3, <2>8, <2>9 DEF t
    <3>2. r \in Seq(Seg)
      BY <2>8, <2>9
    <3> DEFINE l == Len(h.data)
               i == Len(y.data)
               j == Len(x.data)
    <3>3. l \in Nat /\ i = n /\ j = l - n /\ Bytes(o) = i + j
      BY <2>1, <2>5, <2>6, <2>8
    <3> HIDE DEF l, i, j, r
    <3>4. Bytes(o) = l /\ Bytes(t) \in Nat
      <4>1. n \in Nat
        OBVIOUS
      <4>2. i + j = l
        BY ONLY <3>3, <4>1
      <4> QED BY <2>8, <3>3, <4>2
    <3> QED BY <3>1, <3>2, <3>4 DEF l
  <2> HIDE DEF r
  <2>11. /\ b \in Block /\ b.state = p.state /\ b.unsent = r /\ b.unacked = p.unacked
         /\ b.snd_buf = p.snd_buf /\ b.rtime = p.rtime /\ b.persist = p.persist
    BY <1>1, <2>10 DEF Block
  <2> HIDE DEF b
  <2>12. Fine(v) /\ v.p = b
    BY <1>1, <1>5, <2>11, PutFine
  <2>13. p.state # "TIME_WAIT" => Exact(b)
    BY <1>1, <2>10, <2>11 DEF Sound, Exact, q
  <2>14. Sound(b)
    BY <1>6, <1>7, <1>9, <2>11, <2>13 DEF Sound
  <2> QED BY <1>4, <1>9, <2>12, <2>14 DEF Good
<1> QED
  BY <1>8, <1>9

-----------------------------------------------------------------------------
(* tcp_out.c: retransmission.                                              *)

LEMMA RtoPrepareGood ==
    ASSUME NEW w, Good(w), w.p.unacked # <<>>
    PROVE  /\ Good(tcp_rexmit_rto_prepare(w))
           /\ tcp_rexmit_rto_prepare(w).p.unacked = <<>>
           /\ tcp_rexmit_rto_prepare(w).p.nrtx \in Int
<1> DEFINE p == w.p
           r == p.unacked \o p.unsent
           fl == p.flags \cup {"RTO"}
           e == SegEnd(Last(p.unacked))
           n == <<>>
           b == [p EXCEPT !.unsent = r, !.unacked = n, !.flags = fl, !.rto_end = e]
           v == tcp_rexmit_rto_prepare(w)
<1>1. Fine(w) /\ w \in Work /\ Sound(p) /\ p \in Block
  BY WorkBlock DEF Good, Fine
<1>2. /\ p.unsent \in Seq(Seg) /\ p.unacked \in Seq(Seg) /\ p.snd_buf \in Int
      /\ p.unacked # <<>> /\ p.flags \in SUBSET Flags
  BY <1>1 DEF Block
<1>3. v = [w EXCEPT !.p = b]
  <2>1. v = [w EXCEPT !.p.unsent = r, !.p.unacked = n, !.p.flags = fl, !.p.rto_end = e]
    BY Zenon DEF tcp_rexmit_rto_prepare
  <2> HIDE DEF r, n, fl, e, v
  <2> QED BY <1>1, <2>1 DEF Work
<1> HIDE DEF p, v
<1>4. r \in Seq(Seg) /\ Bytes(r) = Bytes(p.unacked) + Bytes(p.unsent)
  BY ONLY <1>2, BytesConcat
<1>5. /\ Len(r) = Len(p.unacked) + Len(p.unsent)
      /\ \A i \in 1 .. Len(p.unacked) : r[i] = p.unacked[i]
      /\ \A i \in 1 .. Len(p.unsent) : r[Len(p.unacked) + i] = p.unsent[i]
  <2> DEFINE x == p.unacked
             y == p.unsent
  <2>1. x \in Seq(Seg) /\ y \in Seq(Seg)
    BY <1>2
  <2> HIDE DEF x, y
  <2>2. /\ Len(x \o y) = Len(x) + Len(y)
        /\ \A i \in 1 .. Len(x) : (x \o y)[i] = x[i]
        /\ \A i \in 1 .. Len(y) : (x \o y)[Len(x) + i] = y[i]
    BY ONLY <2>1, Joined
  <2> QED BY <2>2 DEF x, y
<1>6. e \in Num
  <2>1. Len(p.unacked) \in 1 .. Len(p.unacked)
    BY <1>2
  <2>2. Last(p.unacked) \in Seg
    BY <1>2, <2>1 DEF Last
  <2> QED BY <2>2, SegFacts
<1>7. fl \in SUBSET Flags
  BY <1>2 DEF Flags
<1>8. n \in Seq(Seg) /\ Bytes(n) = 0
  BY BytesEmpty
<1> HIDE DEF r, e, fl, n
<1>9. /\ b \in Block /\ b.state = p.state /\ b.unsent = r /\ b.unacked = n
      /\ b.snd_buf = p.snd_buf /\ b.snd_lbb = p.snd_lbb /\ b.lastack = p.lastack
      /\ b.rtime = p.rtime /\ b.persist = p.persist /\ b.nrtx \in Int
  BY <1>1, <1>4, <1>6, <1>7, <1>8 DEF Block
<1> HIDE DEF b
<1>10. Fine(v) /\ v.p = b
  BY <1>1, <1>3, <1>9, PutFine
<1>11. p.state # "TIME_WAIT" => Exact(b)
  <2>1. Bytes(p.unacked) \in Nat /\ Bytes(p.unsent) \in Nat
    BY <1>2, BytesNat
  <2> QED BY <1>1, <1>2, <1>4, <1>8, <1>9, <2>1 DEF Sound, Exact
<1>12. ASSUME p.state = "SYN_SENT" PROVE SynFirst(b)
  <2>1. SynFirst(p)
    BY <1>1, <1>12 DEF Sound
  <2>2. Led(p, p.unacked) /\ \A i \in 1 .. Len(p.unsent) : DataSeg(p, p.unsent[i])
    BY <1>2, <2>1 DEF SynFirst
  <2>3. Len(p.unacked) \in Nat /\ Len(p.unsent) \in Nat /\ 1 \in 1 .. Len(p.unacked)
    BY <1>2
  <2>4. r # <<>> /\ r[1] = p.unacked[1]
    <3>1. r[1] = p.unacked[1]
      BY <1>5, <2>3
    <3>2. Len(r) # 0
      <4> DEFINE i == Len(p.unacked)
                 j == Len(p.unsent)
      <4>1. Len(r) = i + j /\ i \in Nat /\ j \in Nat /\ i # 0
        BY <1>2, <1>5, <2>3
      <4> HIDE DEF i, j
      <4> QED BY ONLY <4>1
    <3> QED BY <3>1, <3>2
  <2>5. ASSUME NEW i \in 2 .. Len(r) PROVE DataSeg(p, r[i])
    <3>1. CASE i <= Len(p.unacked)
      <4>1. i \in 2 .. Len(p.unacked) /\ i \in 1 .. Len(p.unacked)
        BY <2>3, <3>1
      <4> QED BY <1>5, <2>2, <4>1 DEF Led
    <3>2. CASE i > Len(p.unacked)
      <4> DEFINE j == i - Len(p.unacked)
      <4>1. j \in 1 .. Len(p.unsent) /\ Len(p.unacked) + j = i
        <5> DEFINE k == Len(p.unacked)
                   m == Len(p.unsent)
        <5>1. k \in Nat /\ m \in Nat /\ i > k /\ i \in 2 .. k + m
          BY <1>5, <2>3, <3>2
        <5> HIDE DEF k, m
        <5>2. i - k \in 1 .. m /\ k + (i - k) = i
          BY ONLY <5>1
        <5> QED BY <5>2 DEF k, m
      <4> HIDE DEF j
      <4> QED BY <1>5, <2>2, <4>1
    <3> QED BY <2>3, <3>1, <3>2
  <2>6. Led(p, r)
    BY <2>2, <2>4, <2>5 DEF Led
  <2>7. Led(b, r)
    BY <1>9, <2>6, LedSame
  <2> QED BY <1>9, <2>1, <2>7 DEF SynFirst, n
<1>13. b.unacked = <<>>
  BY <1>9 DEF n
<1>14. Sound(b)
  BY <1>9, <1>11, <1>12, <1>13 DEF Sound
<1> QED
  BY <1>9, <1>10, <1>13, <1>14 DEF Good, v

LEMMA RtoCommitGood == ASSUME NEW w, Good(w) PROVE Good(tcp_rexmit_rto_commit(w))
<1> DEFINE n == AtMost(w.p.nrtx + 1, 255)
           b == [w.p EXCEPT !.nrtx = n]
           v == [w EXCEPT !.p.nrtx = n]
<1>1. Fine(w) /\ w \in Work /\ w.p \in Block
  BY WorkBlock DEF Good, Fine
<1>2. n \in Int
  <2>1. w.p.nrtx \in Int
    BY <1>1 DEF Block
  <2> QED BY <2>1 DEF AtMost
<1>3. tcp_rexmit_rto_commit(w) = tcp_output(v)
  BY DEF tcp_rexmit_rto_commit
<1> HIDE DEF n
<1>4. Same(w.p, b)
  BY <1>1, <1>2 DEF Same, Block
<1>5. v = [w EXCEPT !.p = b]
  OBVIOUS
<1> HIDE DEF b, v
<1>6. Good(v)
  BY <1>1, <1>4, <1>5, PutSame, LightGood
<1> QED
  BY <1>3, <1>6, OutputSound DEF Good

LEMMA RexmitLive ==
    ASSUME NEW w, Live(w)
    PROVE  Live(tcp_rexmit(w)) /\ tcp_rexmit(w).p.state = w.p.state
<1> DEFINE p == w.p
           x == Head(p.unacked)
           t == Tail(p.unacked)
           r == InsertSeg(p.unsent, x)
           n == AtMost(p.nrtx + 1, 255)
           b == [p EXCEPT !.unacked = t, !.unsent = r, !.nrtx = n]
           v == [w EXCEPT !.p.unacked = t, !.p.unsent = r, !.p.nrtx = n]
<1>1. /\ Fine(w) /\ w \in Work /\ p \in Block
      /\ p.persist => p.unacked = <<>>
      /\ p.unacked # <<>> => p.rtime
      /\ Exact(p) /\ p.state \notin {"SYN_SENT", "TIME_WAIT"}
  BY LiveFacts DEF Fine
<1>2. /\ p.unsent \in Seq(Seg) /\ p.unacked \in Seq(Seg) /\ p.snd_buf \in Int /\ p.nrtx \in Int
  BY <1>1 DEF Block
<1>3. tcp_rexmit(w) = IF p.unacked = <<>> THEN w ELSE v
  BY Zenon DEF tcp_rexmit
<1>4. CASE p.unacked = <<>>
  BY <1>3, <1>4
<1>5. CASE p.unacked # <<>>
  <2>1. v = [w EXCEPT !.p = b]
    <3> HIDE DEF t, r, n
    <3> QED BY <1>1 DEF Work
  <2>2. /\ x \in Seg /\ t \in Seq(Seg) /\ Bytes(p.unacked) = Len(x.data) + Bytes(t)
        /\ Bytes(t) \in Nat /\ Len(x.data) \in Nat
    BY <1>2, <1>5, HeadTail
  <2> HIDE DEF p, x, t
  <2>3. r \in Seq(Seg) /\ Bytes(r) = Bytes(p.unsent) + Len(x.data)
    BY <1>2, <2>2, InsertBytes
  <2>4. n \in Int
    BY <1>2 DEF AtMost
  <2> HIDE DEF r, n
  <2>5. /\ b \in Block /\ b.state = p.state /\ b.unsent = r /\ b.unacked = t
        /\ b.snd_buf = p.snd_buf /\ b.rtime = p.rtime /\ b.persist = p.persist
    BY <1>1, <2>2, <2>3, <2>4 DEF Block
  <2> HIDE DEF b, v
  <2>6. Fine(v) /\ v.p = b
    BY <1>1, <2>1, <2>5, PutFine
  <2>7. Exact(b)
    <3>1. Bytes(p.unsent) \in Nat
      BY <1>2, BytesNat
    <3>2. p.snd_buf + Bytes(p.unacked) + Bytes(p.unsent) = TCP_SND_BUF
      BY <1>1 DEF Exact
    <3> QED BY <1>2, <2>2, <2>3, <2>5, <3>1, <3>2 DEF Exact
  <2> QED BY <1>1, <1>3, <1>5, <2>5, <2>6, <2>7, LiveFacts DEF p
<1> QED
  BY <1>4, <1>5

LEMMA HalfWindowType == ASSUME NEW b \in Block PROVE HalfWindow(b) \in Int
<1> DEFINE x == AtMost(b.cwnd, b.snd_wnd) \div 2
           y == 2 * TCP_MSS
           S == {x, y}
<1>1. x \in Int /\ y \in Int
  <2>1. b.cwnd \in Int /\ b.snd_wnd \in Int /\ TCP_MSS \in Int
    BY TcpOutAssumption DEF Block
  <2>2. AtMost(b.cwnd, b.snd_wnd) \in Int
    BY <2>1 DEF AtMost
  <2> QED BY <2>1, <2>2
<1>2. HalfWindow(b) = Max(S)
  BY Zenon DEF HalfWindow
<1> HIDE DEF x, y
<1>3. \E z \in S : \A u \in S : z >= u
  BY <1>1
<1>4. Max(S) \in S
  BY <1>3 DEF Max
<1> QED
  BY <1>1, <1>2, <1>4

LEMMA RexmitFastLive ==
    ASSUME NEW w, Live(w)
    PROVE  Live(tcp_rexmit_fast(w)) /\ tcp_rexmit_fast(w).p.state = w.p.state
<1> DEFINE u == tcp_rexmit(w)
           p == u.p
           h == HalfWindow(w.p)
           c == AtMost(h + 3 * TCP_MSS, WndSpace - 1)
           fl == p.flags \cup {"INFR"}
           y == TRUE
           b == [p EXCEPT !.ssthresh = h, !.cwnd = c, !.flags = fl, !.rtime = y]
           v == [u EXCEPT !.p.ssthresh = h, !.p.cwnd = c, !.p.flags = fl, !.p.rtime = y]
<1>1. w.p \in Block
  BY LiveFacts
<1>2. Live(u) /\ p.state = w.p.state
  BY RexmitLive
<1>3. /\ Fine(u) /\ u \in Work /\ p \in Block
      /\ p.persist => p.unacked = <<>>
      /\ Exact(p) /\ p.state \notin {"SYN_SENT", "TIME_WAIT"}
  BY <1>2, LiveFacts DEF Fine
<1>4. tcp_rexmit_fast(w) = IF w.p.unacked = <<>> \/ "INFR" \in w.p.flags THEN w ELSE v
  BY Zenon DEF tcp_rexmit_fast
<1>5. h \in Int /\ y \in BOOLEAN
  BY <1>1, HalfWindowType
<1> HIDE DEF u, h, y
<1>6. c \in Int
  <2>1. 3 * TCP_MSS \in Int /\ WndSpace - 1 \in Int
    BY TcpOutAssumption
  <2> QED BY <1>5, <2>1 DEF AtMost
<1>7. fl \in SUBSET Flags
  BY <1>3 DEF Flags, Block
<1> HIDE DEF c, fl
<1>8. v = [u EXCEPT !.p = b]
  BY <1>3 DEF Work
<1> HIDE DEF p
<1>9. /\ b \in Block /\ b.state = p.state /\ b.unsent = p.unsent /\ b.unacked = p.unacked
      /\ b.snd_buf = p.snd_buf /\ b.rtime = y /\ b.persist = p.persist
  BY <1>3, <1>5, <1>6, <1>7 DEF Block
<1> HIDE DEF b, v
<1>10. Fine(v) /\ v.p = b
  BY <1>3, <1>8, <1>9, PutFine
<1>11. Exact(b)
  BY <1>3, <1>9 DEF Exact
<1>12. Live(v) /\ v.p.state = w.p.state
  BY <1>2, <1>3, <1>9, <1>10, <1>11, LiveFacts DEF y
<1> QED
  BY <1>4, <1>12

LEMMA ProbeGood == ASSUME NEW w, Good(w) PROVE Good(tcp_zero_window_probe(w))
<1> DEFINE p == w.p
           h == Head(p.unsent)
           next == Plus(h.seqno, 1)
           k == p.persist_probe + 1
           a == [p EXCEPT !.persist_probe = k]
           w1 == [w EXCEPT !.p.persist_probe = k]
           s == Header(p, h.seqno, SubSeq(h.data, 1, AtMost(1, Len(h.data))), h.fin /\ h.data = <<>>)
           u == Emit(w1, s)
           v == Announce(u)
           n == IF TCP_SEQ_LT(v.p.snd_nxt, next) THEN next ELSE v.p.snd_nxt
           z == [v EXCEPT !.p.snd_nxt = n]
<1>1. Fine(w) /\ w \in Work /\ p \in Block
  BY WorkBlock DEF Good, Fine
<1>2. p.unsent \in Seq(Seg) /\ p.persist_probe \in Int
  BY <1>1 DEF Block
<1>3. tcp_zero_window_probe(w) = IF p.unsent = <<>> THEN w ELSE IF ~w.mem THEN w1 ELSE z
  BY Zenon DEF tcp_zero_window_probe
<1>4. w1 = [w EXCEPT !.p = a]
  OBVIOUS
<1>5. k \in Int
  BY <1>2
<1> HIDE DEF k, p, w1
<1>6. Same(p, a)
  BY <1>1, <1>5 DEF Same, Block
<1> HIDE DEF a
<1>7. Light(w, w1) /\ Good(w1)
  BY <1>1, <1>4, <1>6, PutSame, LightGood DEF p
<1>8. CASE p.unsent = <<>> \/ ~w.mem
  BY <1>3, <1>7, <1>8
<1>9. CASE p.unsent # <<>> /\ w.mem
  <2>1. h \in Seg
    BY <1>2, <1>9, HeadTail
  <2>2. /\ h.seqno \in Num /\ h.data \in Seq(Nat) /\ h.fin \in BOOLEAN /\ Len(h.data) \in Nat
        /\ Len(h.data) <= TCP_MSS
    BY <2>1, SegFacts
  <2> HIDE DEF h
  <2>3. next \in Num
    BY <2>2, NumPlus
  <2>4. 1 \in Int
    OBVIOUS
  <2>5. SubSeq(h.data, 1, AtMost(1, Len(h.data))) \in Data
    BY <2>2, <2>4, CutData
  <2>6. (h.fin /\ h.data = <<>>) \in BOOLEAN
    BY <2>2
  <2>7. s \in Wire
    BY <1>1, <2>2, <2>5, <2>6, HeaderWire
  <2> HIDE DEF s, next
  <2>8. Light(w1, u)
    BY <1>7, <2>7, EmitLight DEF Light
  <2> HIDE DEF u
  <2>9. Light(u, v)
    BY <2>8, AnnounceLight DEF Light
  <2> HIDE DEF v
  <2>10. Good(v)
    BY <1>7, <2>8, <2>9, LightGood
  <2>11. Fine(v) /\ v \in Work /\ v.p \in Block
    BY <2>10, WorkBlock DEF Good, Fine
  <2>12. n \in Num
    BY <2>3, <2>11 DEF Block
  <2> DEFINE c == [v.p EXCEPT !.snd_nxt = n]
  <2>13. z = [v EXCEPT !.p = c]
    OBVIOUS
  <2> HIDE DEF n, z
  <2>14. Same(v.p, c)
    BY <2>11, <2>12 DEF Same, Block
  <2> HIDE DEF c
  <2>15. Good(z)
    BY <2>10, <2>11, <2>13, <2>14, PutSame, LightGood
  <2> QED BY <1>3, <1>9, <2>15
<1> QED
  BY <1>8, <1>9

-----------------------------------------------------------------------------
(* tcp.c: the end of a connection, and the receive window.                 *)

LEMMA AllocBlock ==
    /\ tcp_alloc \in Block /\ tcp_alloc.state = "CLOSED" /\ tcp_alloc.unsent = <<>>
    /\ tcp_alloc.unacked = <<>> /\ tcp_alloc.snd_buf = TCP_SND_BUF
    /\ ~tcp_alloc.persist /\ ~tcp_alloc.rtime
<1>1. /\ 0 \in Num /\ 0 \in Nat /\ 0 \in Int /\ 1 \in Int /\ TRUE \in BOOLEAN /\ FALSE \in BOOLEAN
      /\ TCP_WND \in Nat /\ TCP_SND_BUF \in Int
  BY TcpOutAssumption DEF Num
<1>2. "CLOSED" \in States /\ {} \in SUBSET Flags
  BY DEF States
<1>3. <<>> \in Seq(Seg) /\ <<>> \in Seq(Nat)
  OBVIOUS
<1>4. NoData \in RefusedData
  BY <1>1, <1>3 DEF NoData, RefusedData
<1>5. tcp_alloc \in Block
  BY <1>1, <1>2, <1>3, <1>4, Zenon DEF tcp_alloc, Block
<1> QED
  BY <1>5 DEF tcp_alloc

LEMMA AllocSound == Sound(tcp_alloc)
<1>1. TCP_SND_BUF \in Int
  BY TcpOutAssumption
<1>2. Exact(tcp_alloc)
  BY <1>1, AllocBlock, BytesEmpty DEF Exact
<1> QED
  BY <1>2, AllocBlock DEF Sound

LEMMA AllocGood ==
    ASSUME NEW w, Fine(w)
    PROVE  Good([w EXCEPT !.p = tcp_alloc]) /\ [w EXCEPT !.p = tcp_alloc].p = tcp_alloc
  BY PutFine, AllocBlock, AllocSound DEF Good

\* The application, and the results of input processing, are replaced.
LEMMA PutApp ==
    ASSUME NEW w, Fine(w), NEW a \in App
    PROVE  Light(w, [w EXCEPT !.a = a]) /\ [w EXCEPT !.a = a].p = w.p
<1> DEFINE v == [w EXCEPT !.a = a]
<1>1. w \in Work /\ w.p \in Block
  BY WorkBlock DEF Fine
<1>2. v \in Work /\ v.p = w.p /\ v.asserts = w.asserts
  BY <1>1 DEF Work
<1> HIDE DEF v
<1>3. Light(w, v) /\ v.p = w.p
  BY <1>1, <1>2 DEF Light, Fine, Same
<1> QED
  BY <1>3 DEF v

LEMMA PutEvents ==
    ASSUME NEW w, Fine(w), NEW f \in SUBSET Events
    PROVE  Light(w, [w EXCEPT !.recv_flags = f]) /\ [w EXCEPT !.recv_flags = f].p = w.p
<1> DEFINE v == [w EXCEPT !.recv_flags = f]
<1>1. w \in Work /\ w.p \in Block
  BY WorkBlock DEF Fine
<1>2. v \in Work /\ v.p = w.p /\ v.asserts = w.asserts
  BY <1>1 DEF Work
<1> HIDE DEF v
<1>3. Light(w, v) /\ v.p = w.p
  BY <1>1, <1>2 DEF Light, Fine, Same
<1> QED
  BY <1>3 DEF v

LEMMA ErrLight ==
    ASSUME NEW w, Fine(w), NEW st, NEW err \in Errors
    PROVE  Light(w, TCP_EVENT_ERR(w, st, err))
<1> DEFINE a == [w.a EXCEPT !.err = err]
<1>1. w.a \in App
  BY DEF Fine, Work
<1>2. a \in App
  BY <1>1 DEF App
<1>3. TCP_EVENT_ERR(w, st, err) = IF st = "SYN_RCVD" THEN w ELSE [w EXCEPT !.a = a]
  BY DEF TCP_EVENT_ERR
<1> HIDE DEF a
<1> QED
  BY <1>2, <1>3, PutApp, LightRefl

LEMMA PurgeFine ==
    ASSUME NEW w, Fine(w)
    PROVE  /\ Fine(tcp_pcb_purge(w)) /\ tcp_pcb_purge(w).p.unacked = <<>>
           /\ tcp_pcb_purge(w).p.state = w.p.state
<1> DEFINE p == w.p
           n == <<>>
           d == NoData
           f == FALSE
           b == [p EXCEPT !.refused = d, !.unsent = n, !.unacked = n, !.ooseq = n, !.rtime = f]
           v == tcp_pcb_purge(w)
<1>1. w \in Work /\ p \in Block
  BY WorkBlock DEF Fine
<1>2. n \in Seq(Seg) /\ d \in RefusedData /\ f \in BOOLEAN
  BY DEF NoData, RefusedData
<1>3. v = [w EXCEPT !.p = b]
  <2>1. v = [w EXCEPT !.p.refused = d, !.p.unsent = n, !.p.unacked = n, !.p.ooseq = n,
                      !.p.rtime = f]
    BY Zenon DEF tcp_pcb_purge
  <2> HIDE DEF n, d, f, v
  <2> QED BY <1>1, <2>1 DEF Work
<1> HIDE DEF p, n, d, f, v
<1>4. b \in Block /\ b.unacked = n /\ b.state = p.state
  BY <1>1, <1>2 DEF Block
<1> HIDE DEF b
<1> QED
  BY <1>3, <1>4, PutFine DEF n, v, p

LEMMA RemoveGood ==
    ASSUME NEW w, Fine(w), NEW in
    PROVE  Good(tcp_pcb_remove(w, in)) /\ tcp_pcb_remove(w, in).p = tcp_alloc
<1> DEFINE w1 == tcp_pcb_purge(w)
           w2 == IF "ACK_DELAY" \in w.p.flags /\ w.p.state # "TIME_WAIT" /\ ~in
                 THEN tcp_output(tcp_ack_now(w1)) ELSE w1
<1>1. tcp_pcb_remove(w, in) = [w2 EXCEPT !.p = tcp_alloc]
  BY Zenon DEF tcp_pcb_remove
<1>2. Fine(w1)
  BY PurgeFine
<1> HIDE DEF w1
<1>3. Fine(tcp_ack_now(w1))
  BY <1>2, AckNowLight DEF Light
<1>4. Fine(tcp_output(tcp_ack_now(w1)))
  BY <1>3, OutputSound
<1>5. Fine(w2)
  BY <1>2, <1>4
<1> HIDE DEF w2
<1> QED
  BY <1>1, <1>5, AllocGood

LEMMA AbortGood == ASSUME NEW w, Fine(w), NEW in PROVE Good(tcp_abort(w, in))
<1> DEFINE u == tcp_pcb_remove(w, in)
           v == tcp_rst(u, w.p.snd_nxt, w.p.rcv_nxt)
<1>1. w.p.snd_nxt \in Num /\ w.p.rcv_nxt \in Num
  BY WorkBlock DEF Fine, Block
<1>2. "ABRT" \in Errors
  BY DEF Errors
<1>3. tcp_abort(w, in) = IF w.p.state = "TIME_WAIT" THEN u
                         ELSE TCP_EVENT_ERR(v, w.p.state, "ABRT")
  BY Zenon DEF tcp_abort
<1>4. Good(u) /\ Fine(u)
  BY RemoveGood DEF Good
<1> HIDE DEF u
<1>5. Light(u, v)
  BY <1>1, <1>4, RstLight
<1> HIDE DEF v
<1>6. Good(v) /\ Fine(v)
  BY <1>4, <1>5, LightGood DEF Good
<1>7. Good(TCP_EVENT_ERR(v, w.p.state, "ABRT"))
  BY <1>2, <1>6, ErrLight, LightGood
<1> QED
  BY <1>3, <1>4, <1>7

LEMMA UpdateAnnLight == ASSUME NEW w, Fine(w) PROVE Light(w, tcp_update_rcv_ann_wnd(w))
<1> DEFINE p == w.p
           n == IF WindowInflation(p) > 0 THEN p.rcv_wnd
                ELSE IF TCP_SEQ_GT(p.rcv_nxt, p.rcv_ann_right_edge) THEN 0
                ELSE (p.rcv_ann_right_edge - p.rcv_nxt) % SeqSpace
           b == [p EXCEPT !.rcv_ann_wnd = n]
           v == tcp_update_rcv_ann_wnd(w)
<1>1. w \in Work /\ p \in Block
  BY WorkBlock DEF Fine
<1>2. n \in Nat
  <2>1. p.rcv_wnd \in Nat /\ p.rcv_ann_right_edge \in Num /\ p.rcv_nxt \in Num
    BY <1>1 DEF Block
  <2>2. (p.rcv_ann_right_edge - p.rcv_nxt) % SeqSpace \in Nat
    BY <2>1, NumInt, TcpOutAssumption
  <2> QED BY <2>1, <2>2
<1>3. v = [w EXCEPT !.p = b]
  BY Zenon DEF tcp_update_rcv_ann_wnd
<1> HIDE DEF n, v, p
<1>4. Same(p, b)
  BY <1>1, <1>2 DEF Same, Block
<1> HIDE DEF b
<1> QED
  BY <1>3, <1>4, PutSame DEF p, v

LEMMA GiveBackLight == ASSUME NEW w, Fine(w) PROVE Light(w, GiveBackFin(w))
<1> DEFINE p == w.p
           n == IF p.rcv_wnd # TCP_WND THEN (p.rcv_wnd + 1) % WndSpace ELSE p.rcv_wnd
           y == TRUE
           b == [p EXCEPT !.rcv_wnd = n]
           a == [w.a EXCEPT !.eof = y]
           u == [w EXCEPT !.p = b]
           v == GiveBackFin(w)
<1>1. w \in Work /\ p \in Block /\ w.a \in App
  BY WorkBlock DEF Fine, Work
<1>2. n \in Nat
  <2>1. p.rcv_wnd \in Nat
    BY <1>1 DEF Block
  <2> QED BY <2>1, TcpOutAssumption
<1>3. v = [w EXCEPT !.p.rcv_wnd = n, !.a.eof = y]
  BY Zenon DEF GiveBackFin
<1>4. a \in App
  <2>1. y \in BOOLEAN
    OBVIOUS
  <2> HIDE DEF y
  <2> QED BY <1>1, <2>1 DEF App
<1> HIDE DEF n, v, y
<1>5. v = [u EXCEPT !.a = a]
  BY <1>1, <1>3 DEF Work
<1> HIDE DEF p
<1>6. Same(p, b)
  BY <1>1, <1>2 DEF Same, Block
<1> HIDE DEF b, a
<1>7. Light(w, u)
  BY <1>6, PutSame DEF p
<1> HIDE DEF u
<1>8. Light(u, v)
  BY <1>4, <1>5, <1>7, PutApp DEF Light
<1> QED
  BY <1>7, <1>8, LightTrans DEF v

LEMMA DeliverLight ==
    ASSUME NEW w, Fine(w), NEW d \in Seq(Nat) PROVE Light(w, Deliver(w, d))
<1> DEFINE x == w.a.rx \o d
           n == w.a.unread + Len(d)
           a == [w.a EXCEPT !.rx = x, !.unread = n]
<1>1. w \in Work /\ w.a \in App
  BY DEF Fine, Work
<1>2. x \in Seq(Nat) /\ n \in Int
  BY <1>1 DEF App
<1>3. Deliver(w, d) = [w EXCEPT !.a.rx = x, !.a.unread = n]
  BY Zenon DEF Deliver
<1> HIDE DEF x, n
<1>4. a \in App
  BY <1>1, <1>2 DEF App
<1>5. Deliver(w, d) = [w EXCEPT !.a = a]
  BY <1>1, <1>3 DEF Work
<1> HIDE DEF a
<1> QED
  BY <1>4, <1>5, PutApp

LEMMA PutRefused ==
    ASSUME NEW w, Fine(w), NEW d \in RefusedData PROVE Light(w, [w EXCEPT !.p.refused = d])
<1> DEFINE p == w.p
           b == [p EXCEPT !.refused = d]
<1>1. w \in Work /\ p \in Block
  BY WorkBlock DEF Fine
<1>2. [w EXCEPT !.p.refused = d] = [w EXCEPT !.p = b]
  OBVIOUS
<1> HIDE DEF p
<1>3. Same(p, b)
  BY <1>1 DEF Same, Block
<1> HIDE DEF b
<1> QED
  BY <1>2, <1>3, PutSame DEF p

LEMMA RefusedLight ==
    ASSUME NEW w, Fine(w), NEW refuse PROVE Light(w, tcp_process_refused_data(w, refuse))
<1> DEFINE d == w.p.refused.data
           u == [w EXCEPT !.p.refused = NoData]
           w1 == Deliver(u, d)
<1>1. w.p.refused \in RefusedData
  BY WorkBlock DEF Fine, Block
<1>2. d \in Seq(Nat)
  BY <1>1 DEF RefusedData
<1>3. NoData \in RefusedData
  BY DEF NoData, RefusedData
<1>4. tcp_process_refused_data(w, refuse) =
        IF w.p.refused = NoData \/ refuse THEN w
        ELSE IF w.p.refused.fin THEN GiveBackFin(w1) ELSE w1
  BY Zenon DEF tcp_process_refused_data
<1>5. Light(w, u)
  BY <1>3, PutRefused
<1> HIDE DEF u, d
<1>6. Light(u, w1)
  BY <1>2, <1>5, DeliverLight DEF Light
<1> HIDE DEF w1
<1>7. Light(w, w1)
  BY <1>5, <1>6, LightTrans
<1>8. Light(w1, GiveBackFin(w1))
  BY <1>7, GiveBackLight DEF Light
<1>9. Light(w, GiveBackFin(w1))
  BY <1>7, <1>8, LightTrans
<1> QED
  BY <1>4, <1>7, <1>9, LightRefl

-----------------------------------------------------------------------------
(* tcp_in.c: acknowledgements.                                             *)

LEMMA WireFacts ==
    ASSUME NEW s \in Wire
    PROVE  /\ s.seqno \in Num /\ s.ackno \in Num /\ s.wnd \in Nat
           /\ s.data \in Seq(Nat) /\ s.data \in Data /\ Len(s.data) <= TCP_MSS
           /\ Len(s.data) \in Nat
           /\ s.syn \in BOOLEAN /\ s.fin \in BOOLEAN /\ s.rst \in BOOLEAN /\ s.ack \in BOOLEAN
           /\ TCP_TCPLEN(s) \in Nat /\ SegEnd(s) \in Num
<1>1. /\ s.seqno \in Num /\ s.ackno \in Num /\ s.wnd \in Nat /\ s.data \in Data
      /\ s.syn \in BOOLEAN /\ s.fin \in BOOLEAN /\ s.rst \in BOOLEAN /\ s.ack \in BOOLEAN
  BY DEF Wire
<1>2. s.data \in Seq(Nat) /\ Len(s.data) <= TCP_MSS /\ Len(s.data) \in Nat
  BY <1>1 DEF Data
<1>3. TCP_TCPLEN(s) \in Nat
  BY <1>1, <1>2, TcplenType
<1>4. SegEnd(s) \in Num
  <2>1. TCP_TCPLEN(s) \in Int
    BY <1>3
  <2> QED BY <1>1, <2>1, NumPlus DEF SegEnd
<1> QED
  BY <1>1, <1>2, <1>3, <1>4

LEMMA UpdateWindowLight ==
    ASSUME NEW w, Fine(w), NEW s \in Wire PROVE Light(w, UpdateWindow(w, s))
<1> DEFINE p == w.p
           i == s.wnd
           j == s.seqno
           k == s.ackno
           b == [p EXCEPT !.snd_wnd = i, !.snd_wl1 = j, !.snd_wl2 = k]
           v == [w EXCEPT !.p.snd_wnd = i, !.p.snd_wl1 = j, !.p.snd_wl2 = k]
<1>1. w \in Work /\ p \in Block
  BY WorkBlock DEF Fine
<1>2. i \in Nat /\ j \in Num /\ k \in Num
  BY WireFacts
<1>3. UpdateWindow(w, s) = v \/ UpdateWindow(w, s) = w
  BY Zenon DEF UpdateWindow
<1> HIDE DEF i, j, k
<1>4. v = [w EXCEPT !.p = b]
  BY <1>1 DEF Work
<1> HIDE DEF p
<1>5. Same(p, b)
  BY <1>1, <1>2 DEF Same, Block
<1> HIDE DEF b, v
<1>6. Light(w, v)
  BY <1>4, <1>5, PutSame DEF p
<1> QED
  BY <1>3, <1>6, LightRefl

LEMMA IncType == ASSUME NEW a \in Int, NEW n \in Int PROVE TCP_WND_INC(a, n) \in Int
<1>1. WndSpace - 1 \in Int
  BY TcpOutAssumption
<1> QED
  BY <1>1 DEF TCP_WND_INC, AtMost

LEMMA DuplicateAckLive ==
    ASSUME NEW w, Live(w), NEW s, NEW old
    PROVE  Live(DuplicateAck(w, s, old))
<1> DEFINE p == w.p
           dup == /\ TCP_TCPLEN(s) = 0
                  /\ Plus(p.snd_wl2, p.snd_wnd) = Plus(old.snd_wl2, old.snd_wnd)
                  /\ p.rtime /\ p.lastack = s.ackno
           n == AtMost(p.dupacks + 1, 4)
           c == IF p.dupacks >= 3 THEN TCP_WND_INC(p.cwnd, TCP_MSS) ELSE p.cwnd
           z == 0
           a == [p EXCEPT !.dupacks = n, !.cwnd = c]
           b == [p EXCEPT !.dupacks = z]
           w1 == [w EXCEPT !.p.dupacks = n, !.p.cwnd = c]
           w2 == [w EXCEPT !.p.dupacks = z]
<1>1. Fine(w) /\ w \in Work /\ p \in Block
  BY LiveFacts DEF Fine
<1>2. p.dupacks \in Int /\ p.cwnd \in Int /\ TCP_MSS \in Int
  BY <1>1, TcpOutAssumption DEF Block
<1>3. DuplicateAck(w, s, old) = IF ~dup THEN w2
                                ELSE IF w1.p.dupacks >= 3 THEN tcp_rexmit_fast(w1) ELSE w1
  BY Zenon DEF DuplicateAck
<1>4. n \in Int /\ z \in Int
  BY <1>2 DEF AtMost
<1>5. c \in Int
  BY <1>2, IncType
<1> HIDE DEF n, c, z, dup
<1>6. w1 = [w EXCEPT !.p = a] /\ w2 = [w EXCEPT !.p = b]
  BY <1>1 DEF Work
<1> HIDE DEF p
<1>7. Same(p, a) /\ Same(p, b)
  BY <1>1, <1>4, <1>5 DEF Same, Block
<1> HIDE DEF a, b, w1, w2
<1>8. Live(w1) /\ Live(w2)
  BY <1>1, <1>6, <1>7, PutSame, LightLive DEF p
<1> QED
  BY <1>3, <1>8, RexmitFastLive

LEMMA CongestionSame ==
    ASSUME NEW p \in Block, NEW n \in Int PROVE Same(p, Congestion(p, n))
<1> DEFINE t == p.ssthresh
           z == 0
           d == [p EXCEPT !.cwnd = t, !.bytes_acked = z]
           q == IF "INFR" \in p.flags THEN d ELSE p
           m == IF "RTO" \in p.flags THEN 1 ELSE 2
           sum == TCP_WND_INC(q.bytes_acked, n)
           i == TCP_WND_INC(q.cwnd, AtMost(n, m * TCP_MSS))
           j == sum - q.cwnd
           k == TCP_WND_INC(q.cwnd, TCP_MSS)
           a == [q EXCEPT !.cwnd = i]
           b == [q EXCEPT !.bytes_acked = j, !.cwnd = k]
           c == [q EXCEPT !.bytes_acked = sum]
<1>1. Congestion(p, n) = IF q.cwnd < q.ssthresh THEN a ELSE IF sum >= q.cwnd THEN b ELSE c
  BY Zenon DEF Congestion
<1>2. t \in Int /\ z \in Int
  BY DEF Block
<1> HIDE DEF t, z
<1>3. Same(p, d) /\ Same(p, p)
  BY <1>2 DEF Same, Block
<1> HIDE DEF d
<1>4. Same(p, q) /\ q \in Block
  BY <1>3 DEF Same
<1> HIDE DEF q
<1>5. q.bytes_acked \in Int /\ q.cwnd \in Int /\ TCP_MSS \in Int
  BY <1>4, TcpOutAssumption DEF Block
<1>6. sum \in Int /\ k \in Int
  BY <1>5, IncType
<1>7. AtMost(n, m * TCP_MSS) \in Int
  BY <1>5 DEF AtMost
<1>8. i \in Int
  BY <1>5, <1>7, IncType
<1>9. j \in Int
  <2> HIDE DEF sum
  <2> QED BY <1>5, <1>6
<1> HIDE DEF i, j, k, sum
<1>10. Same(q, a) /\ Same(q, b) /\ Same(q, c)
  BY <1>4, <1>6, <1>8, <1>9 DEF Same, Block
<1> HIDE DEF a, b, c
<1>11. Same(p, a) /\ Same(p, b) /\ Same(p, c)
  BY <1>4, <1>10 DEF Same
<1> QED
  BY <1>1, <1>11

\* What an acknowledgement takes from a queue, and what it leaves.
LEMMA AckedRun ==
    ASSUME NEW q \in Seq(Seg), NEW n, NEW k,
           k = Max({i \in 0 .. Len(q) : \A j \in 1 .. i : TCP_SEQ_LEQ(SegEnd(q[j]), n)})
    PROVE  /\ k \in 0 .. Len(q)
           /\ SubSeq(q, 1, k) \in Seq(Seg) /\ Skip(q, k) \in Seq(Seg)
           /\ Bytes(SubSeq(q, 1, k)) + Bytes(Skip(q, k)) = Bytes(q)
           /\ Bytes(SubSeq(q, 1, k)) \in Nat /\ Bytes(Skip(q, k)) \in Nat
           /\ q = <<>> => Skip(q, k) = <<>>
<1> DEFINE S == {i \in 0 .. Len(q) : \A j \in 1 .. i : TCP_SEQ_LEQ(SegEnd(q[j]), n)}
<1>1. Len(q) \in Nat
  OBVIOUS
<1>2. 0 \in S /\ S \subseteq 0 .. Len(q) /\ k = Max(S)
  BY <1>1
<1> HIDE DEF S
<1>3. k \in 0 .. Len(q)
  BY <1>1, <1>2, RunIn
<1>4. /\ SubSeq(q, 1, k) \in Seq(Seg) /\ Skip(q, k) \in Seq(Seg)
      /\ Bytes(SubSeq(q, 1, k)) + Bytes(Skip(q, k)) = Bytes(q)
      /\ Bytes(SubSeq(q, 1, k)) \in Nat /\ Bytes(Skip(q, k)) \in Nat
  BY <1>3, PartsBytes
<1>5. ASSUME q = <<>> PROVE Skip(q, k) = <<>>
  <2>1. Len(q) = 0 /\ k = 0
    BY <1>3, <1>5
  <2>2. Len(Skip(q, k)) = Len(q) - k
    BY <1>3, Parts
  <2>3. Len(Skip(q, k)) = 0
    BY <2>1, <2>2
  <2> QED BY <1>4, <2>3
<1> QED
  BY <1>3, <1>4, <1>5

LEMMA NewAckLive ==
    ASSUME NEW w, Live(w), NEW s \in Wire
    PROVE  Live(NewAck(w, s)) /\ NewAck(w, s).p.state = w.p.state
<1> DEFINE p == Congestion(w.p, (s.ackno - w.p.lastack) % SeqSpace)
           k == Max({i \in 0 .. Len(p.unacked) :
                       \A j \in 1 .. i : TCP_SEQ_LEQ(SegEnd(p.unacked[j]), s.ackno)})
           m == Max({i \in 0 .. Len(p.unsent) :
                       \A j \in 1 .. i : TCP_SEQ_LEQ(SegEnd(p.unsent[j]), s.ackno)})
           una == Skip(p.unacked, k)
           uns == Skip(p.unsent, m)
           x == SubSeq(p.unacked, 1, k)
           y == SubSeq(p.unsent, 1, m)
           n == Freed(x \o y)
           over == CASE una # <<>> -> TCP_SEQ_LEQ(p.rto_end, Head(una).seqno)
                     [] una = <<>> /\ uns # <<>> -> TCP_SEQ_LEQ(p.rto_end, Head(uns).seqno)
                     [] OTHER -> TRUE
           l == s.ackno
           z == 0
           rt == una # <<>>
           buf == p.snd_buf + n
           fl == p.flags \ ({"INFR"} \cup (IF over THEN {"RTO"} ELSE {}))
           b == [p EXCEPT !.lastack = l, !.dupacks = z, !.nrtx = z, !.unacked = una,
                          !.unsent = uns, !.rtime = rt, !.snd_buf = buf, !.flags = fl]
           ra == w.recv_acked + n
           v == [w EXCEPT !.p = b, !.recv_acked = ra]
<1>1. /\ Fine(w) /\ w \in Work /\ w.p \in Block
      /\ w.p.persist => w.p.unacked = <<>>
      /\ Exact(w.p) /\ w.p.state \notin {"SYN_SENT", "TIME_WAIT"}
  BY LiveFacts DEF Fine
<1>2. NewAck(w, s) = v
  BY Zenon DEF NewAck, HeadRun
<1>3. Same(w.p, p) /\ p \in Block
  <2>1. (s.ackno - w.p.lastack) % SeqSpace \in Int
    <3>1. s.ackno \in Int /\ w.p.lastack \in Int
      BY <1>1, WireFacts, NumInt DEF Block
    <3> QED BY <3>1, TcpOutAssumption
  <2>2. Same(w.p, p)
    BY <1>1, <2>1, CongestionSame
  <2> QED BY <2>2 DEF Same
<1> HIDE DEF p
<1>4. /\ p.persist => p.unacked = <<>>
      /\ Exact(p) /\ p.state \notin {"SYN_SENT", "TIME_WAIT"} /\ p.state = w.p.state
  BY <1>1, <1>3 DEF Same, Exact
<1>5. p.unacked \in Seq(Seg) /\ p.unsent \in Seq(Seg) /\ p.snd_buf \in Int
      /\ p.flags \in SUBSET Flags
  BY <1>3 DEF Block
<1>6. /\ x \in Seq(Seg) /\ una \in Seq(Seg) /\ Bytes(x) + Bytes(una) = Bytes(p.unacked)
      /\ Bytes(x) \in Nat /\ Bytes(una) \in Nat /\ (p.unacked = <<>> => una = <<>>)
  BY <1>5, AckedRun
<1>7. /\ y \in Seq(Seg) /\ uns \in Seq(Seg) /\ Bytes(y) + Bytes(uns) = Bytes(p.unsent)
      /\ Bytes(y) \in Nat /\ Bytes(uns) \in Nat
  BY <1>5, AckedRun
<1> HIDE DEF k, m, una, uns, x, y
<1>8. n = Bytes(x) + Bytes(y)
  <2>1. Bytes(x \o y) = Bytes(x) + Bytes(y)
    BY ONLY <1>6, <1>7, BytesConcat
  <2> QED BY <2>1 DEF Freed, Bytes
<1> HIDE DEF n
<1>9. n \in Nat /\ ra \in Int /\ buf \in Int
  <2>1. w.recv_acked \in Int
    BY <1>1 DEF Work
  <2>2. n \in Nat
    BY <1>6, <1>7, <1>8
  <2>3. p.snd_buf \in Int
    BY <1>5
  <2> QED BY <2>1, <2>2, <2>3
<1>10. l \in Num /\ z \in Int /\ rt \in BOOLEAN /\ fl \in SUBSET Flags
  BY <1>5, WireFacts
<1>11. rt => una # <<>>
  OBVIOUS
<1>12. una # <<>> => rt
  OBVIOUS
<1> HIDE DEF l, z, rt, fl, buf, ra, over
<1>13. /\ b \in Block /\ b.state = p.state /\ b.unsent = uns /\ b.unacked = una
       /\ b.snd_buf = buf /\ b.rtime = rt /\ b.persist = p.persist
  <2> DEFINE c == [p EXCEPT !.lastack = l, !.dupacks = z, !.nrtx = z, !.unacked = una]
             d == [c EXCEPT !.unsent = uns, !.rtime = rt, !.snd_buf = buf, !.flags = fl]
  <2>1. c \in Block /\ c.state = p.state /\ c.unacked = una /\ c.persist = p.persist
    BY <1>3, <1>6, <1>10 DEF Block
  <2>2. b = d
    BY Zenon
  <2> HIDE DEF c
  <2>3. /\ d \in Block /\ d.state = p.state /\ d.unsent = uns /\ d.unacked = una
        /\ d.snd_buf = buf /\ d.rtime = rt /\ d.persist = p.persist
    BY <1>7, <1>9, <1>10, <2>1 DEF Block
  <2> HIDE DEF d, b
  <2> QED BY <2>2, <2>3
<1> HIDE DEF b
<1>14. v \in Work /\ v.p = b /\ v.asserts = w.asserts
  BY <1>1, <1>9, <1>13 DEF Work
<1> HIDE DEF v
<1>15. Fine(v) /\ v.p \in Block
  BY <1>1, <1>13, <1>14 DEF Fine
<1>16. Exact(b)
  <2>1. p.snd_buf + Bytes(p.unacked) + Bytes(p.unsent) = TCP_SND_BUF
    BY <1>4 DEF Exact
  <2>2. buf + Bytes(una) + Bytes(uns) = TCP_SND_BUF
    BY <1>5, <1>6, <1>7, <1>8, <2>1 DEF buf
  <2> QED BY <1>13, <2>2 DEF Exact
<1>17. /\ b.persist => b.unacked = <<>>
       /\ b.unacked # <<>> => b.rtime
       /\ b.state \notin {"SYN_SENT", "TIME_WAIT"}
  BY <1>4, <1>6, <1>12, <1>13
<1>18. Live(v)
  BY <1>14, <1>15, <1>16, <1>17, LiveFacts
<1> QED
  BY <1>2, <1>4, <1>13, <1>14, <1>18

LEMMA ReceiveAckLive ==
    ASSUME NEW w, Live(w), NEW s \in Wire
    PROVE  Live(ReceiveAck(w, s))
<1> DEFINE w1 == UpdateWindow(w, s)
           old == TCP_SEQ_LEQ(s.ackno, w.p.lastack)
<1>1. Light(w, w1)
  BY UpdateWindowLight DEF Live, Good
<1>2. ReceiveAck(w, s) = CASE old -> DuplicateAck(w1, s, w.p)
          [] ~old /\ TCP_SEQ_BETWEEN(s.ackno, Plus(w.p.lastack, 1), w.p.snd_nxt) ->
                NewAck(w1, s)
          [] OTHER -> tcp_send_empty_ack(w1)
  BY Zenon DEF ReceiveAck
<1> HIDE DEF w1
<1>3. Live(w1)
  BY <1>1, LightLive
<1>4. Live(DuplicateAck(w1, s, w.p)) /\ Live(NewAck(w1, s))
  BY <1>3, DuplicateAckLive, NewAckLive
<1>5. Light(w1, tcp_send_empty_ack(w1))
  BY <1>3, EmptyAckLight DEF Live, Good
<1>6. Live(tcp_send_empty_ack(w1))
  BY <1>3, <1>5, LightLive
<1> QED
  BY <1>2, <1>4, <1>6

-----------------------------------------------------------------------------
(* tcp_in.c: data.                                                         *)

LEMMA DiffType == ASSUME NEW a \in Num, NEW b \in Num PROVE SeqDiff(a, b) \in Int
<1> DEFINE d == (a - b) % SeqSpace
<1>1. a \in Int /\ b \in Int /\ SeqSpace \in Nat \ {0}
  BY NumInt, TcpOutAssumption
<1>2. d \in Int
  BY <1>1
<1> HIDE DEF d
<1>3. SeqDiff(a, b) = IF d < SeqSpace \div 2 THEN d ELSE d - SeqSpace
  BY DEF SeqDiff, d
<1> QED
  BY <1>1, <1>2, <1>3

LEMMA TrimSeg ==
    ASSUME NEW x \in Seg, NEW n \in Int PROVE TrimRight(x, n) \in Seg
<1> DEFINE d == SubSeq(x.data, 1, AtMost(n, Len(x.data)))
<1>1. d \in Data
  BY SegFacts, CutData
<1>2. TrimRight(x, n) = [x EXCEPT !.data = d]
  BY DEF TrimRight
<1> HIDE DEF d
<1> QED
  BY <1>1, <1>2 DEF Seg

LEMMA TrimWire ==
    ASSUME NEW s \in Wire, NEW n \in Int
    PROVE  /\ TrimRight(s, n) \in Wire
           /\ n >= 0 => TrimLeft(s, n) \in Wire
<1> DEFINE d == SubSeq(s.data, 1, AtMost(n, Len(s.data)))
           e == Skip(s.data, n)
           m == Plus(s.seqno, n)
<1>1. d \in Data /\ (n >= 0 => e \in Data)
  BY WireFacts, CutData
<1>2. m \in Num
  BY WireFacts, NumPlus
<1>3. TrimRight(s, n) = [s EXCEPT !.data = d] /\ TrimLeft(s, n) = [s EXCEPT !.seqno = m, !.data = e]
  BY DEF TrimRight, TrimLeft
<1> HIDE DEF d, e, m
<1> QED
  BY <1>1, <1>2, <1>3 DEF Wire

LEMMA RunType ==
    ASSUME NEW q \in Seq(Seg), NEW S, S \subseteq 0 .. Len(q), 0 \in S
    PROVE  Max(S) \in 0 .. Len(q) /\ Max(S) \in S
<1>1. Len(q) \in Nat
  OBVIOUS
<1> QED
  BY <1>1, RunIn

LEMMA OneMore == ASSUME NEW x \in Seg, NEW q \in Seq(Seg) PROVE <<x>> \o q \in Seq(Seg)
<1> DEFINE o == <<x>>
<1>1. o \in Seq(Seg)
  OBVIOUS
<1> HIDE DEF o
<1>2. o \o q \in Seq(Seg)
  BY ONLY <1>1, q \in Seq(Seg), BytesConcat
<1> QED
  BY <1>2 DEF o

LEMMA OosInsertType ==
    ASSUME NEW c \in Seg, NEW next \in Seq(Seg)
    PROVE  tcp_oos_insert_segment(c, next) \in Seq(Seg)
<1> DEFINE S == {i \in 0 .. Len(next) :
                   \A j \in 1 .. i : TCP_SEQ_GEQ(DataEnd(c), DataEnd(next[j]))}
           k == Max(S)
           f == \E i \in 1 .. k : next[i].fin
           c1 == [c EXCEPT !.fin = f]
           rest == Skip(next, k)
           n == SeqDiff(rest[1].seqno, c.seqno)
           c2 == IF rest # <<>> /\ TCP_SEQ_GT(DataEnd(c), rest[1].seqno)
                 THEN TrimRight(c1, n) ELSE c1
<1>1. tcp_oos_insert_segment(c, next) = IF c.fin THEN <<c>> ELSE <<c2>> \o rest
  BY Zenon DEF tcp_oos_insert_segment, HeadRun
<1>2. 0 \in S /\ S \subseteq 0 .. Len(next)
  OBVIOUS
<1> HIDE DEF S
<1>3. k \in 0 .. Len(next)
  BY <1>2, RunType
<1> HIDE DEF k
<1>4. rest \in Seq(Seg)
  BY <1>3, Parts
<1> HIDE DEF rest
<1>5. f \in BOOLEAN
  OBVIOUS
<1> HIDE DEF f
<1>6. c1 \in Seg
  BY <1>5 DEF Seg
<1> HIDE DEF c1
<1>7. rest # <<>> => n \in Int
  <2>1. rest # <<>> => rest[1] \in Seg
    BY <1>4
  <2> QED BY <2>1, SegFacts, DiffType
<1> HIDE DEF n
<1>8. c2 \in Seg
  BY <1>6, <1>7, TrimSeg
<1> HIDE DEF c2
<1>9. <<c2>> \o rest \in Seq(Seg)
  BY <1>4, <1>8, OneMore
<1>10. <<c>> \in Seq(Seg)
  OBVIOUS
<1> QED
  BY <1>1, <1>9, <1>10

LEMMA OoseqType ==
    ASSUME NEW p \in Block, NEW s \in Wire
    PROVE  OoseqInsert(p, s) \in Seq(Seg)
<1> DEFINE q == p.ooseq
           c == [seqno |-> s.seqno, data |-> s.data, syn |-> s.syn, fin |-> s.fin]
           S == {i \in 0 .. Len(q) : \A j \in 1 .. i : TCP_SEQ_LT(q[j].seqno, s.seqno)}
           k == Max(S)
           prev == q[k]
           cut == IF TCP_SEQ_GT(DataEnd(prev), s.seqno)
                  THEN TrimRight(prev, SeqDiff(s.seqno, prev.seqno)) ELSE prev
           room == SeqDiff(Plus(p.rcv_nxt, p.rcv_wnd), s.seqno)
           c0 == [c EXCEPT !.fin = FALSE]
           last == IF TCP_TCPLEN(c) > room THEN TrimRight(c0, room) ELSE c
           r1 == IF Len(c.data) > Len(q[k + 1].data)
                 THEN SubSeq(q, 1, k) \o tcp_oos_insert_segment(c, Skip(q, k)) ELSE q
           r2 == tcp_oos_insert_segment(c, q)
           r3 == SubSeq(q, 1, k - 1) \o <<cut>> \o tcp_oos_insert_segment(c, Skip(q, k))
           r4 == IF prev.fin THEN q ELSE SubSeq(q, 1, k - 1) \o <<cut, last>>
           same == k < Len(q) /\ q[k + 1].seqno = s.seqno
<1>1. OoseqInsert(p, s) =
        CASE q = <<>> -> <<c>>
          [] same -> r1
          [] q # <<>> /\ ~same /\ k = 0 -> r2
          [] ~same /\ k \in 1 .. Len(q) - 1 -> r3
          [] OTHER -> r4
  BY Zenon DEF OoseqInsert, HeadRun
<1>2. q \in Seq(Seg) /\ p.rcv_nxt \in Num /\ p.rcv_wnd \in Int
  BY DEF Block
<1>3. c \in Seg
  BY WireFacts DEF Seg
<1>4. c0 \in Seg
  <2>1. FALSE \in BOOLEAN
    OBVIOUS
  <2> HIDE DEF c
  <2> QED BY <1>3, <2>1 DEF Seg
<1>5. room \in Int
  BY <1>2, WireFacts, NumPlus, DiffType
<1> HIDE DEF q, c0, room, c
<1>6. last \in Seg
  BY <1>3, <1>4, <1>5, TrimSeg
<1> HIDE DEF last
<1>7. 0 \in S /\ S \subseteq 0 .. Len(q)
  BY <1>2
<1> HIDE DEF S
<1>8. k \in 0 .. Len(q)
  BY <1>2, <1>7, RunType
<1> HIDE DEF k
<1>9. Skip(q, k) \in Seq(Seg) /\ SubSeq(q, 1, k) \in Seq(Seg) /\ <<c>> \in Seq(Seg)
  BY <1>2, <1>3, <1>8, Parts
<1>10. r1 \in Seq(Seg) /\ r2 \in Seq(Seg)
  <2> DEFINE x == SubSeq(q, 1, k)
             y == tcp_oos_insert_segment(c, Skip(q, k))
  <2>1. x \in Seq(Seg) /\ y \in Seq(Seg)
    BY <1>3, <1>9, OosInsertType
  <2> HIDE DEF x, y
  <2>2. x \o y \in Seq(Seg)
    BY ONLY <2>1, BytesConcat
  <2>3. r1 = x \o y \/ r1 = q
    BY Zenon DEF x, y
  <2> HIDE DEF r1
  <2> QED BY <1>2, <1>3, <2>2, <2>3, OosInsertType
<1>11. ASSUME k # 0 PROVE r3 \in Seq(Seg) /\ r4 \in Seq(Seg)
  <2>1. k \in 1 .. Len(q) /\ k - 1 \in 0 .. Len(q)
    BY <1>2, <1>8, <1>11
  <2>2. prev \in Seg
    BY <1>2, <2>1
  <2> HIDE DEF prev
  <2>3. SeqDiff(s.seqno, prev.seqno) \in Int
    BY <2>2, SegFacts, WireFacts, DiffType
  <2>4. cut \in Seg
    BY <2>2, <2>3, TrimSeg
  <2> HIDE DEF cut
  <2> DEFINE x == SubSeq(q, 1, k - 1)
             y == tcp_oos_insert_segment(c, Skip(q, k))
             o == <<cut>>
             u == <<cut, last>>
  <2>5. x \in Seq(Seg) /\ y \in Seq(Seg) /\ o \in Seq(Seg) /\ u \in Seq(Seg)
    BY <1>2, <1>3, <1>6, <1>9, <2>1, <2>4, Parts, OosInsertType
  <2>6. r3 = (x \o o) \o y /\ (r4 = q \/ r4 = x \o u)
    BY Zenon
  <2> HIDE DEF x, y, o, u, r3, r4
  <2>7. x \o o \in Seq(Seg) /\ x \o u \in Seq(Seg)
    BY ONLY <2>5, BytesConcat
  <2>8. (x \o o) \o y \in Seq(Seg)
    BY ONLY <2>5, <2>7, BytesConcat
  <2> QED BY <1>2, <2>6, <2>7, <2>8
<1>12. CASE q = <<>>
  <2>1. ~same /\ ~(k \in 1 .. Len(q) - 1)
    BY <1>8, <1>12
  <2> HIDE DEF r1, r2, r3, r4, same
  <2> QED BY <1>1, <1>9, <1>12, <2>1
<1>13. CASE q # <<>> /\ same
  <2> HIDE DEF r1, r2, r3, r4, same
  <2> QED BY <1>1, <1>10, <1>13
<1>14. CASE q # <<>> /\ ~same /\ k = 0
  <2>1. ~(k \in 1 .. Len(q) - 1)
    BY <1>14
  <2> HIDE DEF r1, r2, r3, r4, same
  <2> QED BY <1>1, <1>10, <1>14, <2>1
<1>15. CASE q # <<>> /\ ~same /\ k # 0
  <2> HIDE DEF r1, r2, r3, r4, same
  <2> QED BY <1>1, <1>11, <1>15
<1> QED
  BY <1>12, <1>13, <1>14, <1>15

LEMMA AssertLight ==
    ASSUME NEW w, Fine(w), NEW a \in Asserts \ {"persist in-flight"}, NEW holds
    PROVE  Light(w, Assert2(w, a, holds))
<1> DEFINE c == w.asserts \cup {a}
           v == [w EXCEPT !.asserts = c]
<1>1. w \in Work /\ w.p \in Block /\ w.asserts \in SUBSET Asserts
      /\ "persist in-flight" \notin w.asserts
  BY WorkBlock DEF Fine, Work
<1>2. c \in SUBSET Asserts /\ "persist in-flight" \notin c
  BY <1>1
<1>3. Assert2(w, a, holds) = IF holds THEN w ELSE v
  BY DEF Assert2
<1> HIDE DEF c
<1>4. v \in Work /\ v.p = w.p /\ v.asserts = c
  BY <1>1, <1>2 DEF Work
<1> HIDE DEF v
<1>5. Light(w, v)
  BY <1>1, <1>2, <1>4 DEF Light, Fine, Same
<1> QED
  BY <1>3, <1>5, LightRefl

LEMMA AdvanceLive ==
    ASSUME NEW w, Live(w), NEW s \in Wire, NEW pull \in Seq(Seg), NEW later \in Seq(Seg)
    PROVE  Live(Advance(w, s, pull, later))
<1> DEFINE p == w.p
           len == TCP_TCPLEN(s) + QueuedLen(pull)
           fin == \E i \in 1 .. Len(pull) : pull[i].fin
           i == Plus(p.rcv_nxt, len)
           j == (p.rcv_wnd - len) % WndSpace
           st == IF p.state = "ESTABLISHED" /\ fin THEN "CLOSE_WAIT" ELSE p.state
           d == s.data \o QueuedData(pull)
           f == w.recv_flags \cup (IF s.fin \/ fin THEN {"GOT_FIN"} ELSE {})
           b == [p EXCEPT !.rcv_nxt = i, !.rcv_wnd = j, !.ooseq = later, !.state = st]
           w1 == [w EXCEPT !.p.rcv_nxt = i, !.p.rcv_wnd = j, !.p.ooseq = later,
                           !.p.state = st, !.recv_data = d, !.recv_flags = f]
           h1 == TCP_TCPLEN(s) <= w.p.rcv_wnd
           h2 == len <= w.p.rcv_wnd
<1>1. /\ Fine(w) /\ w \in Work /\ p \in Block
      /\ p.persist => p.unacked = <<>>
      /\ p.unacked # <<>> => p.rtime
      /\ Exact(p) /\ p.state \notin {"SYN_SENT", "TIME_WAIT"}
  BY LiveFacts DEF Fine
<1>2. Advance(w, s, pull, later) = Assert2(Assert2(w1, "tcplen > rcv_wnd", h1),
                                           "ooseq tcplen > rcv_wnd", h2)
  BY Zenon DEF Advance
<1>3. len \in Int
  BY WireFacts, QueuedLenType
<1> HIDE DEF len
<1>4. i \in Num
  BY <1>1, <1>3, NumPlus DEF Block
<1>5. j \in Nat
  <2>1. p.rcv_wnd \in Int
    BY <1>1 DEF Block
  <2>2. WndSpace \in Nat \ {0}
    BY TcpOutAssumption
  <2> QED BY <1>3, <2>1, <2>2
<1>6. st \in States /\ st \notin {"SYN_SENT", "TIME_WAIT"}
  BY <1>1 DEF Block, States
<1>7. d \in Seq(Nat)
  <2>1. QueuedData(pull) \in Seq(Nat) /\ s.data \in Seq(Nat)
    BY BytesSum, WireFacts
  <2> QED BY <2>1
<1>8. f \in SUBSET Events
  <2>1. w.recv_flags \in SUBSET Events
    BY <1>1 DEF Work
  <2> QED BY <2>1 DEF Events
<1> HIDE DEF i, j, st, d, f, h1, h2
<1>9. w1 = [[[w EXCEPT !.p = b] EXCEPT !.recv_data = d] EXCEPT !.recv_flags = f]
  BY <1>1 DEF Work
<1> HIDE DEF p
<1>10. /\ b \in Block /\ b.state = st /\ b.unsent = p.unsent /\ b.unacked = p.unacked
       /\ b.snd_buf = p.snd_buf /\ b.rtime = p.rtime /\ b.persist = p.persist
  BY <1>1, <1>4, <1>5, <1>6 DEF Block
<1> HIDE DEF b, w1
<1>11. w1 \in Work /\ w1.p = b /\ w1.asserts = w.asserts
  BY <1>1, <1>7, <1>8, <1>9, <1>10 DEF Work
<1>12. Fine(w1) /\ Exact(b)
  BY <1>1, <1>10, <1>11 DEF Fine, Exact
<1>13. Live(w1)
  BY <1>1, <1>6, <1>10, <1>11, <1>12, LiveFacts
<1>14. "tcplen > rcv_wnd" \in Asserts \ {"persist in-flight"}
       /\ "ooseq tcplen > rcv_wnd" \in Asserts \ {"persist in-flight"}
  BY DEF Asserts
<1> DEFINE w2 == Assert2(w1, "tcplen > rcv_wnd", h1)
<1>15. Live(w2)
  BY <1>12, <1>13, <1>14, AssertLight, LightLive
<1> HIDE DEF w2
<1>16. Live(Assert2(w2, "ooseq tcplen > rcv_wnd", h2))
  BY <1>14, <1>15, AssertLight, LightLive DEF Live, Good
<1> QED
  BY <1>2, <1>16 DEF w2

LEMMA FollowsType ==
    ASSUME NEW q \in Seq(Seg), NEW n PROVE Follows(q, n) \in 0 .. Len(q)
<1> DEFINE S == {k \in 0 .. Len(q) : \A i \in 1 .. k :
                   q[i].seqno = Plus(n, QueuedLen(SubSeq(q, 1, i - 1)))}
<1>1. 0 \in S /\ S \subseteq 0 .. Len(q)
  OBVIOUS
<1>2. Follows(q, n) = Max(S)
  BY DEF Follows
<1> HIDE DEF S
<1> QED
  BY <1>1, <1>2, RunType

LEMMA PullLive ==
    ASSUME NEW w, Live(w), NEW s \in Wire, NEW q \in Seq(Seg)
    PROVE  Live(PullOoseq(w, s, q))
<1> DEFINE m == Follows(q, SegEnd(s))
<1>1. m \in 0 .. Len(q)
  BY FollowsType
<1>2. PullOoseq(w, s, q) = Advance(w, s, SubSeq(q, 1, m), Skip(q, m))
  BY Zenon DEF PullOoseq
<1> HIDE DEF m
<1>3. SubSeq(q, 1, m) \in Seq(Seg) /\ Skip(q, m) \in Seq(Seg)
  BY <1>1, Parts
<1> QED
  BY <1>2, <1>3, AdvanceLive

LEMMA WireFin ==
    ASSUME NEW s \in Wire, NEW f \in BOOLEAN PROVE [s EXCEPT !.fin = f] \in Wire
  BY DEF Wire

LEMMA AgainstLive ==
    ASSUME NEW w, Live(w), NEW s \in Wire PROVE Live(AgainstOoseq(w, s))
<1> DEFINE q == w.p.ooseq
           S == {i \in 0 .. Len(q) :
                   \A j \in 1 .. i : TCP_SEQ_GEQ(SegEnd(s), DataEnd(q[j]))}
           k == Max(S)
           rest == IF s.fin THEN <<>> ELSE Skip(q, k)
           f == s.fin \/ \E i \in 1 .. k : q[i].fin
           s1 == [s EXCEPT !.fin = f]
           t == TrimBefore(s1, rest)
<1>1. AgainstOoseq(w, s) = PullOoseq(w, t, rest)
  BY Zenon DEF AgainstOoseq, HeadRun
<1>2. q \in Seq(Seg)
  BY LiveFacts DEF Block
<1> HIDE DEF q
<1>3. 0 \in S /\ S \subseteq 0 .. Len(q)
  BY <1>2
<1> HIDE DEF S
<1>4. k \in 0 .. Len(q)
  BY <1>2, <1>3, RunType
<1> HIDE DEF k
<1>5. rest \in Seq(Seg)
  <2>1. Skip(q, k) \in Seq(Seg)
    BY <1>2, <1>4, Parts
  <2> QED BY <2>1
<1> HIDE DEF rest
<1>6. f \in BOOLEAN
  BY WireFacts
<1> HIDE DEF f
<1>7. s1 \in Wire
  BY <1>6, WireFin
<1> HIDE DEF s1
<1>8. t \in Wire
  <2> DEFINE n == SeqDiff(rest[1].seqno, s1.seqno)
  <2>1. ASSUME rest # <<>> PROVE TrimRight(s1, n) \in Wire
    <3>1. rest[1] \in Seg
      BY <1>5, <2>1
    <3>2. n \in Int
      BY <1>7, <3>1, SegFacts, WireFacts, DiffType
    <3> HIDE DEF n
    <3> QED BY <1>7, <3>2, TrimWire
  <2> QED BY <1>7, <2>1 DEF TrimBefore
<1> HIDE DEF t
<1> QED
  BY <1>1, <1>5, <1>8, PullLive

LEMMA InOrderLive ==
    ASSUME NEW w, Live(w), NEW s \in Wire PROVE Live(ReceiveInOrder(w, s))
<1> DEFINE t == TrimToWindow(w.p, s)
           u == AgainstOoseq(w, t)
           v == tcp_update_rcv_ann_wnd(u)
<1>1. t \in Wire
  <2>1. w.p.rcv_wnd \in Int /\ FALSE \in BOOLEAN
    BY LiveFacts DEF Block
  <2>2. [s EXCEPT !.fin = FALSE] \in Wire
    BY <2>1, WireFin
  <2>3. TrimRight([s EXCEPT !.fin = FALSE], w.p.rcv_wnd) \in Wire
    BY <2>1, <2>2, TrimWire
  <2> QED BY <2>3 DEF TrimToWindow
<1> HIDE DEF t
<1>2. Live(u)
  BY <1>1, AgainstLive
<1> HIDE DEF u
<1>3. Live(v)
  BY <1>2, UpdateAnnLight, LightLive DEF Live, Good
<1> HIDE DEF v
<1>4. Live(tcp_ack(v))
  BY <1>3, AckLight, LightLive DEF Live, Good
<1> QED
  BY <1>4 DEF ReceiveInOrder, t, u, v

LEMMA ReceiveTrimmedLive ==
    ASSUME NEW w, Live(w), NEW s \in Wire PROVE Live(ReceiveTrimmed(w, s))
<1> DEFINE p == w.p
           q == OoseqInsert(p, s)
           b == [p EXCEPT !.ooseq = q]
           u == [w EXCEPT !.p.ooseq = q]
           v == IF InWindow(p, s.seqno) /\ w.mem THEN u ELSE w
<1>1. Fine(w) /\ w \in Work /\ p \in Block
  BY LiveFacts DEF Fine
<1>2. ReceiveTrimmed(w, s) = IF InWindow(p, s.seqno) /\ NextExpected(p, s)
                             THEN ReceiveInOrder(w, s) ELSE tcp_send_empty_ack(v)
  BY Zenon DEF ReceiveTrimmed
<1>3. q \in Seq(Seg)
  BY <1>1, OoseqType
<1> HIDE DEF q
<1>4. u = [w EXCEPT !.p = b]
  OBVIOUS
<1> HIDE DEF p
<1>5. Same(p, b)
  BY <1>1, <1>3 DEF Same, Block
<1> HIDE DEF b, u
<1>6. Live(u)
  BY <1>1, <1>4, <1>5, PutSame, LightLive DEF p
<1>7. Live(v)
  BY <1>6
<1> HIDE DEF v
<1>8. Live(tcp_send_empty_ack(v))
  BY <1>7, EmptyAckLight, LightLive DEF Live, Good
<1> QED
  BY <1>2, <1>8, InOrderLive

LEMMA ReceiveLive ==
    ASSUME NEW w, Live(w), NEW s \in Wire PROVE Live(tcp_receive(w, s))
<1>1. ASSUME NEW v, Live(v) PROVE Live(tcp_ack_now(v))
  BY <1>1, AckNowLight, LightLive DEF Live, Good
<1>2. ASSUME NEW v, Live(v) PROVE Live(ReceiveData(v, s))
  <2> DEFINE p == v.p
             trim == TCP_SEQ_BETWEEN(p.rcv_nxt, Plus(s.seqno, 1),
                                     Plus(s.seqno, TCP_TCPLEN(s) - 1))
             u == IF ~trim /\ TCP_SEQ_LT(s.seqno, p.rcv_nxt) THEN tcp_ack_now(v) ELSE v
             n == (p.rcv_nxt - s.seqno) % SeqSpace
             t == IF trim THEN TrimLeft(s, n) ELSE s
  <2>1. ReceiveData(v, s) = ReceiveTrimmed(u, t)
    BY Zenon DEF ReceiveData
  <2>2. Live(u)
    BY <1>1, <1>2
  <2>3. n \in Int /\ n >= 0
    <3>1. p.rcv_nxt \in Int /\ s.seqno \in Int
      BY <1>2, LiveFacts, WireFacts, NumInt DEF Block
    <3> QED BY <3>1, TcpOutAssumption
  <2> HIDE DEF n, u
  <2>4. t \in Wire
    BY <2>3, TrimWire
  <2> HIDE DEF t
  <2> QED BY <2>1, <2>2, <2>4, ReceiveTrimmedLive
<1>3. ASSUME NEW v, Live(v) PROVE Live(ReceiveAcked(v, s))
  BY <1>1, <1>2, <1>3 DEF ReceiveAcked
<1>4. Live(IF s.ack THEN ReceiveAck(w, s) ELSE w)
  BY ReceiveAckLive
<1> QED
  BY <1>3, <1>4 DEF tcp_receive

-----------------------------------------------------------------------------
(* tcp_process: the state machine.                                         *)

LEMMA ReplyLight ==
    ASSUME NEW w, Fine(w), NEW s \in Wire PROVE Light(w, ReplyRst(w, s))
  BY WireFacts, RstLight DEF ReplyRst

LEMMA ProcessRstLight ==
    ASSUME NEW w, Fine(w), NEW s PROVE Light(w, ProcessRst(w, s))
<1> DEFINE p == w.p
           ok == IF p.state = "SYN_SENT" THEN s.ackno = p.snd_nxt ELSE s.seqno = p.rcv_nxt
           near == TCP_SEQ_BETWEEN(s.seqno, p.rcv_nxt, Plus(p.rcv_nxt, p.rcv_wnd))
           f == w.recv_flags \cup {"RESET"}
           u == [w EXCEPT !.recv_flags = f]
           v == ClearFlags(u, {"ACK_DELAY"})
<1>1. ProcessRst(w, s) = CASE ok -> v
                           [] ~ok /\ p.state # "SYN_SENT" /\ near -> tcp_ack_now(w)
                           [] OTHER -> w
  BY Zenon DEF ProcessRst
<1>2. f \in SUBSET Events /\ {"ACK_DELAY"} \in SUBSET Flags
  BY DEF Fine, Work, Events, Flags
<1> HIDE DEF f
<1>3. Light(w, u)
  BY <1>2, PutEvents
<1> HIDE DEF u
<1>4. Light(u, v)
  BY <1>2, <1>3, FlagsLight DEF Light
<1> HIDE DEF v, ok, near
<1>5. Light(w, v) /\ Light(w, tcp_ack_now(w)) /\ Light(w, w)
  BY <1>3, <1>4, LightTrans, AckNowLight, LightRefl
<1> HIDE DEF p
<1>6. CASE ok
  BY <1>1, <1>5, <1>6
<1>7. CASE ~ok /\ p.state # "SYN_SENT" /\ near
  BY <1>1, <1>5, <1>7
<1>8. CASE ~ok /\ ~(p.state # "SYN_SENT" /\ near)
  BY <1>1, <1>5, <1>8
<1> QED
  BY <1>6, <1>7, <1>8

LEMMA PassiveCloseLive == ASSUME NEW w, Live(w) PROVE Live(PassiveClose(w))
<1>1. Live(tcp_ack_now(w))
  BY AckNowLight, LightLive DEF Live, Good
<1>2. "CLOSE_WAIT" \in States /\ "CLOSE_WAIT" # "SYN_SENT" /\ "CLOSE_WAIT" # "TIME_WAIT"
  BY DEF States
<1>3. Live([tcp_ack_now(w) EXCEPT !.p.state = "CLOSE_WAIT"])
  BY <1>1, <1>2, StateGood
<1> QED
  BY <1>3 DEF PassiveClose

LEMMA PutCwnd ==
    ASSUME NEW w, Fine(w), NEW n \in Int PROVE Light(w, [w EXCEPT !.p.cwnd = n])
<1> DEFINE p == w.p
           b == [p EXCEPT !.cwnd = n]
<1>1. w \in Work /\ p \in Block
  BY WorkBlock DEF Fine
<1>2. [w EXCEPT !.p.cwnd = n] = [w EXCEPT !.p = b]
  OBVIOUS
<1> HIDE DEF p
<1>3. Same(p, b)
  BY <1>1 DEF Same, Block
<1> HIDE DEF b
<1> QED
  BY <1>2, <1>3, PutSame DEF p

LEMMA PutProbe ==
    ASSUME NEW w, Fine(w) PROVE Light(w, [w EXCEPT !.p.persist_probe = 0])
<1> DEFINE p == w.p
           n == 0
           b == [p EXCEPT !.persist_probe = n]
<1>1. w \in Work /\ p \in Block
  BY WorkBlock DEF Fine
<1>2. n \in Int
  OBVIOUS
<1>3. [w EXCEPT !.p.persist_probe = 0] = [w EXCEPT !.p = b]
  OBVIOUS
<1> HIDE DEF p, n
<1>4. Same(p, b)
  BY <1>1, <1>2 DEF Same, Block
<1> HIDE DEF b
<1> QED
  BY <1>3, <1>4, PutSame DEF p

LEMMA SynRcvdGood ==
    ASSUME NEW w, Live(w), NEW s \in Wire PROVE Good(ProcessSynRcvd(w, s))
<1> DEFINE p == w.p
           a == [w.a EXCEPT !.accepted = @ + 1]
           w1 == [w EXCEPT !.p.state = "ESTABLISHED", !.a.accepted = @ + 1]
           v == [w EXCEPT !.p.state = "ESTABLISHED"]
           n == InitialCwnd
           r == tcp_receive(w1, s)
           c == [r EXCEPT !.p.cwnd = n]
           g == tcp_abort(w, TRUE)
           f == {"ABRT"}
           d == [g EXCEPT !.recv_flags = f]
           again == ~s.ack /\ s.syn /\ s.seqno = Plus(p.rcv_nxt, SeqSpace - 1)
           acks == AcksSyn(p, s)
<1>1. ProcessSynRcvd(w, s) =
        CASE s.ack /\ ~acks -> ReplyRst(w, s)
          [] acks -> IF w.listening THEN PassiveClose(c) ELSE d
          [] again -> tcp_rexmit(w)
          [] OTHER -> w
  BY Zenon DEF ProcessSynRcvd
<1>2. acks => s.ack /\ ~again
  BY DEF AcksSyn
<1>3. Live(v)
  <2>1. "ESTABLISHED" \in States /\ "ESTABLISHED" # "SYN_SENT" /\ "ESTABLISHED" # "TIME_WAIT"
    BY DEF States
  <2> QED BY <2>1, StateGood
<1>4. a \in App /\ w \in Work /\ Fine(w)
  <2>1. w \in Work /\ Fine(w) /\ w.a \in App
    BY LiveFacts DEF Fine, Work
  <2>2. w.a.accepted + 1 \in Int
    BY <2>1 DEF App
  <2> QED BY <2>1, <2>2 DEF App
<1>5. w1 = [v EXCEPT !.a = a]
  BY <1>4 DEF Work
<1> HIDE DEF v, a, w1
<1>6. Live(w1)
  BY <1>3, <1>4, <1>5, PutApp, LightLive DEF Live, Good
<1>7. Live(r)
  BY <1>6, ReceiveLive
<1>8. n \in Int
  BY TcpOutAssumption DEF InitialCwnd, AtMost
<1> HIDE DEF r, n
<1>9. Live(c)
  BY <1>7, <1>8, PutCwnd, LightLive DEF Live, Good
<1> HIDE DEF c
<1>10. Good(PassiveClose(c))
  BY <1>9, PassiveCloseLive DEF Live
<1>11. Good(g)
  BY <1>4, AbortGood
<1> HIDE DEF g
<1>12. Good(d)
  <2>1. f \in SUBSET Events
    BY DEF Events
  <2> HIDE DEF f
  <2> QED BY <1>11, <2>1, PutEvents, LightGood DEF Good
<1>13. Good(ReplyRst(w, s)) /\ Good(tcp_rexmit(w)) /\ Good(w)
  BY ReplyLight, LightGood, RexmitLive DEF Live, Good
<1> HIDE DEF d, acks, again
<1>14. CASE s.ack /\ ~acks
  BY <1>1, <1>13, <1>14
<1>15. CASE acks
  BY <1>1, <1>2, <1>10, <1>12, <1>15
<1>16. CASE ~acks /\ ~s.ack /\ again
  BY <1>1, <1>13, <1>16
<1>17. CASE ~acks /\ ~s.ack /\ ~again
  BY <1>1, <1>13, <1>17
<1> QED
  BY <1>14, <1>15, <1>16, <1>17

LEMMA TimeWaitGood == ASSUME NEW w, Fine(w) PROVE Good(TimeWait(w))
<1> DEFINE u == tcp_pcb_purge(w)
           p == u.p
           st == "TIME_WAIT"
           b == [p EXCEPT !.state = st]
           v == [u EXCEPT !.p.state = st]
<1>1. TimeWait(w) = v
  BY DEF TimeWait
<1>2. Fine(u) /\ p.unacked = <<>>
  BY PurgeFine
<1> HIDE DEF u
<1>3. u \in Work /\ p \in Block
  BY <1>2, WorkBlock DEF Fine
<1>4. v = [u EXCEPT !.p = b]
  OBVIOUS
<1>5. st \in States /\ st # "SYN_SENT"
  BY DEF States
<1> HIDE DEF p, st
<1>6. b \in Block /\ b.state = st /\ b.unacked = p.unacked
  BY <1>3, <1>5 DEF Block
<1> HIDE DEF b, v
<1>7. Fine(v) /\ v.p = b
  BY <1>2, <1>4, <1>6, PutFine
<1>8. Sound(b)
  BY <1>2, <1>5, <1>6 DEF Sound, st
<1> QED
  BY <1>1, <1>7, <1>8 DEF Good

\* The retransmission timer may be started at any time.
LEMMA TimerGood ==
    ASSUME NEW w, Good(w), NEW b \in Block, b.rtime,
           b.state = w.p.state, b.unsent = w.p.unsent, b.unacked = w.p.unacked,
           b.snd_buf = w.p.snd_buf, b.snd_lbb = w.p.snd_lbb, b.lastack = w.p.lastack,
           b.persist = w.p.persist
    PROVE  Good([w EXCEPT !.p = b])
<1> DEFINE p == w.p
<1>1. Fine(w) /\ Sound(p)
  BY DEF Good
<1>2. Fine([w EXCEPT !.p = b]) /\ [w EXCEPT !.p = b].p = b
  BY <1>1, PutFine
<1>3. SynFirst(p) => SynFirst(b)
  BY DEF SynFirst, Led, SynSeg, DataSeg
<1>4. Exact(p) => Exact(b)
  BY DEF Exact
<1> HIDE DEF p
<1>5. Sound(b)
  BY <1>1, <1>3, <1>4 DEF Sound, p
<1> QED
  BY <1>2, <1>5 DEF Good

LEMMA PutTimerGood ==
    ASSUME NEW w, Good(w), NEW n \in Int
    PROVE  /\ Good([w EXCEPT !.p.rtime = TRUE])
           /\ Good([w EXCEPT !.p.rtime = TRUE, !.p.nrtx = n])
<1> DEFINE p == w.p
           t == TRUE
           b == [p EXCEPT !.rtime = t]
           c == [p EXCEPT !.rtime = t, !.nrtx = n]
<1>1. w \in Work /\ p \in Block
  BY WorkBlock DEF Good, Fine
<1>2. t \in BOOLEAN /\ t
  OBVIOUS
<1>3. /\ [w EXCEPT !.p.rtime = t] = [w EXCEPT !.p = b]
      /\ [w EXCEPT !.p.rtime = t, !.p.nrtx = n] = [w EXCEPT !.p = c]
  <2> HIDE DEF t
  <2> QED BY <1>1 DEF Work
<1> HIDE DEF p, t
<1>4. /\ b \in Block /\ b.rtime = t
      /\ b.state = p.state /\ b.unsent = p.unsent /\ b.unacked = p.unacked
      /\ b.snd_buf = p.snd_buf /\ b.snd_lbb = p.snd_lbb /\ b.lastack = p.lastack
      /\ b.persist = p.persist
  BY <1>1, <1>2 DEF Block
<1>5. /\ c \in Block /\ c.rtime = t
      /\ c.state = p.state /\ c.unsent = p.unsent /\ c.unacked = p.unacked
      /\ c.snd_buf = p.snd_buf /\ c.snd_lbb = p.snd_lbb /\ c.lastack = p.lastack
      /\ c.persist = p.persist
  BY <1>1, <1>2 DEF Block
<1> HIDE DEF b, c
<1>6. Good([w EXCEPT !.p = b])
  BY <1>2, <1>4, TimerGood DEF p
<1>7. Good([w EXCEPT !.p = c])
  BY <1>2, <1>5, TimerGood DEF p
<1> QED
  BY <1>3, <1>6, <1>7 DEF t

LEMMA SynSentGood ==
    ASSUME NEW w, Good(w), w.p.state = "SYN_SENT", NEW s \in Wire
    PROVE  Good(ProcessSynSent(w, s))
<1> DEFINE p == w.p
           una == IF p.unacked = <<>> THEN <<>> ELSE Tail(p.unacked)
           uns == IF p.unacked = <<>> THEN Tail(p.unsent) ELSE p.unsent
           st == "ESTABLISHED"
           r == Plus(s.seqno, 1)
           wl == Plus(s.seqno, SeqSpace - 1)
           cw == InitialCwnd
           t == una # <<>>
           n == IF una # <<>> THEN 0 ELSE p.nrtx
           b == [p EXCEPT !.state = st, !.rcv_nxt = r, !.rcv_ann_right_edge = r,
                          !.lastack = s.ackno, !.snd_wnd = s.wnd, !.snd_wl1 = wl,
                          !.cwnd = cw, !.unacked = una, !.unsent = uns,
                          !.rtime = t, !.nrtx = n]
           v == [w EXCEPT !.p = b]
           w1 == ReplyRst(w, s)
           w2 == tcp_rexmit_rto_prepare(w1)
           w3 == [w2 EXCEPT !.p.rtime = TRUE, !.p.nrtx = @ + 1]
           hit == s.syn /\ s.ackno = Plus(p.lastack, 1)
<1>1. ProcessSynSent(w, s) =
        CASE s.ack /\ s.syn /\ s.ackno = Plus(p.lastack, 1) -> tcp_ack_now(v)
          [] s.ack /\ ~hit -> IF p.nrtx >= TCP_SYNMAXRTX THEN w1
                              ELSE IF p.unacked = <<>> THEN [w1 EXCEPT !.p.rtime = TRUE]
                              ELSE w3
          [] OTHER -> w
  BY Zenon DEF ProcessSynSent
<1>2. Fine(w) /\ Sound(p) /\ p \in Block /\ w \in Work
  BY WorkBlock DEF Good, Fine
<1>3. /\ p.unacked \in Seq(Seg) /\ p.unsent \in Seq(Seg) /\ p.nrtx \in Int
      /\ p.snd_buf \in Int
  BY <1>2 DEF Block
<1>4. /\ una \in Seq(Seg) /\ uns \in Seq(Seg)
      /\ p.persist => una = <<>>
      /\ Bytes(una) + Bytes(uns) = Bytes(p.unacked) + Bytes(p.unsent)
  <2>1. SynFirst(p) /\ (p.persist => p.unacked = <<>>)
    BY <1>2 DEF Sound
  <2>2. CASE p.unacked = <<>>
    <3>1. p.unsent # <<>> /\ p.unsent[1].data = <<>>
      BY <2>1, <2>2 DEF SynFirst, Led, SynSeg
    <3>2. Bytes(p.unsent) = Len(Head(p.unsent).data) + Bytes(Tail(p.unsent))
          /\ Bytes(Tail(p.unsent)) \in Nat /\ Head(p.unsent) = p.unsent[1]
          /\ Tail(p.unsent) \in Seq(Seg)
      BY <1>3, <3>1, HeadTail
    <3>3. Len(Head(p.unsent).data) = 0
      BY <3>1, <3>2
    <3>4. una = <<>> /\ uns = Tail(p.unsent)
      BY <2>2
    <3>5. una \in Seq(Seg)
      BY <1>3, <2>2, <3>4
    <3> HIDE DEF una, uns
    <3> QED BY <2>2, <3>2, <3>3, <3>4, <3>5
  <2>3. CASE p.unacked # <<>>
    <3>1. p.unacked[1].data = <<>>
      BY <2>1, <2>3 DEF SynFirst, Led, SynSeg
    <3>2. Bytes(p.unacked) = Len(Head(p.unacked).data) + Bytes(Tail(p.unacked))
          /\ Bytes(Tail(p.unacked)) \in Nat /\ Head(p.unacked) = p.unacked[1]
          /\ Tail(p.unacked) \in Seq(Seg)
      BY <1>3, <2>3, HeadTail
    <3>3. Len(Head(p.unacked).data) = 0
      BY <3>1, <3>2
    <3>4. una = Tail(p.unacked) /\ uns = p.unsent
      BY <2>3
    <3> HIDE DEF una, uns
    <3> QED BY <1>3, <2>1, <2>3, <3>2, <3>3, <3>4
  <2> QED BY <2>2, <2>3
<1>5. /\ st \in States /\ st # "SYN_SENT" /\ st # "TIME_WAIT"
      /\ r \in Num /\ wl \in Num /\ s.ackno \in Num /\ s.wnd \in Nat
  BY WireFacts, NumPlus DEF States
<1>6. cw \in Int /\ t \in BOOLEAN /\ n \in Int
  <2>1. 0 \in Int
    OBVIOUS
  <2> QED BY <1>3, <2>1, TcpOutAssumption DEF InitialCwnd, AtMost
<1>7. una # <<>> => t
  OBVIOUS
<1> HIDE DEF una, uns, st, r, wl, cw, t, n, hit
<1>8. Good(v)
  <2>1. Exact(p)
    BY <1>2 DEF Sound
  <2> HIDE DEF p
  <2>2. /\ b \in Block /\ b.state = st /\ b.unacked = una /\ b.unsent = uns
        /\ b.rtime = t /\ b.persist = p.persist /\ b.snd_buf = p.snd_buf
    BY <1>2, <1>4, <1>5, <1>6 DEF Block
  <2> HIDE DEF b
  <2>3. Fine(v) /\ v.p = b
    BY <1>2, <2>2, PutFine
  <2>4. Exact(b)
    <3>1. /\ Bytes(una) \in Nat /\ Bytes(uns) \in Nat
          /\ Bytes(p.unacked) \in Nat /\ Bytes(p.unsent) \in Nat
      BY <1>3, <1>4, BytesNat
    <3> DEFINE x == Bytes(una)
               y == Bytes(uns)
               i == Bytes(p.unacked)
               j == Bytes(p.unsent)
               k == p.snd_buf
    <3>2. k + i + j = TCP_SND_BUF
      BY <2>1 DEF Exact
    <3>3. x \in Nat /\ y \in Nat /\ i \in Nat /\ j \in Nat /\ k \in Int /\ x + y = i + j
      BY <1>3, <1>4, <3>1
    <3> HIDE DEF x, y, i, j, k
    <3>4. k + x + y = TCP_SND_BUF
      BY ONLY <3>2, <3>3
    <3> QED BY <2>2, <3>4 DEF Exact, x, y, k
  <2>5. Sound(b)
    BY <1>4, <1>5, <1>7, <2>2, <2>4 DEF Sound
  <2> QED BY <2>3, <2>5 DEF Good
<1>9. Good(tcp_ack_now(v))
  <2> HIDE DEF v
  <2> QED BY <1>8, AckNowLight, LightGood DEF Good
<1>10. Good(w1) /\ w1.p.unacked = p.unacked
  BY <1>2, ReplyLight, LightGood DEF Light, Same
<1> HIDE DEF w1
<1>11. Good([w1 EXCEPT !.p.rtime = TRUE])
  <2>1. 0 \in Int
    OBVIOUS
  <2> QED BY <1>10, <2>1, PutTimerGood
<1>12. ASSUME p.unacked # <<>> PROVE Good(w3)
  <2>1. Good(w2) /\ w2.p.nrtx \in Int
    BY <1>10, <1>12, RtoPrepareGood
  <2> HIDE DEF w2
  <2> DEFINE m == w2.p.nrtx + 1
             b2 == TRUE
  <2>2. m \in Int
    BY <2>1
  <2>3. w3 = [w2 EXCEPT !.p.rtime = b2, !.p.nrtx = m]
    <3>1. w2 \in Work /\ w2.p \in Block
      BY <2>1, WorkBlock DEF Good, Fine
    <3> HIDE DEF b2
    <3> QED BY <3>1 DEF Work, Block, b2
  <2> HIDE DEF m, w3
  <2> QED BY <2>1, <2>2, <2>3, PutTimerGood
<1> HIDE DEF v, w3, p
<1>13. CASE s.ack /\ hit
  <2>1. s.ack /\ s.syn /\ s.ackno = Plus(p.lastack, 1)
    BY <1>13 DEF hit
  <2> QED BY <1>1, <1>9, <1>13, <2>1
<1>14. CASE s.ack /\ ~hit
  <2>1. ~(s.ack /\ s.syn /\ s.ackno = Plus(p.lastack, 1))
    BY <1>14 DEF hit
  <2> QED BY <1>1, <1>10, <1>11, <1>12, <1>14, <2>1
<1>15. CASE ~s.ack
  BY <1>1, <1>15
<1> QED
  BY <1>13, <1>14, <1>15

LEMMA AfterReceiveGood ==
    ASSUME NEW w, Live(w), NEW s, NEW st PROVE Good(AfterReceive(w, s, st))
<1> DEFINE fin  == "GOT_FIN" \in w.recv_flags
           done == FinAcked(w, s)
           c1 == st \in {"ESTABLISHED", "CLOSE_WAIT"}
           c2 == st \in {"FIN_WAIT_1", "FIN_WAIT_2"} /\ fin
           c3 == st = "FIN_WAIT_1" /\ ~fin /\ done
           c4 == st = "CLOSING" /\ done
           c5 == st = "LAST_ACK" /\ done
           n == tcp_ack_now(w)
           t == TimeWait(n)
           g == [n EXCEPT !.p.state = "CLOSING"]
           h == [w EXCEPT !.p.state = "FIN_WAIT_2"]
           f == w.recv_flags \cup {"CLOSED"}
           k == [w EXCEPT !.recv_flags = f]
           x == IF done \/ st = "FIN_WAIT_2" THEN t ELSE g
<1>1. AfterReceive(w, s, st) = CASE c1 -> PassiveClose(w) [] c2 -> x [] c3 -> h
                                 [] c4 -> TimeWait(w) [] c5 -> k [] OTHER -> w
  <2>1. k = [w EXCEPT !.recv_flags = @ \cup {"CLOSED"}]
    OBVIOUS
  <2> QED BY <2>1, Zenon DEF AfterReceive
<1>2. Fine(w) /\ Good(w)
  BY DEF Live, Good
<1>3. Good(PassiveClose(w))
  BY PassiveCloseLive DEF Live
<1>4. Live(n)
  BY <1>2, AckNowLight, LightLive
<1> HIDE DEF n
<1>5. Good(g) /\ Good(h)
  <2>1. "CLOSING" \in States /\ "CLOSING" # "SYN_SENT"
        /\ "FIN_WAIT_2" \in States /\ "FIN_WAIT_2" # "SYN_SENT"
    BY DEF States
  <2> QED BY <1>4, <2>1, StateGood
<1>6. Good(t) /\ Good(TimeWait(w))
  BY <1>2, <1>4, TimeWaitGood DEF Live, Good
<1> HIDE DEF t, g, h
<1>7. Good(x)
  BY <1>5, <1>6
<1>8. Good(k)
  <2>1. f \in SUBSET Events
    BY <1>2 DEF Fine, Work, Events
  <2> HIDE DEF f
  <2> QED BY <1>2, <2>1, PutEvents, LightGood
<1>9. /\ c1 => ~c2 /\ ~c3 /\ ~c4 /\ ~c5
      /\ c2 => ~c3 /\ ~c4 /\ ~c5
      /\ c3 => ~c4 /\ ~c5
      /\ c4 => ~c5
  OBVIOUS
<1> HIDE DEF x, k, fin, done, c1, c2, c3, c4, c5
<1> QED
  BY <1>1, <1>2, <1>3, <1>5, <1>6, <1>7, <1>8, <1>9

LEMMA ProcessGood ==
    ASSUME NEW w, Good(w), w.p.state # "TIME_WAIT", NEW s \in Wire
    PROVE  Good(tcp_process(w, s))
<1> DEFINE st == w.p.state
           w0 == [w EXCEPT !.p.persist_probe = 0]
           c1 == s.rst
           c2 == ~s.rst /\ s.syn /\ st \notin {"SYN_SENT", "SYN_RCVD"}
           c3 == ~s.rst /\ st = "SYN_SENT"
           c4 == ~s.rst /\ st = "SYN_RCVD"
           r == tcp_receive(w0, s)
<1>1. tcp_process(w, s) = CASE c1 -> ProcessRst(w, s) [] c2 -> tcp_ack_now(w)
                            [] c3 -> ProcessSynSent(w0, s) [] c4 -> ProcessSynRcvd(w0, s)
                            [] OTHER -> AfterReceive(r, s, st)
  BY Zenon DEF tcp_process
<1>2. Good(w0) /\ w0.p.state = st
  BY PutProbe, LightGood DEF Good, Light, Same
<1> HIDE DEF w0
<1>3. Good(ProcessRst(w, s)) /\ Good(tcp_ack_now(w))
  BY ProcessRstLight, AckNowLight, LightGood DEF Good
<1>4. ASSUME c3 PROVE Good(ProcessSynSent(w0, s))
  BY <1>2, <1>4, SynSentGood
<1>5. ASSUME st # "SYN_SENT" PROVE Live(w0)
  BY <1>2, <1>5 DEF Live
<1>6. ASSUME c4 PROVE Good(ProcessSynRcvd(w0, s))
  BY <1>5, <1>6, SynRcvdGood
<1>7. ASSUME ~c1, ~c3 PROVE Good(AfterReceive(r, s, st))
  <2>1. Live(r)
    <3>1. st # "SYN_SENT"
      BY <1>7
    <3> QED BY <1>5, <3>1, ReceiveLive
  <2> HIDE DEF r
  <2> QED BY <2>1, AfterReceiveGood
<1>8. /\ c1 => ~c2 /\ ~c3 /\ ~c4
      /\ c2 => ~c3 /\ ~c4
      /\ c3 => ~c4
  OBVIOUS
<1> HIDE DEF c1, c2, c3, c4, st, r
<1>9. CASE c1
  BY <1>1, <1>3, <1>8, <1>9
<1>10. CASE c2
  BY <1>1, <1>3, <1>8, <1>10
<1>11. CASE c3
  BY <1>1, <1>4, <1>8, <1>11
<1>12. CASE c4
  BY <1>1, <1>6, <1>8, <1>12
<1>13. CASE ~c1 /\ ~c2 /\ ~c3 /\ ~c4
  BY <1>1, <1>7, <1>13
<1> QED
  BY <1>9, <1>10, <1>11, <1>12, <1>13

-----------------------------------------------------------------------------
(* tcp_input.                                                              *)

LEMMA ByAppLight ==
    ASSUME NEW w, Fine(w), NEW refuse PROVE Light(w, ReceivedByApp(w, refuse))
<1> DEFINE d == w.recv_data
           r == [w.p.refused EXCEPT !.data = d]
           x == [w EXCEPT !.p.refused.data = d]
           w1 == IF d = <<>> THEN w ELSE IF refuse THEN x ELSE Deliver(w, d)
           r1 == [w1.p.refused EXCEPT !.fin = TRUE]
           y == [w1 EXCEPT !.p.refused.fin = TRUE]
<1>1. ReceivedByApp(w, refuse) =
        IF "GOT_FIN" \notin w.recv_flags THEN w1
        ELSE IF w1.p.refused # NoData THEN y ELSE GiveBackFin(w1)
  BY Zenon DEF ReceivedByApp
<1>2. w \in Work /\ w.p \in Block /\ d \in Seq(Nat)
  BY WorkBlock DEF Fine, Work
<1> HIDE DEF d
<1>3. Light(w, x)
  <2>1. r \in RefusedData
    BY <1>2 DEF Block, RefusedData
  <2>2. x = [w EXCEPT !.p.refused = r]
    BY <1>2 DEF Work, Block
  <2> HIDE DEF r, x
  <2> QED BY <2>1, <2>2, PutRefused
<1> HIDE DEF x
<1>4. Light(w, w1)
  BY <1>2, <1>3, LightRefl, DeliverLight
<1> HIDE DEF w1
<1>5. Light(w1, y)
  <2>1. w1 \in Work /\ w1.p \in Block
    BY <1>4, WorkBlock DEF Light, Fine
  <2>2. TRUE \in BOOLEAN
    OBVIOUS
  <2>3. r1 \in RefusedData
    BY <2>1, <2>2 DEF Block, RefusedData
  <2>4. y = [w1 EXCEPT !.p.refused = r1]
    BY <2>1 DEF Work, Block
  <2> HIDE DEF r1, y
  <2> QED BY <1>4, <2>3, <2>4, PutRefused DEF Light
<1> HIDE DEF y
<1>6. Light(w1, GiveBackFin(w1))
  BY <1>4, GiveBackLight DEF Light
<1>7. Light(w, y) /\ Light(w, GiveBackFin(w1))
  BY <1>4, <1>5, <1>6, LightTrans
<1> QED
  BY <1>1, <1>4, <1>7

LEMMA FinishGood ==
    ASSUME NEW w, Good(w), NEW refuse PROVE Good(Finish(w, refuse))
<1> DEFINE a == [w.a EXCEPT !.acked = @ + w.recv_acked]
           w1 == [w EXCEPT !.a.acked = @ + w.recv_acked]
           st == w.p.state
           c1 == "ABRT" \in w.recv_flags
           c2 == "RESET" \in w.recv_flags
           c3 == "CLOSED" \in w.recv_flags
           e1 == TCP_EVENT_ERR(w, st, "RST")
           e2 == TCP_EVENT_ERR(w1, st, "CLSD")
           x1 == tcp_pcb_remove(e1, TRUE)
           y == IF "RXCLOSED" \in w.p.flags THEN w1 ELSE e2
           x2 == tcp_pcb_remove(y, TRUE)
           z == ReceivedByApp(w1, refuse)
           x3 == IF w.recv_data # <<>> /\ "RXCLOSED" \in w.p.flags THEN tcp_abort(w1, TRUE)
                 ELSE tcp_output(z)
<1>1. Finish(w, refuse) = CASE c1 -> w [] c2 -> x1 [] c3 -> x2 [] OTHER -> x3
  BY Zenon DEF Finish
<1>2. Fine(w) /\ w \in Work /\ w.a \in App /\ w.recv_acked \in Int
  BY DEF Good, Fine, Work
<1>3. Good(w1)
  <2>1. w.a.acked + w.recv_acked \in Int
    BY <1>2 DEF App
  <2>2. a \in App
    BY <1>2, <2>1 DEF App
  <2>3. w1 = [w EXCEPT !.a = a]
    BY <1>2 DEF Work, App
  <2> HIDE DEF a, w1
  <2> QED BY <1>2, <2>2, <2>3, PutApp, LightGood
<1> HIDE DEF w1, st
<1>4. "RST" \in Errors /\ "CLSD" \in Errors
  BY DEF Errors
<1>5. Fine(e1) /\ Fine(e2) /\ Fine(w1)
  BY <1>2, <1>3, <1>4, ErrLight DEF Light, Good
<1> HIDE DEF e1, e2
<1>6. Good(x1) /\ Good(x2)
  BY <1>5, RemoveGood
<1>7. Good(z)
  BY <1>3, <1>5, ByAppLight, LightGood
<1> HIDE DEF z
<1>8. Good(tcp_output(z)) /\ Good(tcp_abort(w1, TRUE))
  BY <1>5, <1>7, OutputSound, AbortGood DEF Good
<1>9. Good(x3)
  BY <1>8
<1> HIDE DEF x1, x2, x3, c1, c2, c3
<1> QED
  BY <1>1, <1>6, <1>9

LEMMA ActiveGood ==
    ASSUME NEW w, Good(w), w.p.state # "TIME_WAIT", NEW s \in Wire, NEW refuse
    PROVE  Good(ActiveInput(w, s, refuse))
<1> DEFINE w1 == tcp_process_refused_data(w, "old" \in refuse)
           r == tcp_process(w1, s)
<1>1. ActiveInput(w, s, refuse) =
        IF Blocked(w1.p, s)
        THEN IF w1.p.rcv_ann_wnd = 0 THEN tcp_send_empty_ack(w1) ELSE w1
        ELSE Finish(r, "new" \in refuse)
  BY Zenon DEF ActiveInput
<1>2. Good(w1) /\ w1.p.state = w.p.state
  BY RefusedLight, LightGood DEF Good, Light, Same
<1> HIDE DEF w1
<1>3. Good(r)
  BY <1>2, ProcessGood
<1> HIDE DEF r
<1>4. Good(Finish(r, "new" \in refuse)) /\ Good(tcp_send_empty_ack(w1))
  BY <1>2, <1>3, FinishGood, EmptyAckLight, LightGood DEF Good
<1> QED
  BY <1>1, <1>2, <1>4

LEMMA TimeWaitInputGood ==
    ASSUME NEW w, Good(w), NEW s \in Wire PROVE Good(tcp_timewait_input(w, s))
<1> DEFINE c == ~s.rst /\ s.syn /\ TCP_SEQ_BETWEEN(s.seqno, w.p.rcv_nxt,
                                                    Plus(w.p.rcv_nxt, w.p.rcv_wnd))
           n == tcp_ack_now(w)
           x == IF TCP_TCPLEN(s) > 0 THEN tcp_output(n) ELSE w
<1>1. tcp_timewait_input(w, s) = CASE s.rst -> w [] c -> ReplyRst(w, s) [] OTHER -> x
  BY Zenon DEF tcp_timewait_input
<1>2. Good(n) /\ Good(ReplyRst(w, s))
  BY AckNowLight, ReplyLight, LightGood DEF Good
<1> HIDE DEF n
<1>3. Good(tcp_output(n))
  BY <1>2, OutputSound DEF Good
<1>4. Good(x)
  BY <1>3
<1>5. s.rst => ~c
  OBVIOUS
<1> HIDE DEF x, c
<1> QED
  BY <1>1, <1>2, <1>4, <1>5

\* The SYN is the first segment of a new control block.
LEMMA FirstSynGood ==
    ASSUME NEW w, Fine(w), w.p.unsent = <<>>, w.p.unacked = <<>>,
           w.p.snd_buf = TCP_SND_BUF, ~w.p.persist, w.p.state # "TIME_WAIT",
           w.p.state = "SYN_SENT" => w.p.snd_lbb = w.p.lastack
    PROVE  Good(tcp_enqueue_flags(w, TRUE, FALSE))
<1> DEFINE v == tcp_enqueue_flags(w, TRUE, FALSE)
           b == v.p
           x == [seqno |-> w.p.snd_lbb, data |-> <<>>, syn |-> TRUE, fin |-> FALSE]
<1>1. /\ Fine(v) /\ x \in Seg /\ b.unsent = Append(w.p.unsent, x)
      /\ b.snd_lbb = Plus(w.p.snd_lbb, 1)
      /\ b.state = w.p.state /\ b.unacked = w.p.unacked
      /\ b.snd_buf = w.p.snd_buf /\ b.lastack = w.p.lastack
      /\ b.rtime = w.p.rtime /\ b.persist = w.p.persist
  <2>1. TRUE \in BOOLEAN /\ FALSE \in BOOLEAN
    OBVIOUS
  <2> QED BY <2>1, EnqueueFields
<1>2. x.data = <<>> /\ x.seqno = w.p.snd_lbb
  OBVIOUS
<1> HIDE DEF v, x
<1>3. b \in Block
  BY <1>1, WorkBlock DEF Fine
<1> HIDE DEF b
<1>4. b.unsent = <<x>>
  BY <1>1
<1>5. Bytes(b.unsent) = 0 /\ Bytes(b.unacked) = 0
  <2>1. Bytes(<<x>>) = Len(x.data)
    BY <1>1, BytesOne
  <2>2. Len(x.data) = 0
    BY <1>2
  <2> QED BY <1>1, <1>4, <2>1, <2>2, BytesEmpty
<1>6. Exact(b)
  <2>1. TCP_SND_BUF \in Int
    BY TcpOutAssumption
  <2> QED BY <1>1, <1>5, <2>1 DEF Exact
<1>7. ASSUME b.state = "SYN_SENT" PROVE SynFirst(b)
  <2>1. b.snd_buf >= 0 /\ 1 + TCP_SND_BUF - b.snd_buf = 1
    BY <1>1, TcpOutAssumption
  <2>2. b.snd_lbb = Plus(b.lastack, 1 + TCP_SND_BUF - b.snd_buf)
    BY <1>1, <1>7, <2>1
  <2>3. Led(b, b.unsent)
    <3>1. b.unsent # <<>> /\ b.unsent[1] = x /\ Len(b.unsent) = 1
      BY <1>4
    <3>2. SynSeg(b, x)
      BY <1>1, <1>2, <1>7 DEF SynSeg
    <3> QED BY <3>1, <3>2 DEF Led
  <2> QED BY <1>1, <2>1, <2>2, <2>3 DEF SynFirst
<1>8. Sound(b)
  BY <1>1, <1>3, <1>6, <1>7 DEF Sound
<1> QED
  BY <1>1, <1>8 DEF Good, b, v

LEMMA PutFresh ==
    ASSUME NEW w, Fine(w), NEW b \in Block
    PROVE  /\ Fine([w EXCEPT !.p = b, !.fresh = TRUE])
           /\ [w EXCEPT !.p = b, !.fresh = TRUE].p = b
<1> DEFINE t == TRUE
<1>1. t \in BOOLEAN
  OBVIOUS
<1> HIDE DEF t
<1>2. [w EXCEPT !.p = b, !.fresh = t] \in Work
  BY <1>1 DEF Fine, Work
<1>3. /\ [w EXCEPT !.p = b, !.fresh = t].p = b
      /\ [w EXCEPT !.p = b, !.fresh = t].asserts = w.asserts
  BY DEF Fine, Work
<1> QED
  BY <1>2, <1>3 DEF Fine, t

LEMMA ListenGood ==
    ASSUME NEW w, Good(w), NEW s \in Wire PROVE Good(tcp_listen_input(w, s))
<1> DEFINE n == w.iss
           c == tcp_alloc
           st == "SYN_RCVD"
           r == Plus(s.seqno, 1)
           l == Plus(s.seqno, SeqSpace - 1)
           p == [c EXCEPT !.state = st, !.rcv_nxt = r, !.rcv_ann_right_edge = r,
                          !.snd_wl2 = n, !.snd_nxt = n, !.lastack = n, !.snd_lbb = n,
                          !.snd_wl1 = l, !.snd_wnd = s.wnd]
           u == [w EXCEPT !.p = p, !.fresh = TRUE]
           q == tcp_enqueue_flags(u, TRUE, FALSE)
           x == IF s.syn /\ w.mem THEN tcp_output(q) ELSE w
<1>1. tcp_listen_input(w, s) = CASE s.rst -> w [] ~s.rst /\ s.ack -> ReplyRst(w, s)
                                 [] OTHER -> x
  BY Zenon DEF tcp_listen_input
<1>2. Fine(w) /\ n \in Num /\ r \in Num /\ l \in Num /\ s.wnd \in Nat
  BY WireFacts, NumPlus DEF Good, Fine, Work
<1>3. st \in States /\ st # "TIME_WAIT" /\ st # "SYN_SENT"
  BY DEF States
<1>4. c \in Block /\ c.unsent = <<>> /\ c.unacked = <<>> /\ c.snd_buf = TCP_SND_BUF /\ ~c.persist
  BY AllocBlock
<1> HIDE DEF n, c, st, r, l
<1>5. /\ p \in Block /\ p.state = st /\ p.unsent = c.unsent /\ p.unacked = c.unacked
      /\ p.snd_buf = c.snd_buf /\ p.persist = c.persist
  BY <1>2, <1>3, <1>4 DEF Block
<1> HIDE DEF p
<1>6. Fine(u) /\ u.p = p
  BY <1>2, <1>5, PutFresh
<1> HIDE DEF u
<1>7. Good(q)
  BY <1>3, <1>4, <1>5, <1>6, FirstSynGood
<1> HIDE DEF q
<1>8. Good(x)
  BY <1>7, OutputSound DEF Good
<1>9. Good(ReplyRst(w, s))
  BY <1>2, ReplyLight, LightGood
<1> HIDE DEF x
<1> QED
  BY <1>1, <1>8, <1>9

LEMMA InputGood ==
    ASSUME NEW w, Good(w), NEW s \in Wire, NEW refuse PROVE Good(tcp_input(w, s, refuse))
<1> DEFINE st == w.p.state
           c1 == st = "TIME_WAIT"
           c2 == st \notin {"CLOSED", "TIME_WAIT"}
           c3 == st = "CLOSED" /\ w.listening
           x == IF s.rst THEN w ELSE ReplyRst(w, s)
<1>1. tcp_input(w, s, refuse) =
        CASE c1 -> tcp_timewait_input(w, s) [] c2 -> ActiveInput(w, s, refuse)
          [] c3 -> tcp_listen_input(w, s) [] OTHER -> x
  BY Zenon DEF tcp_input
<1>2. Good(x)
  BY ReplyLight, LightGood DEF Good
<1>3. Good(tcp_timewait_input(w, s)) /\ Good(tcp_listen_input(w, s))
  BY TimeWaitInputGood, ListenGood
<1>4. c2 => Good(ActiveInput(w, s, refuse))
  BY ActiveGood
<1>5. (c1 => ~c2 /\ ~c3) /\ (c2 => ~c3)
  OBVIOUS
<1> HIDE DEF x, c1, c2, c3
<1> QED
  BY <1>1, <1>2, <1>3, <1>4, <1>5

-----------------------------------------------------------------------------
(* The timers and the calls of the applications, on one endpoint.          *)

LEMMA PersistGood == ASSUME NEW w, Good(w), w.p.persist PROVE Good(Persist(w))
<1> DEFINE n == w.p.snd_wnd
           x == tcp_split_unsent_seg(w, n)
           stay == w.p.unsent = <<>> \/ (~w.mem /\ Len(w.p.unsent[1].data) > n)
<1>1. Persist(w) = IF n = 0 THEN tcp_zero_window_probe(w)
                   ELSE IF stay THEN w ELSE tcp_output(x)
  BY Zenon DEF Persist
<1>2. Good(tcp_zero_window_probe(w))
  BY ProbeGood
<1>3. n \in Nat
  BY WorkBlock DEF Good, Fine, Block
<1>4. ASSUME ~stay PROVE Good(tcp_output(x))
  <2>1. w.p.unsent # <<>>
    BY <1>4
  <2> HIDE DEF n
  <2>2. Good(x)
    BY <1>3, <2>1, SplitGood
  <2> HIDE DEF x
  <2> QED BY <2>2, OutputSound DEF Good
<1> QED
  BY <1>1, <1>2, <1>4

LEMMA RetransmitGood == ASSUME NEW w, Good(w) PROVE Good(RetransmitTimeout(w))
<1> DEFINE w1 == IF w.p.unacked # <<>> THEN tcp_rexmit_rto_prepare(w) ELSE w
           t == TRUE
           h == HalfWindow(w.p)
           z == 0
           p == w1.p
           b == [p EXCEPT !.rtime = t, !.ssthresh = h, !.cwnd = TCP_MSS, !.bytes_acked = z]
           x == [w1 EXCEPT !.p.rtime = t, !.p.ssthresh = h, !.p.cwnd = TCP_MSS,
                           !.p.bytes_acked = z]
<1>1. RetransmitTimeout(w) = IF w.p.unacked = <<>> /\ w.p.unsent = <<>> THEN w
                             ELSE tcp_rexmit_rto_commit(x)
  BY Zenon DEF RetransmitTimeout
<1>2. Good(w1)
  BY RtoPrepareGood
<1> HIDE DEF w1
<1>3. w1 \in Work /\ p \in Block
  BY <1>2, WorkBlock DEF Good, Fine
<1>4. t \in BOOLEAN /\ t /\ TCP_MSS \in Int
  BY TcpOutAssumption
<1>5. h \in Int
  BY WorkBlock, HalfWindowType DEF Good, Fine
<1>6. z \in Int
  OBVIOUS
<1> HIDE DEF t, h, z
<1>7. x = [w1 EXCEPT !.p = b]
  BY <1>3 DEF Work
<1> HIDE DEF p, x
<1>8. /\ b \in Block /\ b.rtime = t
      /\ b.state = p.state /\ b.unsent = p.unsent /\ b.unacked = p.unacked
      /\ b.snd_buf = p.snd_buf /\ b.snd_lbb = p.snd_lbb /\ b.lastack = p.lastack
      /\ b.persist = p.persist
  BY <1>3, <1>4, <1>5, <1>6 DEF Block
<1> HIDE DEF b
<1>9. Good(x)
  BY <1>2, <1>4, <1>7, <1>8, TimerGood DEF p
<1> QED
  BY <1>1, <1>9, RtoCommitGood

LEMMA ShutdownGood == ASSUME NEW w, Good(w) PROVE Good(tcp_close_shutdown_fin(w))
<1> DEFINE st == IF w.p.state = "CLOSE_WAIT" THEN "LAST_ACK" ELSE "FIN_WAIT_1"
           u == tcp_send_fin(w)
           v == [u EXCEPT !.p.state = st]
           f == {"NAGLEMEMERR", "CLOSEPEND"}
<1>1. tcp_close_shutdown_fin(w) =
        IF w.p.state \notin {"SYN_RCVD", "ESTABLISHED", "CLOSE_WAIT"} THEN w
        ELSE IF CanSendFin(w) THEN tcp_output(v) ELSE SetFlags(w, f)
  BY Zenon DEF tcp_close_shutdown_fin
<1>2. st \in States /\ st # "SYN_SENT" /\ f \in SUBSET Flags
  BY DEF States, Flags
<1> HIDE DEF f
<1>3. Good(SetFlags(w, f))
  BY <1>2, FlagsLight, LightGood DEF Good
<1>4. ASSUME w.p.state \in {"SYN_RCVD", "ESTABLISHED", "CLOSE_WAIT"}
      PROVE  Good(tcp_output(v))
  <2>1. Live(w)
    BY <1>4 DEF Live
  <2>2. Live(u)
    BY <2>1, SendFinLive
  <2> HIDE DEF u, st
  <2>3. Good(v)
    BY <1>2, <2>2, StateGood
  <2> HIDE DEF v
  <2> QED BY <2>3, OutputSound DEF Good
<1> QED
  BY <1>1, <1>3, <1>4

-----------------------------------------------------------------------------
(* The inductive invariant: both control blocks are sound.                 *)

\* Both control blocks are sound, and what they are made of has its type.
BlockInv ==
    /\ pcb \in [Ends -> Block] /\ \A e \in Ends : Sound(pcb[e])
    /\ app \in [Ends -> App] /\ net \in [Ends -> SUBSET Wire]
    /\ iss \in [Ends -> Num] /\ listening \in BOOLEAN /\ mem \in [Ends -> BOOLEAN]
    /\ asserts \in SUBSET Asserts /\ "persist in-flight" \notin asserts

LEMMA EndpointGood ==
    ASSUME BlockInv, NEW e \in Ends
    PROVE  Good(Endpoint(e)) /\ Endpoint(e).p = pcb[e] /\ Endpoint(e).a = app[e]
<1> DEFINE w == Endpoint(e)
<1>1. /\ pcb[e] \in Block /\ Sound(pcb[e]) /\ app[e] \in App /\ iss[e] \in Num
      /\ mem[e] \in BOOLEAN /\ asserts \in SUBSET Asserts
      /\ "persist in-flight" \notin asserts
  BY DEF BlockInv
<1>2. /\ {} \in SUBSET Wire /\ {} \in SUBSET Events /\ FALSE \in BOOLEAN
      /\ (e = "B" /\ listening) \in BOOLEAN
  BY Zenon
<1>3. <<>> \in Seq(Nat)
  OBVIOUS
<1>4. 0 \in Int
  OBVIOUS
<1>5. w \in Work
  BY <1>1, <1>2, <1>3, <1>4 DEF Endpoint, Work
<1>6. w.p = pcb[e] /\ w.a = app[e] /\ w.asserts = asserts
  BY DEF Endpoint
<1> QED
  BY <1>1, <1>5, <1>6 DEF Good, Fine

LEMMA CommitInv ==
    ASSUME BlockInv, NEW e \in Ends, NEW w, Good(w), NEW q \in [Ends -> SUBSET Wire],
           Commit(e, w, q)
    PROVE  BlockInv'
<1>1. /\ w.p \in Block /\ Sound(w.p) /\ w.a \in App /\ w.out \in SUBSET Wire
      /\ w.asserts \in SUBSET Asserts /\ "persist in-flight" \notin w.asserts
  BY DEF Good, Fine, Work
<1>2. Peer(e) \in Ends
  BY DEF Peer, Ends
<1>3. Link(q[Peer(e)], w.out) \in SUBSET Wire
  <2>1. q[Peer(e)] \in SUBSET Wire
    BY <1>2
  <2> QED BY <1>1, <2>1 DEF Link
<1>4. Plus(iss[e], IssStep) \in Num
  <2>1. iss[e] \in Num
    BY DEF BlockInv
  <2>2. IssStep \in Int
    BY TcpAssumption
  <2> QED BY <2>1, <2>2, NumPlus
<1>5. pcb' \in [Ends -> Block] /\ \A d \in Ends : Sound(pcb'[d])
  BY <1>1 DEF Commit, BlockInv
<1>6. app' \in [Ends -> App]
  BY <1>1 DEF Commit, BlockInv
<1>7. net' \in [Ends -> SUBSET Wire]
  <2> DEFINE x == Link(q[Peer(e)], w.out)
  <2>1. net' = [q EXCEPT ![Peer(e)] = x]
    BY DEF Commit
  <2> HIDE DEF x
  <2> QED BY <1>2, <1>3, <2>1 DEF x
<1>8. iss' \in [Ends -> Num]
  BY <1>4 DEF Commit, BlockInv
<1>9. /\ listening' \in BOOLEAN /\ mem' \in [Ends -> BOOLEAN]
      /\ asserts' \in SUBSET Asserts /\ "persist in-flight" \notin asserts'
  BY <1>1 DEF Commit, BlockInv
<1> QED
  BY <1>5, <1>6, <1>7, <1>8, <1>9 DEF BlockInv

LEMMA HostInv ==
    ASSUME BlockInv, NEW e \in Ends, NEW w, Good(w), Host(e, w) PROVE BlockInv'
<1>1. net \in [Ends -> SUBSET Wire] /\ Commit(e, w, net)
  BY DEF BlockInv, Host
<1> QED
  BY <1>1, CommitInv

-----------------------------------------------------------------------------
(* Every action keeps it.                                                  *)

\* A field of the application changes, the control block does not.
LEMMA AppGood ==
    ASSUME NEW w, Good(w), NEW a \in App
    PROVE  Good([w EXCEPT !.a = a]) /\ [w EXCEPT !.a = a].p = w.p
  BY PutApp, LightGood DEF Good

LEMMA GoodParts ==
    ASSUME NEW w, Good(w) PROVE Fine(w) /\ w \in Work /\ w.p \in Block /\ w.a \in App
  BY DEF Good, Fine, Work

LEMMA ConnectInv == ASSUME BlockInv, tcp_connect PROVE BlockInv'
<1> DEFINE n == iss["A"]
           l == Plus(n, SeqSpace - 1)
           c == tcp_alloc
           st == "SYN_SENT"
           p == [c EXCEPT !.state = st, !.snd_nxt = n, !.lastack = l, !.snd_wl2 = l,
                          !.snd_lbb = l, !.snd_wnd = TCP_WND]
           v == Endpoint("A")
           t == TRUE
           a == [v.a EXCEPT !.opened = t]
           u == [v EXCEPT !.a = a]
           w == [v EXCEPT !.p = p, !.a.opened = t, !.fresh = t]
           q == tcp_enqueue_flags(w, TRUE, FALSE)
<1>1. "A" \in Ends
  BY DEF Ends
<1>2. Host("A", tcp_output(q))
  BY Zenon DEF tcp_connect
<1>3. n \in Num /\ l \in Num /\ TCP_WND \in Nat
  BY <1>1, NumPlus, TcpOutAssumption DEF BlockInv
<1>4. Good(v)
  BY <1>1, EndpointGood
<1>5. st \in States /\ st # "TIME_WAIT"
  BY DEF States
<1>6. c \in Block /\ c.unsent = <<>> /\ c.unacked = <<>> /\ c.snd_buf = TCP_SND_BUF /\ ~c.persist
  BY AllocBlock
<1> HIDE DEF n, l, c, v
<1>7. /\ p \in Block /\ p.state = st /\ p.unsent = c.unsent /\ p.unacked = c.unacked
      /\ p.snd_buf = c.snd_buf /\ p.persist = c.persist /\ p.snd_lbb = l /\ p.lastack = l
  <2> HIDE DEF st
  <2> QED BY <1>3, <1>5, <1>6 DEF Block
<1> HIDE DEF p
<1>8. a \in App /\ v \in Work
  <2>1. t \in BOOLEAN
    OBVIOUS
  <2>2. v.a \in App /\ v \in Work
    BY <1>4, GoodParts
  <2> HIDE DEF t
  <2> QED BY <2>1, <2>2 DEF App
<1>9. w = [u EXCEPT !.p = p, !.fresh = TRUE]
  <2> HIDE DEF t
  <2>1. w = [u EXCEPT !.p = p, !.fresh = t]
    BY <1>8 DEF Work
  <2> QED BY <2>1 DEF t
<1>10. Fine(u)
  <2> HIDE DEF a
  <2> QED BY <1>4, <1>8, AppGood DEF Good
<1> HIDE DEF u, w
<1>11. Fine(w) /\ w.p = p
  BY <1>7, <1>9, <1>10, PutFresh
<1>12. Good(q)
  BY <1>5, <1>6, <1>7, <1>11, FirstSynGood
<1> HIDE DEF q
<1>13. Good(tcp_output(q))
  BY <1>12, OutputSound DEF Good
<1> QED
  BY <1>1, <1>2, <1>13, HostInv

LEMMA WriteInv ==
    ASSUME BlockInv, NEW e \in Ends, NEW n \in WriteLens, WriteBytes(e, n) PROVE BlockInv'
<1> DEFINE w == Endpoint(e)
           bytes == [i \in 1 .. n |-> app[e].wr + i]
           ok == w.mem /\ n <= w.p.snd_buf
           r == tcp_write(w, bytes)
           x == [r EXCEPT !.a.wr = @ + n]
           f == {"NAGLEMEMERR"}
<1>1. /\ pcb[e].state \in {"ESTABLISHED", "CLOSE_WAIT", "SYN_SENT"}
      /\ IF ok THEN Host(e, tcp_output(x)) ELSE Host(e, SetFlags(w, f))
  BY Zenon DEF WriteBytes
<1>2. Good(w) /\ w.p = pcb[e]
  BY EndpointGood
<1>3. n \in Nat /\ app[e].wr \in Nat
  BY TcpAssumption DEF BlockInv, App
<1>4. bytes \in Seq(Nat) /\ Len(bytes) = n
  <2>1. \A i \in 1 .. n : app[e].wr + i \in Nat
    BY <1>3
  <2> QED BY <1>3, <2>1
<1> HIDE DEF w, bytes
<1>5. CASE ok
  <2>1. Good(r)
    BY <1>1, <1>2, <1>4, <1>5, WriteGood
  <2> HIDE DEF r
  <2> DEFINE a == [r.a EXCEPT !.wr = @ + n]
  <2>2. r \in Work /\ r.a \in App
    BY <2>1, GoodParts
  <2>3. a \in App
    <3>1. r.a.wr + n \in Nat
      BY <1>3, <2>2 DEF App
    <3> QED BY <2>2, <3>1 DEF App
  <2>4. x = [r EXCEPT !.a = a]
    BY <2>2 DEF Work
  <2> HIDE DEF a, x
  <2>5. Good(x)
    BY <2>1, <2>3, <2>4, AppGood
  <2>6. Good(tcp_output(x))
    BY <2>5, OutputSound DEF Good
  <2> QED BY <1>1, <1>5, <2>6, HostInv
<1>6. CASE ~ok
  <2>1. f \in SUBSET Flags
    BY DEF Flags
  <2> HIDE DEF f
  <2>2. Good(SetFlags(w, f))
    BY <1>2, <2>1, FlagsLight, LightGood DEF Good
  <2> QED BY <1>1, <1>6, <2>2, HostInv
<1> QED
  BY <1>5, <1>6

LEMMA RecvedInv ==
    ASSUME BlockInv, NEW e \in Ends, NEW n \in ReadLens, tcp_recved(e, n) PROVE BlockInv'
<1> DEFINE w == Endpoint(e)
           p == w.p
           m == AtMost(p.rcv_wnd + n, TCP_WND)
           b == [p EXCEPT !.rcv_wnd = m]
           a == [w.a EXCEPT !.unread = @ - n]
           v == [w EXCEPT !.p = b]
           w1 == [w EXCEPT !.p.rcv_wnd = AtMost(@ + n, TCP_WND), !.a.unread = @ - n]
           w2 == tcp_update_rcv_ann_wnd(w1)
           x == IF WindowInflation(w1.p) >= TCP_WND_UPDATE_THRESHOLD
                THEN tcp_output(tcp_ack_now(w2)) ELSE w2
<1>1. Host(e, x)
  BY Zenon DEF tcp_recved
<1>2. Good(w)
  BY EndpointGood
<1> HIDE DEF w
<1>3. Fine(w) /\ w \in Work /\ p \in Block /\ w.a \in App
  BY <1>2, GoodParts
<1>4. n \in Nat
  BY TcpAssumption
<1>5. m \in Nat
  <2>1. p.rcv_wnd \in Nat
    BY <1>3 DEF Block
  <2> QED BY <1>4, <2>1, TcpOutAssumption DEF AtMost
<1>6. a \in App
  <2>1. w.a.unread - n \in Int
    BY <1>3, <1>4 DEF App
  <2> QED BY <1>3, <2>1 DEF App
<1>7. w1 = [v EXCEPT !.a = a]
  BY <1>3 DEF Work
<1> HIDE DEF m, p
<1>8. Same(p, b)
  BY <1>3, <1>5 DEF Same, Block
<1> HIDE DEF b, a
<1>9. Good(v)
  BY <1>2, <1>3, <1>8, PutSame, LightGood DEF p
<1> HIDE DEF v, w1
<1>10. Good(w1)
  BY <1>6, <1>7, <1>9, AppGood
<1>11. Good(w2)
  BY <1>10, UpdateAnnLight, LightGood DEF Good
<1> HIDE DEF w2
<1>12. Good(tcp_ack_now(w2))
  BY <1>11, AckNowLight, LightGood DEF Good
<1>13. Good(tcp_output(tcp_ack_now(w2)))
  BY <1>12, OutputSound DEF Good
<1>14. Good(x)
  BY <1>11, <1>13
<1> HIDE DEF x
<1> QED
  BY <1>1, <1>14, HostInv

LEMMA CloseInv == ASSUME BlockInv, NEW e \in Ends, tcp_close(e) PROVE BlockInv'
<1> DEFINE f == {"RXCLOSED"}
           v == SetFlags(Endpoint(e), f)
           t == TRUE
           a == [v.a EXCEPT !.closed = t, !.fin = t]
           w == [v EXCEPT !.a.closed = t, !.a.fin = t]
           unread == w.p.refused # NoData \/ w.p.rcv_wnd # TCP_WND
           c1 == w.p.state \in {"ESTABLISHED", "CLOSE_WAIT"} /\ unread
           c2 == w.p.state = "SYN_SENT"
           r == tcp_rst(w, w.p.snd_nxt, w.p.rcv_nxt)
           x == CASE c1 -> [r EXCEPT !.p = tcp_alloc]
                  [] c2 -> tcp_pcb_remove(w, FALSE)
                  [] OTHER -> tcp_close_shutdown_fin(w)
<1>1. Host(e, x)
  BY Zenon DEF tcp_close
<1>2. Good(v)
  <2>1. f \in SUBSET Flags
    BY DEF Flags
  <2> HIDE DEF f
  <2> QED BY <2>1, EndpointGood, FlagsLight, LightGood DEF Good
<1> HIDE DEF v
<1>3. Good(w)
  <2>1. v \in Work /\ v.a \in App
    BY <1>2, GoodParts
  <2>2. t \in BOOLEAN
    OBVIOUS
  <2> HIDE DEF t
  <2>3. a \in App
    BY <2>1, <2>2 DEF App
  <2>4. w = [v EXCEPT !.a = a]
    BY <2>1 DEF Work
  <2> HIDE DEF a, w
  <2> QED BY <1>2, <2>3, <2>4, AppGood
<1> HIDE DEF w
<1>4. Good([r EXCEPT !.p = tcp_alloc])
  <2>1. Fine(w) /\ w.p.snd_nxt \in Num /\ w.p.rcv_nxt \in Num
    BY <1>3, GoodParts DEF Block
  <2>2. Fine(r)
    BY <2>1, RstLight DEF Light
  <2> HIDE DEF r
  <2> QED BY <2>2, AllocGood
<1>5. Good(tcp_pcb_remove(w, FALSE)) /\ Good(tcp_close_shutdown_fin(w))
  BY <1>3, RemoveGood, ShutdownGood DEF Good
<1>6. c1 => ~c2
  OBVIOUS
<1>7. Good(x)
  <2> HIDE DEF c1, c2, r
  <2> QED BY <1>4, <1>5, <1>6
<1> HIDE DEF x
<1> QED
  BY <1>1, <1>7, HostInv

LEMMA ShutdownInv == ASSUME BlockInv, NEW e \in Ends, tcp_shutdown(e) PROVE BlockInv'
<1> DEFINE v == Endpoint(e)
           t == TRUE
           a == [v.a EXCEPT !.fin = t]
           w == [v EXCEPT !.a.fin = t]
<1>1. Host(e, tcp_close_shutdown_fin(w))
  BY Zenon DEF tcp_shutdown
<1>2. Good(v)
  BY EndpointGood
<1> HIDE DEF v
<1>3. v \in Work /\ v.a \in App
  BY <1>2, GoodParts
<1>4. t \in BOOLEAN
  OBVIOUS
<1> HIDE DEF t
<1>5. a \in App
  BY <1>3, <1>4 DEF App
<1>6. w = [v EXCEPT !.a = a]
  BY <1>3 DEF Work
<1> HIDE DEF a, w
<1>7. Good(tcp_close_shutdown_fin(w))
  BY <1>2, <1>5, <1>6, AppGood, ShutdownGood
<1> QED
  BY <1>1, <1>7, HostInv

LEMMA AbortInv == ASSUME BlockInv, NEW e \in Ends, tcp_abort_call(e) PROVE BlockInv'
<1> DEFINE v == Endpoint(e)
           t == TRUE
           a == [v.a EXCEPT !.closed = t]
           w == [v EXCEPT !.a.closed = t]
<1>1. Host(e, tcp_abort(w, FALSE))
  BY Zenon DEF tcp_abort_call
<1>2. Good(v)
  BY EndpointGood
<1> HIDE DEF v
<1>3. v \in Work /\ v.a \in App
  BY <1>2, GoodParts
<1>4. t \in BOOLEAN
  OBVIOUS
<1> HIDE DEF t
<1>5. a \in App
  BY <1>3, <1>4 DEF App
<1>6. w = [v EXCEPT !.a = a]
  BY <1>3 DEF Work
<1> HIDE DEF a, w
<1>7. Good(w)
  BY <1>2, <1>5, <1>6, AppGood
<1>8. Good(tcp_abort(w, FALSE))
  BY <1>7, AbortGood DEF Good
<1> QED
  BY <1>1, <1>8, HostInv

LEMMA PutOoseq ==
    ASSUME NEW w, Fine(w) PROVE Light(w, [w EXCEPT !.p.ooseq = <<>>])
<1> DEFINE p == w.p
           n == <<>>
           b == [p EXCEPT !.ooseq = n]
<1>1. w \in Work /\ p \in Block
  BY WorkBlock DEF Fine
<1>2. n \in Seq(Seg)
  OBVIOUS
<1>3. [w EXCEPT !.p.ooseq = <<>>] = [w EXCEPT !.p = b]
  OBVIOUS
<1> HIDE DEF p, n
<1>4. Same(p, b)
  BY <1>1, <1>2 DEF Same, Block
<1> HIDE DEF b
<1> QED
  BY <1>3, <1>4, PutSame DEF p

\* The assertion that the persist timer runs without data in flight is where
\* the soundness of the block is needed: it is evaluated in one branch only,
\* with persist set.
LEMMA SlowInv ==
    ASSUME BlockInv, NEW e \in Ends, NEW due, tcp_slowtmr(e, due) PROVE BlockInv'
<1> DEFINE w0 == Endpoint(e)
           p == w0.p
           runs == "timer" \in due /\ (p.persist \/ p.rtime)
           v == Assert2(w0, "persist in-flight", p.unacked = <<>>)
           w1 == Assert2(v, "persist empty", p.unsent # <<>>)
           c1 == MaxRetries(p)
           x == IF runs /\ ~MaxProbes(p) THEN Persist(w1) ELSE w1
           y == IF runs THEN RetransmitTimeout(w0) ELSE w0
           tick == CASE c1 -> w0 [] ~c1 /\ p.persist -> x [] OTHER -> y
           idle == /\ "idle" \in due
                   /\ \/ p.state = "FIN_WAIT_2" /\ "RXCLOSED" \in p.flags
                      \/ p.state \in {"SYN_RCVD", "LAST_ACK"}
           w2 == IF "ooseq" \in due THEN [tick EXCEPT !.p.ooseq = <<>>] ELSE tick
           z == [w2 EXCEPT !.p = tcp_alloc]
           err == TCP_EVENT_ERR(z, p.state, "ABRT")
           r == IF p.state = "TIME_WAIT"
                THEN IF "idle" \in due THEN [w0 EXCEPT !.p = tcp_alloc] ELSE w0
                ELSE IF c1 \/ MaxProbes(p) \/ idle THEN err ELSE tcp_output(w2)
<1>1. Commit(e, r, net)
  BY Zenon DEF tcp_slowtmr
<1>2. Good(w0)
  BY EndpointGood
<1> HIDE DEF w0
<1>3. ASSUME p.persist PROVE Good(x)
  <2>1. p.unacked = <<>>
    BY <1>2, <1>3 DEF Good, Sound
  <2>2. v = w0
    BY <2>1 DEF Assert2
  <2>3. "persist empty" \in Asserts \ {"persist in-flight"}
    BY DEF Asserts
  <2>4. Light(w0, w1)
    BY <1>2, <2>2, <2>3, AssertLight DEF Good
  <2> HIDE DEF w1
  <2>5. Good(w1) /\ w1.p.persist
    BY <1>2, <1>3, <2>4, LightGood DEF Light, Same
  <2>6. Good(Persist(w1))
    BY <2>5, PersistGood
  <2> QED BY <2>5, <2>6
<1>4. Good(y)
  BY <1>2, RetransmitGood
<1> HIDE DEF x, y, c1, runs
<1>5. Good(tick)
  BY <1>2, <1>3, <1>4
<1> HIDE DEF tick
<1>6. Good(w2)
  BY <1>5, PutOoseq, LightGood DEF Good
<1> HIDE DEF w2
<1>7. Good(z) /\ Good([w0 EXCEPT !.p = tcp_alloc])
  BY <1>2, <1>6, AllocGood DEF Good
<1> HIDE DEF z
<1>8. Good(err)
  <2>1. "ABRT" \in Errors
    BY DEF Errors
  <2> QED BY <1>7, <2>1, ErrLight, LightGood DEF Good
<1>9. Good(tcp_output(w2))
  BY <1>6, OutputSound DEF Good
<1> HIDE DEF err, idle
<1>10. Good(r)
  BY <1>2, <1>7, <1>8, <1>9
<1> HIDE DEF r
<1>11. net \in [Ends -> SUBSET Wire]
  BY DEF BlockInv
<1> QED
  BY <1>1, <1>10, <1>11, CommitInv

LEMMA FastInv ==
    ASSUME BlockInv, NEW e \in Ends, NEW refuse, tcp_fasttmr(e, refuse) PROVE BlockInv'
<1> DEFINE w == Endpoint(e)
           n == tcp_ack_now(w)
           o == tcp_output(n)
           f == {"ACK_DELAY", "ACK_NOW"}
           g == {"CLOSEPEND"}
           w1 == IF "ACK_DELAY" \in w.p.flags THEN ClearFlags(o, f) ELSE w
           c == ClearFlags(w1, g)
           w2 == IF "CLOSEPEND" \in w.p.flags THEN tcp_close_shutdown_fin(c) ELSE w1
           r == tcp_process_refused_data(w2, "old" \in refuse)
<1>1. Host(e, r)
  BY Zenon DEF tcp_fasttmr
<1>2. f \in SUBSET Flags /\ g \in SUBSET Flags
  BY DEF Flags
<1> HIDE DEF f, g
<1>3. Good(w)
  BY EndpointGood
<1> HIDE DEF w
<1>4. Good(n)
  BY <1>3, AckNowLight, LightGood DEF Good
<1> HIDE DEF n
<1>5. Good(o)
  BY <1>4, OutputSound DEF Good
<1> HIDE DEF o
<1>6. Good(w1)
  BY <1>2, <1>3, <1>5, FlagsLight, LightGood DEF Good
<1> HIDE DEF w1
<1>7. Good(c)
  BY <1>2, <1>6, FlagsLight, LightGood DEF Good
<1> HIDE DEF c
<1>8. Good(w2)
  BY <1>6, <1>7, ShutdownGood
<1> HIDE DEF w2
<1>9. Good(r)
  BY <1>8, RefusedLight, LightGood DEF Good
<1> HIDE DEF r
<1> QED
  BY <1>1, <1>9, HostInv

LEMMA ReceiveInv ==
    ASSUME BlockInv, NEW e \in Ends, NEW s \in net[e], NEW refuse, Receive(e, s, refuse)
    PROVE  BlockInv'
<1> DEFINE r == tcp_input(Endpoint(e), s, refuse)
<1>1. PICK stay \in BOOLEAN :
        Commit(e, r, IF stay THEN net ELSE [net EXCEPT ![e] = @ \ {s}])
  BY Zenon DEF Receive
<1>2. net \in [Ends -> SUBSET Wire] /\ s \in Wire
  BY DEF BlockInv
<1>3. Good(r)
  BY <1>2, EndpointGood, InputGood
<1> HIDE DEF r
<1> DEFINE q == IF stay THEN net ELSE [net EXCEPT ![e] = @ \ {s}]
<1>4. q \in [Ends -> SUBSET Wire]
  <2>1. net[e] \ {s} \in SUBSET Wire
    BY <1>2
  <2> QED BY <1>2, <2>1
<1>5. Commit(e, r, q)
  BY <1>1
<1> HIDE DEF q
<1> QED
  BY <1>3, <1>4, <1>5, CommitInv

LEMMA RestInv ==
    ASSUME BlockInv, NEW e \in Ends,
           \/ tcp_listen_closed \/ (\E s \in net[e] : Lose(e, s))
           \/ OutOfMemory(e) \/ MemoryBack(e)
    PROVE  BlockInv'
<1>1. CASE tcp_listen_closed
  BY <1>1 DEF tcp_listen_closed, BlockInv
<1>2. CASE \E s \in net[e] : Lose(e, s)
  <2>1. PICK s \in net[e] : Lose(e, s)
    BY <1>2
  <2>2. net' = [net EXCEPT ![e] = @ \ {s}] /\ UNCHANGED <<pcb, app, iss, listening, mem, asserts>>
    BY <2>1 DEF Lose
  <2>3. net' \in [Ends -> SUBSET Wire]
    BY <2>2 DEF BlockInv
  <2> QED BY <2>2, <2>3 DEF BlockInv
<1>3. CASE OutOfMemory(e)
  <2>1. mem' \in [Ends -> BOOLEAN]
    BY <1>3 DEF OutOfMemory, BlockInv
  <2> QED BY <1>3, <2>1 DEF OutOfMemory, BlockInv
<1>4. CASE MemoryBack(e)
  <2>1. mem' \in [Ends -> BOOLEAN]
    BY <1>4 DEF MemoryBack, BlockInv
  <2> QED BY <1>4, <2>1 DEF MemoryBack, BlockInv
<1> QED
  BY <1>1, <1>2, <1>3, <1>4

LEMMA InitInv == Init => BlockInv
<1> SUFFICES ASSUME Init PROVE BlockInv
  OBVIOUS
<1>1. pcb \in [Ends -> Block] /\ \A e \in Ends : Sound(pcb[e])
  BY AllocBlock, AllocSound DEF Init
<1>2. app \in [Ends -> App]
  <2> DEFINE a(e) == [opened |-> e = "B", wr |-> 0, rx |-> <<>>, unread |-> 0,
                      acked |-> 0, eof |-> FALSE, fin |-> FALSE,
                      closed |-> FALSE, accepted |-> 0, err |-> ""]
  <2>1. 0 \in Int /\ 0 \in Nat
    OBVIOUS
  <2>2. <<>> \in Seq(Nat)
    OBVIOUS
  <2>3. "" \in Errors
    BY DEF Errors
  <2>4. \A e : (e = "B") \in BOOLEAN
    BY Zenon
  <2>5. \A e \in Ends : a(e) \in App
    BY <2>1, <2>2, <2>3, <2>4 DEF App
  <2>6. app = [e \in Ends |-> a(e)]
    BY Zenon DEF Init
  <2> HIDE DEF a
  <2> QED BY <2>5, <2>6
<1>3. net \in [Ends -> SUBSET Wire] /\ mem \in [Ends -> BOOLEAN]
  BY DEF Init
<1>4. iss \in [Ends -> Num]
  BY TcpAssumption DEF Init, Num
<1>5. listening \in BOOLEAN /\ asserts \in SUBSET Asserts /\ "persist in-flight" \notin asserts
  BY DEF Init
<1> QED
  BY <1>1, <1>2, <1>3, <1>4, <1>5 DEF BlockInv

LEMMA NextInv == BlockInv /\ [Next]_vars => BlockInv'
<1> SUFFICES ASSUME BlockInv, [Next]_vars PROVE BlockInv'
  OBVIOUS
<1>1. CASE tcp_connect
  BY <1>1, ConnectInv
<1>2. CASE tcp_listen_closed
  <2>1. "A" \in Ends
    BY DEF Ends
  <2> QED BY <1>2, <2>1, RestInv
<1>3. ASSUME NEW e \in Ends, AppCall(e) PROVE BlockInv'
  BY <1>3, WriteInv, RecvedInv, CloseInv, ShutdownInv, AbortInv DEF AppCall
<1>4. ASSUME NEW e \in Ends, Network(e) PROVE BlockInv'
  BY <1>4, ReceiveInv, RestInv DEF Network
<1>5. ASSUME NEW e \in Ends, Timers(e) PROVE BlockInv'
  BY <1>5, SlowInv, FastInv DEF Timers
<1>6. ASSUME NEW e \in Ends, OutOfMemory(e) \/ MemoryBack(e) PROVE BlockInv'
  BY <1>6, RestInv
<1>7. CASE UNCHANGED vars
  BY <1>7 DEF vars, BlockInv
<1> QED
  BY <1>1, <1>2, <1>3, <1>4, <1>5, <1>6, <1>7 DEF Next

-----------------------------------------------------------------------------
(* The theorems.                                                           *)

\* Both control blocks stay sound, whatever the applications call, whatever
\* the network loses, repeats or reorders, and whichever deadlines pass.
THEOREM BlockInvAlways == Spec => []BlockInv
<1> QED
  BY InitInv, NextInv, PTL DEF Spec

\* LWIP_ASSERT "persist ticking with in-flight data" of tcp_slowtmr never
\* fails: tcp_output starts the persist timer only with an empty unacked queue
\* and stops it before it sends, and nothing else puts a segment in flight.
THEOREM PersistInFlightAlways == Spec => []PersistInFlight
<1>1. BlockInv => PersistInFlight
  BY DEF BlockInv, PersistInFlight
<1> QED
  BY <1>1, BlockInvAlways, PTL

\* snd_buf is exactly what the unacked and unsent queues leave of TCP_SND_BUF:
\* tcp_write, partial acknowledgements, retransmissions, the split of a segment
\* and the SYN and FIN, which take no room, never let it drift.
THEOREM SendBufferExactAlways == Spec => []SendBufferExact
<1>1. BlockInv => SendBufferExact
  <2> SUFFICES ASSUME BlockInv, NEW e \in Ends, pcb[e].state # "TIME_WAIT"
               PROVE  pcb[e].snd_buf + Len(QueuedData(pcb[e].unacked \o pcb[e].unsent))
                        = TCP_SND_BUF
    BY DEF SendBufferExact
  <2> DEFINE p == pcb[e]
             b == p.snd_buf
             i == Bytes(p.unacked)
             j == Bytes(p.unsent)
             k == Bytes(p.unacked \o p.unsent)
  <2>1. Sound(p) /\ p \in Block
    BY DEF BlockInv
  <2>2. p.unacked \in Seq(Seg) /\ p.unsent \in Seq(Seg) /\ b \in Int
    BY <2>1 DEF Block
  <2>3. b + i + j = TCP_SND_BUF
    BY <2>1 DEF Sound, Exact
  <2>4. k = i + j
    BY <2>2, BytesConcat
  <2>5. i \in Nat /\ j \in Nat
    BY <2>2, BytesNat
  <2> HIDE DEF b, i, j, k
  <2>6. b + k = TCP_SND_BUF
    BY ONLY <2>2, <2>3, <2>4, <2>5
  <2> QED BY <2>6 DEF b, k, Bytes
<1> QED
  BY <1>1, BlockInvAlways, PTL

\* What is in flight is timed.
FlightTimed ==
    \A e \in Ends : pcb[e].unacked # <<>> => pcb[e].rtime /\ ~pcb[e].persist

\* As long as a segment is in flight the retransmission timer runs, and the
\* persist timer does not: no path through the input, the output and the two
\* timers leaves a sent segment without the timer that would send it again.
THEOREM FlightTimedAlways == Spec => []FlightTimed
<1>1. BlockInv => FlightTimed
  BY DEF BlockInv, Sound, FlightTimed
<1> QED
  BY <1>1, BlockInvAlways, PTL
=============================================================================
