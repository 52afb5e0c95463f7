------------------------------- MODULE Stream -------------------------------
(***************************************************************************)
(* What a TCP connection promises its two applications: each direction is  *)
(* a stream. The bytes delivered at one end are the bytes written at the   *)
(* other, in order and without repetition, and the end of the stream is    *)
(* reported once the writer has closed and everything it wrote has been    *)
(* delivered. Bytes are named by their position, 1, 2, and so on.          *)
(***************************************************************************)
EXTENDS Integers, Sequences

CONSTANTS Ends, Peer(_)

VARIABLES written,     \* bytes each end has written
          closed,      \* ends that will write no more
          delivered,   \* the bytes each end has received
          eof          \* ends that were told the stream has ended

vars == <<written, closed, delivered, eof>>

Init == /\ written   = [e \in Ends |-> 0]
        /\ closed    = [e \in Ends |-> FALSE]
        /\ delivered = [e \in Ends |-> <<>>]
        /\ eof       = [e \in Ends |-> FALSE]

Write(e) == /\ ~closed[e]
            /\ written' = [written EXCEPT ![e] = written'[e]]
            /\ written'[e] \in Nat /\ written'[e] > written[e]
            /\ UNCHANGED <<closed, delivered, eof>>

Close(e) == /\ ~closed[e]
            /\ closed' = [closed EXCEPT ![e] = TRUE]
            /\ UNCHANGED <<written, delivered, eof>>

\* More of the stream arrives at e, perhaps all of it and then its end.
Receive(e) ==
    /\ ~eof[e]
    /\ \E n \in Len(delivered[e]) .. written[Peer(e)] :
          delivered' = [delivered EXCEPT ![e] = [i \in 1 .. n |-> i]]
    /\ \E end \in {FALSE} \cup {closed[Peer(e)] /\ Len(delivered'[e]) = written[Peer(e)]} :
          eof' = [eof EXCEPT ![e] = end]
    /\ UNCHANGED <<written, closed>>

Next == \E e \in Ends : Write(e) \/ Close(e) \/ Receive(e)

Spec == Init /\ [][Next]_vars
=============================================================================
