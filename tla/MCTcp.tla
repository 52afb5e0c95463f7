------------------------------- MODULE MCTcp --------------------------------
\* Small instances of Tcp: the client's sequence numbers wrap around.
EXTENDS Tcp

MCIss == [e \in Ends |-> IF e = "A" THEN SeqSpace - 2 ELSE 9]

ClientWrites(n) == [e \in Ends |-> IF e = "A" THEN n ELSE 0]
Three == ClientWrites(3)
Four  == ClientWrites(4)
Five  == ClientWrites(5)
=============================================================================
