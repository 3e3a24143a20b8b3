------------------------------- MODULE MCTcp -------------------------------
(* Instances of Tcp for TLC: the client writes and the server reads, from    *)
(* just below the wrap of the sequence numbers.                              *)
EXTENDS Tcp

CONSTANTS a, b

Wrapping == [e \in Ends |-> Space - 2]
Rings    == [e \in Ends |-> 2]
ByClient == [e \in Ends |-> IF e = Client THEN 3 ELSE 0]

\* Two of the client's segments may overtake each other; its link fills once.
Overtaking == [e \in Ends |-> IF e = Client THEN 2 ELSE 1]
ClientOnce == [e \in Ends |-> IF e = Client THEN 1 ELSE 0]
=============================================================================
