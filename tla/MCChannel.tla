------------------------------ MODULE MCChannel ------------------------------
(* An instance of Channel for TLC. *)
EXTENDS Channel

\* An interrupt can fill the channel by itself; a sender offers one value.
Offers == [p \in Producers |-> IF p \in Interrupts THEN Capacity ELSE 1]
=============================================================================
