----------------------------- MODULE ChannelSpec -----------------------------
(***************************************************************************)
(* What a devkit channel promises about values: each is accepted once or   *)
(* handed back, the accepted ones come out once and in the order they were *)
(* accepted, and none is accepted after the receiver has gone.             *)
(***************************************************************************)
EXTENDS Sequences, Naturals, SequencesExt

CONSTANTS Values, Capacity

VARIABLES buf, gone, fate

vars == <<buf, gone, fate>>

Fates == {"new", "queued", "taken", "returned", "dropped"}

Init == buf = <<>> /\ gone = FALSE /\ fate = [v \in Values |-> "new"]

Accept(v) ==
  /\ fate[v] = "new" /\ ~gone /\ Len(buf) < Capacity
  /\ buf' = Append(buf, v) /\ fate' = [fate EXCEPT ![v] = "queued"]
  /\ UNCHANGED gone

\* try_send hands a value back only from a full or closed channel.
Return(v) ==
  /\ fate[v] = "new" /\ (gone \/ Len(buf) = Capacity)
  /\ fate' = [fate EXCEPT ![v] = "returned"] /\ UNCHANGED <<buf, gone>>

\* A send drops its value when the receiver has gone or its caller gives up.
Discard(v) ==
  /\ fate[v] = "new"
  /\ fate' = [fate EXCEPT ![v] = "dropped"] /\ UNCHANGED <<buf, gone>>

Take ==
  /\ buf # <<>>
  /\ buf' = Tail(buf) /\ fate' = [fate EXCEPT ![Head(buf)] = "taken"]
  /\ UNCHANGED gone

Close ==
  /\ ~gone /\ gone' = TRUE /\ buf' = <<>>
  /\ fate' = [v \in Values |-> IF v \in ToSet(buf) THEN "dropped" ELSE fate[v]]

Next == (\E v \in Values : Accept(v) \/ Return(v) \/ Discard(v)) \/ Take \/ Close

Spec == Init /\ [][Next]_vars
=============================================================================
