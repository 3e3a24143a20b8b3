------------------------------ MODULE LinkSpec ------------------------------
(***************************************************************************)
(* What the link to the coprocessor promises a packet put into a lane: it  *)
(* is handled once, after those put in before it, unless a transfer fails. *)
(* The lanes may overtake each other.                                      *)
(***************************************************************************)
EXTENDS Integers, Sequences, SequencesExt

CONSTANT Lanes

VARIABLES
  transit,   \* each lane's packets that were put in and not handled yet
  failures   \* transfers that failed

vars == <<transit, failures>>

Init == transit = [l \in Lanes |-> <<>>] /\ failures = 0

\* Of a packet that is not there yet.
Put(l) ==
  /\ \E p \in ToSet(transit'[l]) \ ToSet(transit[l]) :
       transit' = [transit EXCEPT ![l] = Append(@, p)]
  /\ UNCHANGED failures

Handle(l) ==
  /\ transit[l] # <<>>
  /\ transit' = [transit EXCEPT ![l] = Tail(@)]
  /\ UNCHANGED failures

\* A transfer takes what it carried with it, neighbours in their lanes.
Cut(s, first, last) == SubSeq(s, 1, first - 1) \o SubSeq(s, last + 1, Len(s))

Fail ==
  /\ failures' = failures + 1
  /\ \A l \in Lanes : \E first, last \in 0 .. Len(transit[l]) :
       transit'[l] = IF first = 0 THEN transit[l] ELSE Cut(transit[l], first, last)
  /\ DOMAIN transit' = Lanes

Next ==
  \/ \E l \in Lanes : transit'[l] # transit[l] /\ (Put(l) \/ Handle(l))
  \/ Fail

Spec == Init /\ [][Next]_vars
=============================================================================
