----------------------------- MODULE StreamSpec ------------------------------
(***************************************************************************)
(* What a TCP connection promises its two ends, whatever the network does: *)
(* each direction is a pipe.  What arrived is what was written so far, in  *)
(* order; the end of the stream is seen after the writer ended it, and     *)
(* after all of it; and a byte the writer forgets has arrived.             *)
(***************************************************************************)
EXTENDS Naturals

CONSTANTS Ends, Peer(_)

\* Of each end: whether it opened the connection; the bytes it wrote, and
\* whether it ended its stream; the bytes that arrived in order, and whether
\* the end of the other's stream did; the bytes of its own it may forget.
VARIABLE pipe

Init ==
  pipe = [e \in Ends |-> [opened |-> FALSE, wrote |-> 0, shut |-> FALSE, took |-> 0,
                          ended |-> FALSE, settled |-> 0]]

Becomes(e, end) == pipe' = [pipe EXCEPT ![e] = end]

Open(e) ==
  /\ ~pipe[e].opened
  /\ Becomes(e, [pipe[e] EXCEPT !.opened = TRUE])

Write(e) ==
  /\ pipe[e].opened /\ ~pipe[e].shut
  /\ pipe'[e].wrote > pipe[e].wrote
  /\ Becomes(e, [pipe[e] EXCEPT !.wrote = pipe'[e].wrote])

Shut(e) ==
  /\ pipe[e].opened
  /\ Becomes(e, [pipe[e] EXCEPT !.shut = TRUE])

\* Bytes arrive that were written, nothing after the end, which comes last; and
\* bytes of its own that the peer has are forgotten.  One segment may do both.
Input(e) ==
  LET now   == pipe[e]
      then  == pipe'[e]
      other == pipe[Peer(e)]
  IN  /\ then.took \in now.took .. (IF now.ended THEN now.took ELSE other.wrote)
      /\ now.ended => then.ended
      /\ then.ended => other.shut /\ then.took = other.wrote
      /\ then.settled \in now.settled .. other.took
      /\ Becomes(e, [now EXCEPT !.took = then.took, !.ended = then.ended, !.settled = then.settled])

Next == \E e \in Ends : Open(e) \/ Write(e) \/ Shut(e) \/ Input(e)

Spec == Init /\ [][Next]_pipe
=============================================================================
