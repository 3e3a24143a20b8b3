----------------------------- MODULE TokenSpec ------------------------------
(***************************************************************************)
(* What the wakeups of a thread promise it: one token of each kind, given  *)
(* any number of times, kept until the thread waits for that kind, and     *)
(* taken by such a wait alone.  A wait ends with its token, or without one *)
(* once its ticks have passed.                                             *)
(***************************************************************************)
EXTENDS Integers

CONSTANTS Kinds, Forever, None

VARIABLES
  tokens,    \* the kinds given and not taken yet
  waiting,   \* the kind the thread waits for, or None
  left       \* the ticks it still waits, or Forever

vars == <<tokens, waiting, left>>

Init == tokens = {} /\ waiting = None /\ left = 0

Give(k) == tokens' = tokens \cup {k} /\ UNCHANGED <<waiting, left>>

Wait(k) == waiting = None /\ waiting' = k /\ UNCHANGED tokens

Ends == waiting' = None /\ left' = 0
Take == waiting \in tokens /\ tokens' = tokens \ {waiting} /\ Ends
GiveUp == waiting # None /\ left = 0 /\ UNCHANGED tokens /\ Ends

Tick ==
  /\ waiting # None /\ left \notin {0, Forever}
  /\ left' = left - 1
  /\ UNCHANGED <<tokens, waiting>>

Next == (\E k \in Kinds : Give(k) \/ Wait(k)) \/ Take \/ GiveUp \/ Tick

Spec == Init /\ [][Next]_vars
=============================================================================
