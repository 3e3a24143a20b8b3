---------------------------- MODULE RwLockSpec ----------------------------
(***************************************************************************)
(* What devkit::sync promises (Mutex and RwLock): at any moment either one *)
(* locker has the lock for writing or any number have it for reading.  A   *)
(* release may in the same step hand the lock to others, which is how      *)
(* RawLock passes it to waiters that have queued for long.                 *)
(***************************************************************************)
EXTENDS FiniteSets

CONSTANT Lockers

VARIABLES writers, readers   \* the lockers that have the lock, by mode

vars == <<writers, readers>>

TypeOK == writers \in SUBSET Lockers /\ readers \in SUBSET Lockers

Init == writers = {} /\ readers = {}

Free == writers = {} /\ readers = {}

\* One locker takes the lock for writing, or some take it for reading.
Take ==
  \/ /\ Free
     /\ \E l \in Lockers : writers' = {l}
     /\ UNCHANGED readers
  \/ /\ writers = {}
     /\ \E S \in SUBSET (Lockers \ readers) : readers' = readers \cup S
     /\ UNCHANGED writers

DropWrite(l) ==
  /\ l \in writers
  /\ writers' = {}
  /\ UNCHANGED readers

DropRead(l) ==
  /\ l \in readers
  /\ readers' = readers \ {l}
  /\ UNCHANGED writers

\* The writer lets go and the next owners have the lock at once.
HandOver(l) ==
  /\ l \in writers
  /\ \/ \E next \in Lockers \ {l} : writers' = {next} /\ UNCHANGED readers
     \/ \E S \in SUBSET (Lockers \ {l}) : writers' = {} /\ readers' = S

Next == Take \/ \E l \in Lockers : DropWrite(l) \/ DropRead(l) \/ HandOver(l)

Spec == Init /\ [][Next]_vars
=============================================================================
