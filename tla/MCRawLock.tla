----------------------------- MODULE MCRawLock -----------------------------
(* An instance of RawLock for TLC: who the lockers are and how urgent. *)
EXTENDS RawLock

CONSTANTS t1, t2, f1

\* t2 overtakes the others in the queue.
OneUrgent == [l \in Lockers |-> IF l = t2 THEN 2 ELSE 1]

\* f1 locks to write, t2 to read and t1 either way.
Mixed   == [l \in Lockers |-> IF l = f1 THEN {FALSE} ELSE IF l = t2 THEN {TRUE} ELSE BOOLEAN]

\* States are the same that differ only in what nobody reads again: the waiter
\* of a locker that has none and the mode of one that does not ask.  Start sets
\* them anew.
View ==
  <<word, queue, pc, slot, signal, crit, picked, given, clear, wakes, more, unparking,
    [l \in Lockers |-> Wants(l) /\ aged[l]],
    [l \in Lockers |-> IF Wants(l) THEN wst[l] ELSE "none"],
    [l \in Lockers |-> pc[l] \notin {"idle", "ended"} /\ shared[l]]>>
=============================================================================
