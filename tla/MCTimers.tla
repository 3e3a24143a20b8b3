------------------------------- MODULE MCTimers ------------------------------
EXTENDS Timers, TLC

Symmetry == Permutations(Tasks)
=============================================================================
