--------------------------- MODULE MCTimerManager ---------------------------
(* Small instances of TimerManager. *)
EXTENDS TimerManager, TLC

Symmetry == Permutations(Clients) \cup Permutations(Workers) \cup Permutations(Timers)
=============================================================================
