------------------------------ MODULE MutexSpec ------------------------------
(* What a mutual-exclusion lock promises: at most one holder, which alone    *)
(* gives the lock up.  CoMutex implements it.                                *)
CONSTANTS Fibers, NoFiber

VARIABLE holder

Init == holder = NoFiber

Acquire(f) == holder = NoFiber /\ holder' = f
Release(f) == holder = f /\ holder' = NoFiber

Next == \E f \in Fibers : Acquire(f) \/ Release(f)

Spec == Init /\ [][Next]_holder
=============================================================================
