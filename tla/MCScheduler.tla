---------------------------- MODULE MCScheduler ----------------------------
(* Instances of Scheduler for TLC. *)
EXTENDS Scheduler, TLC

CONSTANTS w1, w2, j1, j2

NoPin == [j \in Jobs |-> NoWorker]

\* j1 belongs to the first thread.
PinJ1 == [j \in Jobs |-> IF j = j1 THEN w1 ELSE NoWorker]
============================================================================
