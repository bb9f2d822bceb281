------------------------------- MODULE MCHook -------------------------------
(* Small instances of Hook: one fiber for each direction. *)
EXTENDS Hook

\* The reader calls twice, so that a callback of its first call can be late.
ReaderTwice == [f \in Fibers |-> IF f \in Writer THEN 1 ELSE 2]
Once == [f \in Fibers |-> 1]
=============================================================================
