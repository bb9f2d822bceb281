----------------------------- MODULE MCFdEvents -----------------------------
(* Small instances of FdEvents.  The descriptor numbers matter only for the  *)
(* resizing of the context table.                                            *)
EXTENDS FdEvents

\* Both events of one descriptor, and one of a descriptor beyond the table.
ThreeWaiters == {<<2, "READ">>, <<2, "WRITE">>, <<4, "READ">>}
BothEvents == {<<2, "READ">>, <<2, "WRITE">>}
Zeroed == {{}}
=============================================================================
