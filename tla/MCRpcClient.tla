----------------------------- MODULE MCRpcClient -----------------------------
(* Small instances of RpcClient. *)
EXTENDS RpcClient

CONSTANTS a, b

Client(heartbeat, limit, n, m) ==
    [auto |-> heartbeat, limited |-> limit, calls |-> (a :> n) @@ (b :> m)]

\* A caller that calls twice, so that the answer to a call that has timed out
\* meets the fiber's next call; two callers; a call beside the heartbeat.
SomeClients ==
    {Client(FALSE, TRUE, 2, 0), Client(FALSE, TRUE, 1, 1), Client(FALSE, FALSE, 1, 1),
     Client(TRUE, TRUE, 1, 0)}
=============================================================================
