---------------------------- MODULE MCRpcServices ----------------------------
(* A small instance of the registry, two providers and the pool. *)
EXTENDS RpcConnectionPool, TLC

CONSTANTS p, q, c, d

\* p offers two services, q the first of them.
TwoAndOne == (p :> <<"A", "B">>) @@ (q :> <<"A">>)
TwiceAndOnce == (c :> 2) @@ (d :> 1)
=============================================================================
