------------------------------ MODULE TcpServer ------------------------------
(***************************************************************************)
(* acid::TcpServer (net/tcp_server.cpp) and the part of Socket it uses:    *)
(* binding, the accept fiber of each listener, start() and stop().  Both   *)
(* servers extend it: HttpServer.tla and RpcServer.tla add what            *)
(* handle_client() does with an accepted connection.                       *)
(*                                                                         *)
(* scheduled and accepting count the accept fibers of a listener that were *)
(* given to m_accept_worker and that are in their loop; stops counts the   *)
(* closing tasks of stop() that did not run yet.                           *)
(***************************************************************************)
EXTENDS Integers, Sequences, FiniteSets

CONSTANTS Clients, Addresses,
          MaxStarts  \* start() calls; only a server that was started is destroyed
ASSUME TcpAssumption == MaxStarts \in Nat \ {0}

VARIABLES m_is_stop, m_sockets, open, scheduled, accepting, stops, starts, backlog, session

tcpVars == <<m_is_stop, m_sockets, open, scheduled, accepting, stops, starts, backlog, session>>

TcpInit ==
  /\ m_is_stop = TRUE /\ m_sockets = {} /\ open = {} /\ stops = 0 /\ starts = 0
  /\ scheduled = [a \in Addresses |-> 0] /\ accepting = [a \in Addresses |-> 0]
  /\ backlog = [a \in Addresses |-> {}]
  /\ session = [c \in Clients |-> "out"]

Goes(c, s) == session' = [session EXCEPT ![c] = s]

\* bind(): one listener for each address; when one of them cannot be bound
\* or listened on, all the server has are dropped, and so closed.
Bind(as, fails) ==
  /\ m_sockets = {} /\ starts = 0
  /\ m_sockets' = IF fails = {} THEN as ELSE {}
  /\ open' = IF fails = {} THEN open \cup as ELSE {}
  /\ UNCHANGED <<m_is_stop, scheduled, accepting, stops, starts, backlog, session>>

Start ==
  /\ m_is_stop /\ starts < MaxStarts
  /\ m_is_stop' = FALSE /\ starts' = starts + 1
  /\ scheduled' = [a \in Addresses |-> scheduled[a] + IF a \in m_sockets THEN 1 ELSE 0]
  /\ UNCHANGED <<m_sockets, open, accepting, stops, backlog, session>>

\* stop() is called once for a start().
Stop ==
  /\ ~m_is_stop
  /\ m_is_stop' = TRUE /\ stops' = stops + 1
  /\ UNCHANGED <<m_sockets, open, scheduled, accepting, starts, backlog, session>>

\* Its task on the accept worker: the fibers that wait in accept() are woken
\* by cancel_all(), the listeners closed; who waits in a backlog is refused.
StopTask ==
  /\ stops > 0
  /\ stops' = stops - 1
  /\ open' = open \ m_sockets /\ m_sockets' = {}
  /\ session' = [c \in Clients |-> IF \E a \in m_sockets : c \in backlog[a] THEN "gone" ELSE session[c]]
  /\ backlog' = [a \in Addresses |-> IF a \in m_sockets THEN {} ELSE backlog[a]]
  /\ UNCHANGED <<m_is_stop, scheduled, accepting, starts>>

\* start_accept(): the loop's condition is read before each accept().
Enters(a) == IF m_is_stop THEN 0 ELSE 1

StartAccept(a) ==
  /\ scheduled[a] > 0
  /\ scheduled' = [scheduled EXCEPT ![a] = @ - 1]
  /\ accepting' = [accepting EXCEPT ![a] = @ + Enters(a)]
  /\ UNCHANGED <<m_is_stop, m_sockets, open, stops, starts, backlog, session>>

\* A client is accepted, given to m_io_worker, and the loop goes round.
Accept(a, c) ==
  /\ accepting[a] > 0 /\ a \in open /\ c \in backlog[a]
  /\ backlog' = [backlog EXCEPT ![a] = @ \ {c}]
  /\ Goes(c, "scheduled")
  /\ accepting' = [accepting EXCEPT ![a] = @ - 1 + Enters(a)]
  /\ UNCHANGED <<m_is_stop, m_sockets, open, scheduled, stops, starts>>

\* accept() on a closed listener returns at once with an error; unless the
\* server is stopped the loop calls it again.
AcceptFails(a) ==
  /\ accepting[a] > 0 /\ a \notin open /\ m_is_stop
  /\ accepting' = [accepting EXCEPT ![a] = @ - 1]
  /\ UNCHANGED <<m_is_stop, m_sockets, open, scheduled, stops, starts, backlog, session>>

\* A client connects to a listener.
Connect(a, c) ==
  /\ session[c] = "out" /\ a \in open
  /\ backlog' = [backlog EXCEPT ![a] = @ \cup {c}]
  /\ Goes(c, "backlog")
  /\ UNCHANGED <<m_is_stop, m_sockets, open, scheduled, accepting, stops, starts>>

BindAny == \E as \in SUBSET Addresses \ {{}} : \E fails \in SUBSET as : Bind(as, fails)
AcceptStep == \E a \in Addresses : StartAccept(a) \/ AcceptFails(a) \/ \E c \in Clients : Accept(a, c)

TcpNext == \/ BindAny
           \/ Start
           \/ Stop
           \/ StopTask
           \/ AcceptStep
           \/ \E a \in Addresses, c \in Clients : Connect(a, c)

\* The workers run what is scheduled and an accept() that can return does.
TcpFairness == WF_tcpVars(StopTask) /\ WF_tcpVars(AcceptStep)
==============================================================================
