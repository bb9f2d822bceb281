------------------------------- MODULE Servers -------------------------------
(***************************************************************************)
(* The two servers side by side: kind says which class the server of a     *)
(* behaviour is.  Both override TcpServer::handle_client(), so they share  *)
(* its accepting, starting and stopping.                                   *)
(***************************************************************************)
EXTENDS HttpServer, RpcServer

VARIABLE kind

vars == <<kind, tcpVars, httpVars, rpcVars>>

Init == TcpInit /\ HttpInit /\ RpcInit /\ kind \in {"http", "rpc"}

Next == \/ kind = "http" /\ HttpNext /\ UNCHANGED <<kind, rpcVars>>
        \/ kind = "rpc" /\ RpcNext /\ UNCHANGED <<kind, httpVars>>

\* The workers run what is scheduled, a read, an accept and a channel that
\* can go on do.  Clients, admins, timers and failures have no fairness.
Fairness ==
  /\ WF_vars(kind = "http" /\ (StopTask \/ AcceptStep) /\ UNCHANGED <<kind, httpVars, rpcVars>>)
  /\ WF_vars(kind = "rpc" /\ (StopTask \/ AcceptStep) /\ cleaner = "running" /\ UNCHANGED <<kind, httpVars, rpcVars>>)
  /\ \A c \in Clients :
       /\ WF_vars(kind = "http" /\ SessionStep(c) /\ UNCHANGED <<kind, rpcVars>>)
       /\ WF_vars(kind = "rpc" /\ RpcStep(c) /\ UNCHANGED <<kind, httpVars>>)
  /\ WF_vars(kind = "rpc" /\ (\E t \in tasks : Answers(t)) /\ UNCHANGED <<kind, httpVars>>)
  /\ WF_vars(kind = "rpc" /\ CleanerStops /\ UNCHANGED <<kind, httpVars>>)

Spec == Init /\ [][Next]_vars

FairSpec == Spec /\ Fairness

-----------------------------------------------------------------------------
\* The servers' states and the bounds (tcp_server.h, http_server.h,
\* rpc_server.h).
TypeOK ==
  /\ m_sockets \subseteq open /\ open \subseteq Addresses
  /\ \A a \in Addresses : scheduled[a] \in 0 .. MaxStarts /\ accepting[a] \in 0 .. MaxStarts
  /\ session \in [Clients -> {"out", "backlog", "scheduled", "recv", "handle", "send",
                              "spins", "left", "closed", "gone"}]
  /\ \A c \in Clients : Len(answers[c]) <= Len(asked[c]) /\ Len(replies[c]) <= Len(sent[c])
  /\ \A t \in tasks : t.at \in {"handle", "send", "spins"}
  /\ timers \in [Clients -> 0 .. MaxMessages + 1]

\* However its bytes are split over reads, as long as no read cuts a token
\* or takes bytes of two requests, the i-th answer of a connection carries
\* the i-th request's path and body, and no request is answered by a half
\* received one (HttpSession::recv_request, http_parse.cpp).
AnswersMatch ==
  \A c \in Clients : clean[c] =>
    \A i \in DOMAIN answers[c] : /\ answers[c][i].path = asked[c][i].path
                                 /\ answers[c][i].body = asked[c][i].path

\* Every answer of the RPC server is the answer to one request of that
\* client, which it did not answer before, whatever order the tasks ran in;
\* a registered method is answered with a result (RpcServer::handle_client,
\* handle_method_call).
RepliesMatch ==
  \A c \in Clients : \A i \in DOMAIN replies[c] :
    LET r == replies[c][i] IN
    /\ r.id \in DOMAIN sent[c]
    /\ \A j \in DOMAIN replies[c] : replies[c][j].id = r.id => j = i
    /\ (r.reply = "result") = (sent[c][r.id].type = "call" /\ sent[c][r.id].key \in Methods)

\* A server that is destroyed has no fiber, no task and no subscriber's lock
\* left that could reach it, and closed every listener (RpcServer::~RpcServer,
\* TcpServer::stop).
DestroyedIdle ==
  cleaner # "running" => /\ tasks = {} /\ open = {} /\ ~publishing
                         /\ \A a \in Addresses : scheduled[a] + accepting[a] = 0

\* Once a server that was started is stopped for good every accept fiber ends and every
\* listener is closed, even when it was started again while the closing task
\* of an earlier stop() was still queued (TcpServer::stop, start_accept).
StopsAccepting ==
  <>[](m_is_stop /\ starts > 0) => <>[](m_sockets = {} /\ \A a \in Addresses : scheduled[a] + accepting[a] = 0)

\* A connection that was accepted ends, or its client's last request has
\* been answered, unless a send to a client that is gone spins
\* (HttpServer::handle_client, RpcServer::handle_client).
SessionsEnd ==
  \A c \in Clients : session[c] = "scheduled" ~> session[c] \in {"closed", "spins", "left"}

\* The servers' states, and what a destroyed one has left (RpcServer::~RpcServer).
ServersSound == TypeOK /\ DestroyedIdle

\* Accepting and serving both come to an end (TcpServer, handle_client).
ServingEnds == StopsAccepting /\ SessionsEnd
==============================================================================
