------------------------------ MODULE RpcServer ------------------------------
(***************************************************************************)
(* acid::rpc::RpcServer (rpc/rpc_server.cpp, .h), its own connections: the *)
(* receiving fiber of each, a task for each request, the timers that close *)
(* a silent client, the subscribers and their cleaner, publish(), and the  *)
(* destructor's meeting with the cleaner.  (What it does as a provider of  *)
(* the registry is in RpcServiceRegistry.tla.)  A connection carries whole *)
(* messages here; Wire.tla has the bytes.                                  *)
(*                                                                         *)
(* A message is a record: id, type, key.  sent is what each client sent,   *)
(* inbox what of it was not received yet, tasks the fibers that answer,    *)
(* up[c] whether the server's socket of c is open.                         *)
(***************************************************************************)
EXTENDS TcpServer

CONSTANTS Methods,      \* registered ones
          Calls,        \* what clients send: [type, key] records
          MaxMessages,  \* of each client
          MaxPublish    \* publish() calls
ASSUME RpcAssumption == MaxMessages \in Nat

VARIABLES sent, inbox, tasks, replies, timers, up, subs, publishing, published, cleaner

rpcVars == <<sent, inbox, tasks, replies, timers, up, subs, publishing, published, cleaner>>
tcpRestR == <<m_is_stop, m_sockets, open, scheduled, accepting, stops, starts, backlog>>

RpcInit ==
  /\ sent = [c \in Clients |-> <<>>] /\ inbox = [c \in Clients |-> <<>>]
  /\ tasks = {} /\ replies = [c \in Clients |-> <<>>]
  /\ timers = [c \in Clients |-> 0] /\ up = [c \in Clients |-> TRUE]
  /\ subs = {} /\ publishing = FALSE /\ published = 0
  /\ cleaner = "running"

RpcSend(c, m) ==
  /\ session[c] \in {"scheduled", "recv"} /\ Len(sent[c]) < MaxMessages
  /\ LET msg == [id |-> Len(sent[c]) + 1, type |-> m.type, key |-> m.key]
     IN  sent' = [sent EXCEPT ![c] = Append(@, msg)] /\ inbox' = [inbox EXCEPT ![c] = Append(@, msg)]
  /\ UNCHANGED <<tcpVars, tasks, replies, timers, up, subs, publishing, published, cleaner>>

\* update() has its timer by value, so the caller's stays null and every
\* call adds one more, each of them recurring.
Update(c) == timers' = [timers EXCEPT ![c] = @ + 1]

HandleClient(c) ==
  /\ session[c] = "scheduled" /\ Goes(c, "recv") /\ Update(c)
  /\ UNCHANGED <<tcpRestR, sent, inbox, tasks, replies, up, subs, publishing, published, cleaner>>

\* Mutant: the task refers to the last message the client sent.
RecvByReference(c) ==
  /\ session[c] = "recv" /\ up[c] /\ inbox[c] # <<>>
  /\ inbox' = [inbox EXCEPT ![c] = Tail(@)] /\ Update(c)
  /\ tasks' = tasks \cup {[client |-> c, msg |-> sent[c][Len(sent[c])], at |-> "handle", reply |-> "none"]}
  /\ UNCHANGED <<tcpVars, sent, replies, up, subs, publishing, published, cleaner>>

\* A message arrives and a task is scheduled for it.
RecvRequest(c) ==
  /\ session[c] = "recv" /\ up[c] /\ inbox[c] # <<>>
  /\ inbox' = [inbox EXCEPT ![c] = Tail(@)] /\ Update(c)
  /\ tasks' = tasks \cup {[client |-> c, msg |-> Head(inbox[c]), at |-> "handle", reply |-> "none"]}
  /\ UNCHANGED <<tcpVars, sent, replies, up, subs, publishing, published, cleaner>>

\* The client has closed, or the connection was closed under the fiber.
RecvFails(c) ==
  /\ session[c] = "recv" /\ Goes(c, "left")
  /\ UNCHANGED <<tcpRestR, sent, inbox, tasks, replies, timers, up, subs, publishing, published, cleaner>>

Becomes(t, at, reply) ==
  tasks' = (tasks \ {t}) \cup {[client |-> t.client, msg |-> t.msg, at |-> at, reply |-> reply]}

\* handle_method_call(), call(): a method nobody registered gives an answer
\* with nothing in it.
HandleMethodCall(t) ==
  /\ t.at = "handle" /\ t.msg.type = "call"
  /\ Becomes(t, "send", IF t.msg.key \in Methods THEN "result" ELSE "empty")
  /\ UNCHANGED <<tcpVars, sent, inbox, replies, timers, up, subs, publishing, published, cleaner>>

HandleHeartbeat(t) ==
  /\ t.at = "handle" /\ t.msg.type = "heartbeat" /\ Becomes(t, "send", "heartbeat")
  /\ UNCHANGED <<tcpVars, sent, inbox, replies, timers, up, subs, publishing, published, cleaner>>

\* handle_subscribe(), under m_sub_mutex: the result is written over the
\* start of the request, and to_string() gives what is left behind it.
HandleSubscribe(t) ==
  /\ t.at = "handle" /\ t.msg.type = "subscribe" /\ ~publishing
  /\ subs' = subs \cup {<<t.msg.key, t.client>>}
  /\ Becomes(t, "send", "leftover")
  /\ UNCHANGED <<tcpVars, sent, inbox, replies, timers, up, publishing, published, cleaner>>

\* A publish response or a type the server does not know: no answer.
HandleOther(t) ==
  /\ t.at = "handle" /\ t.msg.type \notin {"call", "heartbeat", "subscribe"}
  /\ tasks' = tasks \ {t}
  /\ UNCHANGED <<tcpVars, sent, inbox, replies, timers, up, subs, publishing, published, cleaner>>

Respond(t) ==
  /\ t.at = "send" /\ up[t.client]
  /\ replies' = [replies EXCEPT ![t.client] = Append(@, [id |-> t.msg.id, reply |-> t.reply])]
  /\ tasks' = tasks \ {t}
  /\ UNCHANGED <<tcpVars, sent, inbox, timers, up, subs, publishing, published, cleaner>>

\* The socket was closed meanwhile: write() returns -1 and write_fix_size()
\* goes on for ever (Wire.tla, SendFails).
RespondSpins(t) ==
  /\ t.at = "send" /\ ~up[t.client] /\ Becomes(t, "spins", t.reply)
  /\ UNCHANGED <<tcpVars, sent, inbox, replies, timers, up, subs, publishing, published, cleaner>>

\* A timer of update(): m_alive_time after a message, whatever came since.
AliveTimeout(c) ==
  /\ timers[c] > 0 /\ up[c]
  /\ up' = [up EXCEPT ![c] = FALSE]
  /\ UNCHANGED <<tcpVars, sent, inbox, tasks, replies, timers, subs, publishing, published, cleaner>>

\* The last owner of the session is gone, ~SocketStream() closes the socket.
SessionEnds(c) ==
  /\ session[c] = "left" /\ \A t \in tasks : t.client # c
  /\ Goes(c, "closed") /\ up' = [up EXCEPT ![c] = FALSE]
  /\ UNCHANGED <<tcpRestR, sent, inbox, tasks, replies, timers, subs, publishing, published, cleaner>>

\* The recurring cleaning task, under m_sub_mutex.
Clean ==
  /\ cleaner = "running" /\ ~publishing
  /\ \E s \in subs : ~up[s[2]]
  /\ subs' = { s \in subs : up[s[2]] }
  /\ UNCHANGED <<tcpVars, sent, inbox, tasks, replies, timers, up, publishing, published, cleaner>>

\* publish(): with a subscriber of the key the loop never moves on from the
\* first one, and m_sub_mutex is never released.
Subscribers(key) == { s \in subs : s[1] = key }
Publish(key) ==
  /\ cleaner = "running" /\ ~publishing /\ published < MaxPublish /\ subs # {}
  /\ published' = published + 1
  /\ publishing' = (Subscribers(key) # {})
  /\ UNCHANGED <<tcpVars, sent, inbox, tasks, replies, timers, up, subs, cleaner>>

\* Mutant: a task does not own the server.
UnusedButByTasks == /\ m_is_stop /\ stops = 0 /\ ~publishing
                    /\ \A a \in Addresses : scheduled[a] = 0 /\ accepting[a] = 0
                    /\ \A c \in Clients : session[c] \notin {"scheduled", "recv"}

\* ~RpcServer(): nobody holds the server any more; it says stop and waits
\* for the cleaning task to say that it will not run again.
Unused == /\ m_is_stop /\ stops = 0 /\ tasks = {} /\ ~publishing
          /\ \A a \in Addresses : scheduled[a] = 0 /\ accepting[a] = 0
          /\ \A c \in Clients : session[c] \notin {"scheduled", "recv"}
Destroy ==
  /\ cleaner = "running" /\ starts = MaxStarts /\ Unused
  /\ cleaner' = "stopping"
  /\ UNCHANGED <<tcpVars, sent, inbox, tasks, replies, timers, up, subs, publishing, published>>
CleanerStops ==
  /\ cleaner = "stopping" /\ cleaner' = "stopped"
  /\ UNCHANGED <<tcpVars, sent, inbox, tasks, replies, timers, up, subs, publishing, published>>

Answers(t) == HandleMethodCall(t) \/ HandleHeartbeat(t) \/ HandleSubscribe(t) \/ HandleOther(t)
              \/ Respond(t) \/ RespondSpins(t)

RpcStep(c) == HandleClient(c) \/ RecvRequest(c) \/ RecvFails(c) \/ SessionEnds(c)

RpcNext ==
  \/ TcpNext /\ cleaner = "running" /\ UNCHANGED rpcVars
  \/ \E c \in Clients : RpcStep(c)
  \/ \E c \in Clients : AliveTimeout(c)
  \/ \E c \in Clients, m \in Calls : RpcSend(c, m)
  \/ \E t \in tasks : Answers(t)
  \/ Clean
  \/ \E m \in Calls : Publish(m.key)
  \/ Destroy
  \/ CleanerStops
==============================================================================
