--------------------------- MODULE RpcConnectionPool ---------------------------
(***************************************************************************)
(* The pool of connections (acid/rpc/rpc_connection_pool.h, .cpp) that     *)
(* calls a service by its name, composed with the registry and providers.  *)
(*                                                                         *)
(* call() looks for a connection to the service, calls on it without       *)
(* m_connections_mutex, and when the server has closed it takes the mutex  *)
(* again, forgets the address and selects another, after a discovery if    *)
(* none is left.  It keeps m_connections_mutex while it waits for the      *)
(* answer, which handle_recv() brings; handle_recv() itself takes the      *)
(* mutex in the handler of a publication, with m_sub_mutex held.           *)
(*                                                                         *)
(* An RpcClient is abstract here: it is told RPC_CLOSED when its server    *)
(* has gone, and else gets an answer or a time-out.  The random route is   *)
(* a choice.  The sending fiber is part of the step that sends.            *)
(***************************************************************************)
EXTENDS RpcServiceRegistry

CONSTANTS
    Callers,    \* fibers that call
    MaxCalls    \* bound: calls of each caller

ASSUME PoolAssumption == MaxCalls \in [Callers -> Nat] /\ "none" \notin Callers

VARIABLES
    poolClosed,   \* m_is_close
    connMutex,    \* holder of m_connections_mutex
    subMutex,     \* holder of m_sub_mutex between two steps
    cache,        \* m_service_cache, as sets of addresses
    connection,   \* m_connections: service -> connection
    discovering,  \* m_discover_handle: service -> the caller that waits
    subscribed,   \* keys of m_sub_handle
    pc,           \* where each caller is
    calls,        \* number of its current or last call
    want,         \* the service it calls
    using,        \* the connection it calls on
    box,          \* its discovery channel: nothing, or a set of addresses
    recv          \* where handle_recv() is

callerVars == <<pc, calls, want, using, box>>
poolVars == <<poolClosed, connMutex, subMutex, cache, connection, discovering, subscribed,
              callerVars, recv>>
vars == <<registryVars, poolVars>>

\* A connection: its server, and the call that opened it.
Connection(p, c) == [to |-> p, by |-> c, call |-> calls[c]]
NoConnection == [to |-> Pool, by |-> Pool, call |-> 0]
Connections == [to : Providers, by : Callers, call : Nat]

TypeOK ==
    /\ RegistryTypeOK
    /\ poolClosed \in BOOLEAN /\ connMutex \in Callers \cup {"none"}
    /\ subMutex \in {"none", "recv"}
    /\ cache \in [Services -> SUBSET Providers]
    /\ connection \in [Services -> Connections \cup {NoConnection}]
    /\ DOMAIN discovering \subseteq Services /\ subscribed \subseteq Services
    /\ pc \in [Callers -> {"idle", "find", "call", "relock", "choose", "send", "await",
                           "subscribe", "connect", "last", "dead"}]
    /\ calls \in [Callers -> Nat] /\ \A c \in Callers : calls[c] <= MaxCalls[c]
    /\ want \in [Callers -> Services \cup {NoService}]
    /\ \A c \in Callers : box[c] \subseteq SUBSET Providers
    /\ recv \in {"recv", "handler", "end"}

Init ==
    /\ RegistryInit
    /\ poolClosed = FALSE /\ connMutex = "none" /\ subMutex = "none"
    /\ cache = [s \in Services |-> {}]
    /\ connection = [s \in Services |-> NoConnection]
    /\ discovering = <<>> /\ subscribed = {}
    /\ pc = [c \in Callers |-> "idle"] /\ calls = [c \in Callers |-> 0]
    /\ want = [c \in Callers |-> NoService]
    /\ using = [c \in Callers |-> NoConnection]
    /\ box = [c \in Callers |-> {}] /\ recv = "recv"

Goto(c, label) == pc' = [pc EXCEPT ![c] = label]
\* call() goes on at label with connection k, or returns.
Continue(c, label, k) == Goto(c, label) /\ using' = [using EXCEPT ![c] = k] /\ want' = want
Returns(c) ==
    /\ Goto(c, "idle") /\ using' = [using EXCEPT ![c] = NoConnection]
    /\ want' = [want EXCEPT ![c] = NoService]
Alive(k) == k.to \in Providers /\ server[k.to] \in {"registering", "serving"}
othersOfRegistry == <<registryUp, failures, adding, link, fromRegistry, serving, tableVars, serverVars>>

\* m_channel << m, which handle_send() sends.
PoolSends(m) == toRegistry' = IF poolClosed THEN toRegistry ELSE Sent(Pool, m)

-----------------------------------------------------------------------------
(* call() *)

Start(c, s) ==
    /\ pc[c] = "idle" /\ calls[c] < MaxCalls[c]
    /\ calls' = [calls EXCEPT ![c] = @ + 1] /\ want' = [want EXCEPT ![c] = s]
    /\ Goto(c, "find")
    /\ UNCHANGED <<registryVars, poolClosed, connMutex, subMutex, cache, connection,
                   discovering, subscribed, using, box, recv>>

\* A connection of the service is used without the mutex, and without a
\* reference that would keep it.
Find(c) ==
    /\ pc[c] = "find" /\ connMutex = "none"
    /\ IF connection[want[c]] # NoConnection
       THEN Continue(c, "call", connection[want[c]]) /\ UNCHANGED connMutex
       ELSE Continue(c, "choose", NoConnection) /\ connMutex' = c
    /\ UNCHANGED <<registryVars, poolClosed, subMutex, cache, connection, discovering,
                   subscribed, calls, box, recv>>

CallOn(c) ==
    /\ pc[c] = "call"
    /\ IF Alive(using[c]) THEN Returns(c) ELSE Continue(c, "relock", using[c])
    /\ UNCHANGED <<registryVars, poolClosed, connMutex, subMutex, cache, connection,
                   discovering, subscribed, calls, box, recv>>

\* It may use an iterator that another caller has erased: as if it were still
\* there, ...
Relock(c) ==
    /\ pc[c] = "relock" /\ connMutex = "none" /\ connMutex' = c
    /\ cache' = [cache EXCEPT ![want[c]] = @ \ {using[c].to}]
    /\ connection' = [connection EXCEPT ![want[c]] = NoConnection]
    /\ Continue(c, "choose", NoConnection)
    /\ UNCHANGED <<registryVars, poolClosed, subMutex, discovering, subscribed, calls, box,
                   recv>>

\* ... or the pool's process ends.
UseAfterErase(c) ==
    /\ pc[c] \in {"call", "relock"} /\ connection[want[c]] # using[c]
    /\ pc' = [i \in Callers |-> "dead"] /\ using' = [i \in Callers |-> NoConnection]
    /\ want' = [i \in Callers |-> NoService]
    /\ link' = [link EXCEPT ![Pool] = "closed"]
    /\ connMutex' = "none" /\ subMutex' = "none" /\ recv' = "end"
    /\ UNCHANGED <<registryUp, failures, adding, toRegistry, fromRegistry, serving, tableVars, serverVars,
                   poolClosed, cache, connection, discovering, subscribed, calls, box>>

\* Nothing is cached and the registry is closed: RPC_CLOSED.
RegistryClosed(c) ==
    /\ pc[c] = "choose" /\ cache[want[c]] = {} /\ poolClosed
    /\ connMutex' = "none" /\ Returns(c)
    /\ UNCHANGED <<registryVars, poolClosed, subMutex, cache, connection, discovering,
                   subscribed, calls, box, recv>>

\* Mutant: the mutex is given back before the discovery.
DiscoverUnlocked(c) ==
    /\ pc[c] = "choose" /\ cache[want[c]] = {} /\ ~poolClosed
    /\ discovering' = [s \in DOMAIN discovering \cup {want[c]} |->
                           IF s \in DOMAIN discovering THEN discovering[s] ELSE c]
    /\ connMutex' = "none" /\ Goto(c, "send")
    /\ UNCHANGED <<registryVars, poolClosed, subMutex, cache, connection, subscribed, calls,
                   want, using, box, recv>>

\* discover() leaves its channel under the name, ...
Discover(c) ==
    /\ pc[c] = "choose" /\ cache[want[c]] = {} /\ ~poolClosed
    /\ discovering' = [s \in DOMAIN discovering \cup {want[c]} |->
                           IF s \in DOMAIN discovering THEN discovering[s] ELSE c]
    /\ Goto(c, "send")
    /\ UNCHANGED <<registryVars, poolClosed, connMutex, subMutex, cache, connection,
                   subscribed, calls, want, using, box, recv>>

\* ... asks, ...
DiscoverSend(c) ==
    /\ pc[c] = "send"
    /\ PoolSends(Message("discover", want[c], {}))
    /\ Goto(c, "await")
    /\ UNCHANGED <<othersOfRegistry, poolClosed, connMutex, subMutex, cache, connection,
                   discovering, subscribed, calls, want, using, box, recv>>

\* ... and takes the answer.
Discovered(c) ==
    /\ pc[c] = "await" /\ box[c] # {}
    /\ discovering' = [s \in DOMAIN discovering \ {want[c]} |-> discovering[s]]
    /\ IF {} \in box[c]
       THEN Returns(c) /\ connMutex' = "none" /\ box' = [box EXCEPT ![c] = {}]
       ELSE Continue(c, "subscribe", NoConnection) /\ UNCHANGED <<connMutex, box>>
    /\ UNCHANGED <<registryVars, poolClosed, subMutex, cache, connection, subscribed, calls,
                   recv>>

\* The first discovery of a service subscribes to it, after the answer.
Subscribe(c) ==
    /\ pc[c] = "subscribe"
    /\ IF want[c] \in subscribed
       THEN UNCHANGED <<subscribed, toRegistry>>
       ELSE /\ subMutex = "none"
            /\ subscribed' = subscribed \cup {want[c]}
            /\ PoolSends(Message("subscribe", want[c], {}))
    /\ cache' = [cache EXCEPT ![want[c]] = UNION box[c]]
    /\ box' = [box EXCEPT ![c] = {}] /\ Goto(c, "choose")
    /\ UNCHANGED <<othersOfRegistry, poolClosed, connMutex, subMutex, connection, discovering,
                   calls, want, using, recv>>

\* A server that does not answer stays in the cache: RPC_FAIL.
ConnectTo(c, p) ==
    /\ pc[c] = "choose" /\ p \in cache[want[c]]
    /\ IF Alive([to |-> p])
       THEN /\ connection' = [connection EXCEPT ![want[c]] =
                                  IF @ = NoConnection THEN Connection(p, c) ELSE @]
            /\ Continue(c, "last", NoConnection)
       ELSE Returns(c) /\ UNCHANGED connection
    /\ connMutex' = "none"
    /\ UNCHANGED <<registryVars, poolClosed, subMutex, cache, discovering, subscribed, calls,
                   box, recv>>

\* The call on the client it has just connected, whatever the result.
LastCall(c) ==
    /\ pc[c] = "last" /\ Returns(c)
    /\ UNCHANGED <<registryVars, poolClosed, connMutex, subMutex, cache, connection,
                   discovering, subscribed, calls, box, recv>>

-----------------------------------------------------------------------------
(* handle_recv() and close() *)

FromRegistry(t) ==
    /\ recv = "recv" /\ fromRegistry[Pool] # <<>> /\ Head(fromRegistry[Pool]).type = t
Consume == fromRegistry' = [fromRegistry EXCEPT ![Pool] = Tail(@)]
registryBut == <<registryUp, failures, adding, link, toRegistry, serving, tableVars, serverVars>>

\* Mutant: handle_recv() takes m_connections_mutex to pass the answer on.
AnswerLocked ==
    /\ FromRegistry("discovered") /\ Consume /\ connMutex = "none"
    /\ LET m == Head(fromRegistry[Pool])
       IN box' = IF m.service \in DOMAIN discovering
                 THEN [box EXCEPT ![discovering[m.service]] = {m.data}] ELSE box
    /\ UNCHANGED <<registryBut, poolClosed, connMutex, subMutex, cache, connection,
                   discovering, subscribed, pc, calls, want, using, recv>>

HandleServiceDiscover ==
    /\ FromRegistry("discovered") /\ Consume
    /\ LET m == Head(fromRegistry[Pool])
       IN box' = IF m.service \in DOMAIN discovering
                 THEN [box EXCEPT ![discovering[m.service]] = {m.data}] ELSE box
    /\ UNCHANGED <<registryBut, poolClosed, connMutex, subMutex, cache, connection,
                   discovering, subscribed, pc, calls, want, using, recv>>

\* handle_publish() takes m_sub_mutex and runs the handler of the key, ...
HandlePublish ==
    /\ FromRegistry("publish") /\ subMutex = "none"
    /\ IF Head(fromRegistry[Pool]).service \in subscribed
       THEN subMutex' = "recv" /\ recv' = "handler" /\ UNCHANGED fromRegistry
       ELSE Consume /\ UNCHANGED <<subMutex, recv>>
    /\ UNCHANGED <<registryBut, poolClosed, connMutex, cache, connection, discovering,
                   subscribed, callerVars>>

\* ... which wants m_connections_mutex.
JoinHandler ==
    /\ recv = "handler" /\ connMutex = "none"
    /\ LET m == Head(fromRegistry[Pool])
       IN cache' = [cache EXCEPT ![m.service] = @ \cup m.data]
    /\ Consume /\ subMutex' = "none" /\ recv' = "recv"
    /\ UNCHANGED <<registryBut, poolClosed, connMutex, connection, discovering, subscribed,
                   callerVars>>

\* close() empties m_discover_handle and leaves the channels in it open.
ClosePool ==
    /\ poolClosed' = TRUE /\ discovering' = <<>> /\ recv' = "end"
    /\ link' = [link EXCEPT ![Pool] = "closed"]
    /\ UNCHANGED <<registryUp, adding, toRegistry, fromRegistry, serving, tableVars, serverVars,
                   connMutex, subMutex, cache, connection, subscribed, callerVars>>

\* The registry has gone, ...
RecvNull ==
    /\ recv = "recv" /\ link[Pool] = "closed" /\ fromRegistry[Pool] = <<>>
    /\ ClosePool /\ UNCHANGED failures

\* ... or the user closes the pool while handle_recv() waits.
UserCloses == recv = "recv" /\ ~poolClosed /\ Fails /\ ClosePool

-----------------------------------------------------------------------------
Caller(c) ==
    \/ Find(c) \/ CallOn(c) \/ Relock(c) \/ RegistryClosed(c) \/ Discover(c)
    \/ DiscoverSend(c) \/ Discovered(c) \/ Subscribe(c) \/ LastCall(c)
    \/ \E p \in Providers : ConnectTo(c, p)
Receiver == HandleServiceDiscover \/ HandlePublish \/ JoinHandler \/ RecvNull

Next ==
    \/ \E k \in Links : (Serve(k) \/ AliveTimeout(k)) /\ UNCHANGED poolVars
    \/ \E p \in Providers : (Provide(p) \/ ServerDies(p)) /\ UNCHANGED poolVars
    \/ \E c \in Callers : Caller(c) \/ UseAfterErase(c) \/ (\E s \in Services : Start(c, s))
    \/ Receiver \/ UserCloses

Spec == Init /\ [][Next]_vars

\* Fibers that can go on do, in the pool, the registry and the providers.
Fairness ==
    /\ \A c \in Callers : WF_vars(Caller(c))
    /\ WF_vars(Receiver)
    /\ \A k \in Links : WF_vars(Serve(k) /\ UNCHANGED poolVars)

FairSpec == Spec /\ Fairness

-----------------------------------------------------------------------------
(* Properties *)

\* A provider has one request on its way, being handled, or answered, at most: so
\* the first answer that register_service() finds is that to its request.
OneRequest ==
    \A p \in Providers :
        Cardinality(Requests(p)) + Len(fromRegistry[p])
            + (IF serving[p] = "publish" THEN 1 ELSE 0) <= 1

\* What the registry lists is there: no service of a connection it has seen
\* end, and a server that has started is listed with all it offers, as far as
\* the registry has not lost it.
RegistryConsistent ==
    registryUp =>
        /\ \A e \in services : e[2] \in provider /\ serving[e[2]] # "dying"
        /\ \A p \in Providers : server[p] = "serving" /\ link[p] = "open" =>
              \A i \in DOMAIN Offers[p] : <<Offers[p][i], p>> \in services

\* Whatever comes from discoveries, publications and closed connections, in
\* any order, the pool calls a service only where it is provided.
CacheSound ==
    \A s \in Services :
        /\ \A p \in cache[s] : s \in OfferedBy(p)
        /\ connection[s] # NoConnection => s \in OfferedBy(connection[s].to)

\* One discovery at a time, which is what lets the name stand for the caller:
\* the caller that waits holds m_connections_mutex and its channel is the one
\* the answer goes to, until the pool is closed.
DiscoveryAlone ==
    \A c \in Callers : pc[c] \in {"send", "await"} =>
        /\ connMutex = c
        /\ box[c] = {} /\ ~poolClosed => want[c] \in DOMAIN discovering /\ discovering[want[c]] = c

\* As long as nothing is published to the pool and it keeps its registry,
\* every call ends.
PublicationDue ==
    \E i \in DOMAIN fromRegistry[Pool] : fromRegistry[Pool][i].type = "publish"
CallsEnd ==
    [](~PublicationDue /\ ~poolClosed /\ recv # "end") =>
        \A c \in Callers : (pc[c] # "idle") ~> (pc[c] = "idle")

\* "The coroutine is woken when a message comes or the channel is closed": a
\* discovery ends.
DiscoveryEnds == \A c \in Callers : (pc[c] = "await") ~> (pc[c] # "await")

\* The registry's table and the pool's cache name servers that have the service
\* (RpcServiceRegistry, RpcConnectionPool).
ServicesSound == TypeOK /\ OneRequest /\ RegistryConsistent /\ CacheSound
=============================================================================
