-------------------------- MODULE RpcServiceRegistry --------------------------
(***************************************************************************)
(* The registry of services (acid/rpc/rpc_service_registry.h, .cpp) and    *)
(* what an RpcServer does with it (bind_registry(), start(),               *)
(* register_service() of rpc_server.cpp).                                  *)
(*                                                                         *)
(* Providers register their services, one after the other, each waiting    *)
(* for its answer; pools discover services and subscribe to changes.  The  *)
(* registry serves every connection in a fiber of its own, in the order of *)
(* its messages.  A step is a critical section of m_mutex or m_sub_mutex.  *)
(*                                                                         *)
(* When a connection ends, handle_client() unregisters its services and    *)
(* then goes on with the null request: the registry's process ends.  The   *)
(* timer of update() is never kept by handle_client(), so it closes every  *)
(* connection m_alive_time after a message, whatever came since.           *)
(*                                                                         *)
(* A provider stands for its address.  The composition with the pool,      *)
(* RpcConnectionPool, has the next-state relation.                         *)
(***************************************************************************)
EXTENDS Naturals, Sequences, FiniteSets

CONSTANTS
    Providers,   \* servers that provide services
    Offers,      \* the services each registers, in the order of m_handlers
    Started,     \* providers that have registered before the pool connects
    Pool,        \* the connection pool
    MaxFailures  \* bound: servers that die, connections the registry
                 \* closes for their age, and closings by the user

Services == UNION {{Offers[p][i] : i \in DOMAIN Offers[p]} : p \in Providers}
Links == Providers \cup {Pool}

ASSUME RegistryAssumption ==
    /\ Pool \notin Providers /\ Started \subseteq Providers /\ MaxFailures \in Nat
    /\ \A p \in Providers : Offers[p] \in Seq(Services)

VARIABLES
    registryUp,   \* the registry's process runs
    link,         \* each connection to it: "none", "open" or "closed"
    toRegistry,   \* messages on their way, in order
    fromRegistry, \* messages on their way back
    serving,      \* where handle_client() of each connection is
    adding,       \* the service whose registration each of them handles
    provider,     \* connections whose provider_address is set
    services,     \* m_services, and m_iters seen from the address
    subscribers,  \* m_subscribes: key (a service) -> connection
    server,       \* each provider's process: "new", "registering", "serving", "gone"
    registering,  \* number of the handler it is registering
    failures      \* how many of these there were

serverVars == <<server, registering>>
tableVars == <<provider, services, subscribers>>
registryVars == <<registryUp, failures, link, toRegistry, fromRegistry, serving, adding, tableVars,
                  serverVars>>

\* A message: its type, a service and what it carries.
Message(t, s, a) == [type |-> t, service |-> s, data |-> a]
NoService == "none"
Messages ==
    [type : {"provider", "register", "registered", "discover", "discovered", "subscribe", "publish"},
     service : Services \cup {NoService}, data : Providers \cup SUBSET Providers]

RegistryTypeOK ==
    /\ registryUp \in BOOLEAN /\ failures \in 0..MaxFailures
    /\ link \in [Links -> {"none", "open", "closed"}]
    /\ serving \in [Links -> {"recv", "publish", "dying"}]
    /\ adding \in [Links -> Services \cup {NoService}] /\ provider \subseteq Providers
    /\ services \subseteq Services \X Providers
    /\ DOMAIN subscribers \subseteq Services
    /\ server \in [Providers -> {"new", "registering", "serving", "gone"}]
    /\ registering \in [Providers -> Nat]
    /\ \A p \in Providers : registering[p] \in 1..(Len(Offers[p]) + 1)
    /\ toRegistry \in [Links -> Seq(Messages)] /\ fromRegistry \in [Links -> Seq(Messages)]

\* The tables of a registry none of whose fibers is in the middle of a request.
RegistryTables(p, s, u) ==
    /\ provider' = p /\ services' = s /\ subscribers' = u
    /\ serving' = [k \in Links |-> "recv"] /\ adding' = [k \in Links |-> NoService]

OfferedBy(p) == {Offers[p][i] : i \in DOMAIN Offers[p]}

\* The pool is connected, and some servers have started.
RegistryInit ==
    /\ registryUp = TRUE /\ failures = 0
    /\ link = [k \in Links |-> IF k = Pool \/ k \in Started THEN "open" ELSE "none"]
    /\ toRegistry = [k \in Links |-> <<>>] /\ fromRegistry = [k \in Links |-> <<>>]
    /\ serving = [k \in Links |-> "recv"] /\ adding = [k \in Links |-> NoService]
    /\ provider = Started /\ subscribers = <<>>
    /\ services = {e \in Services \X Started : e[1] \in OfferedBy(e[2])}
    /\ server = [p \in Providers |-> IF p \in Started THEN "serving" ELSE "new"]
    /\ registering = [p \in Providers |-> IF p \in Started THEN Len(Offers[p]) + 1 ELSE 1]

-----------------------------------------------------------------------------
(* A provider.  Messages sent into a closed connection are lost. *)

Fails == failures < MaxFailures /\ failures' = failures + 1
Sent(k, m) == IF link[k] = "open" THEN [toRegistry EXCEPT ![k] = Append(@, m)] ELSE toRegistry

\* bind() and bind_registry(); without a registry the server serves alone.
BindRegistry(p) ==
    /\ server[p] = "new"
    /\ link' = [link EXCEPT ![p] = IF registryUp THEN "open" ELSE "closed"]
    /\ toRegistry' = IF registryUp
                     THEN [toRegistry EXCEPT ![p] = <<Message("provider", NoService, p)>>]
                     ELSE toRegistry
    /\ server' = [server EXCEPT ![p] = IF registryUp THEN "registering" ELSE "serving"]
    /\ UNCHANGED <<registryUp, failures, adding, fromRegistry, serving, tableVars, registering>>

\* register_service() sends, right after what bind_registry() has sent, ...
Requests(p) == {i \in DOMAIN toRegistry[p] : toRegistry[p][i].type = "register"}
Waiting(p) == Requests(p) # {} \/ serving[p] # "recv" \/ fromRegistry[p] # <<>>
RegisterService(p) ==
    /\ server[p] = "registering" /\ ~Waiting(p) /\ link[p] = "open"
    /\ registering[p] <= Len(Offers[p])
    /\ toRegistry' = Sent(p, Message("register", Offers[p][registering[p]], p))
    /\ UNCHANGED <<registryUp, failures, adding, link, fromRegistry, serving, tableVars, serverVars>>

\* ... and goes on with the next handler when an answer, or none, has come.
ServiceRegistered(p) ==
    /\ server[p] = "registering" /\ registering[p] <= Len(Offers[p])
    /\ fromRegistry[p] # <<>> \/ link[p] = "closed"
    /\ fromRegistry' = [fromRegistry EXCEPT ![p] = <<>>]
    /\ registering' = [registering EXCEPT ![p] = @ + 1]
    /\ UNCHANGED <<registryUp, failures, adding, link, toRegistry, serving, tableVars, server>>

StartServer(p) ==
    /\ server[p] = "registering" /\ registering[p] > Len(Offers[p])
    /\ server' = [server EXCEPT ![p] = "serving"]
    /\ UNCHANGED <<registryUp, failures, adding, link, toRegistry, fromRegistry, serving, tableVars,
                   registering>>

ServerDies(p) ==
    /\ Fails
    /\ server[p] \in {"registering", "serving"}
    /\ server' = [server EXCEPT ![p] = "gone"]
    /\ link' = [link EXCEPT ![p] = "closed"]
    /\ fromRegistry' = [fromRegistry EXCEPT ![p] = <<>>]
    /\ UNCHANGED <<registryUp, adding, toRegistry, serving, tableVars, registering>>

-----------------------------------------------------------------------------
(* The registry *)

Next1(k, t) ==
    /\ registryUp /\ serving[k] = "recv" /\ toRegistry[k] # <<>>
    /\ Head(toRegistry[k]).type = t
    /\ toRegistry' = [toRegistry EXCEPT ![k] = Tail(@)]

\* A message for a connection that is closed is not sent.
Answer(k, m) ==
    fromRegistry' = IF link[k] = "open" THEN [fromRegistry EXCEPT ![k] = Append(@, m)]
                    ELSE fromRegistry

HandleProvider(k) ==
    /\ Next1(k, "provider")
    /\ provider' = provider \cup {k}
    /\ UNCHANGED <<registryUp, failures, adding, link, fromRegistry, serving, services, subscribers,
                   serverVars>>

\* handle_register_service(): the table, under m_mutex, ...
HandleRegister(k) ==
    /\ Next1(k, "register")
    /\ services' = services \cup {<<Head(toRegistry[k]).service, k>>}
    /\ serving' = [serving EXCEPT ![k] = "publish"]
    /\ adding' = [adding EXCEPT ![k] = Head(toRegistry[k]).service]
    /\ UNCHANGED <<registryUp, failures, link, fromRegistry, provider, subscribers, serverVars>>

\* ... then publish() to the subscriber of the key, and the answer.
Publication(k) == Message("publish", adding[k], {k})
PublishJoin(k) ==
    /\ registryUp /\ serving[k] = "publish"
    /\ LET told == adding[k] \in DOMAIN subscribers /\ link[Pool] = "open"
           answer == Message("registered", adding[k], {})
       IN fromRegistry' = [fromRegistry EXCEPT
              ![k] = IF link[k] = "open" THEN Append(@, answer) ELSE @,
              ![Pool] = IF told THEN Append(@, Publication(k)) ELSE @]
    /\ serving' = [serving EXCEPT ![k] = "recv"]
    /\ adding' = [adding EXCEPT ![k] = NoService]
    /\ UNCHANGED <<registryUp, failures, link, toRegistry, tableVars, serverVars>>

\* Mutant: the addresses of every service.
AllAddresses(s) == {p \in Providers : \E t \in Services : <<t, p>> \in services}

Addresses(s) == {p \in Providers : <<s, p>> \in services}
HandleDiscover(k) ==
    /\ Next1(k, "discover")
    /\ LET s == Head(toRegistry[k]).service
       IN Answer(k, Message("discovered", s, Addresses(s)))
    /\ UNCHANGED <<registryUp, failures, adding, link, serving, tableVars, serverVars>>

\* emplace(): the first subscriber of a key stays its only one.  The answer is
\* ignored by the pool.
HandleSubscribe(k) ==
    /\ Next1(k, "subscribe")
    /\ LET s == Head(toRegistry[k]).service
       IN subscribers' = [t \in DOMAIN subscribers \cup {s} |->
                              IF t \in DOMAIN subscribers THEN subscribers[t] ELSE k]
    /\ UNCHANGED <<registryUp, failures, adding, link, fromRegistry, serving, provider, services,
                   serverVars>>

\* recv_protocol() returns null: the services of the provider are removed.
\* They are published as gone under a key made of the address, which nobody
\* subscribes to.
Remaining(k) == {e \in services : e[2] # k}
ConnectionEnds(k) ==
    /\ registryUp /\ serving[k] = "recv" /\ link[k] = "closed"
    /\ toRegistry[k] = <<>>
    /\ services' = IF k \in provider THEN Remaining(k) ELSE services
    /\ serving' = [serving EXCEPT ![k] = "dying"]
    /\ UNCHANGED <<registryUp, failures, adding, link, toRegistry, fromRegistry, provider, subscribers,
                   serverVars>>

\* request->get_message_type() on the null request.
NullRequest(k) ==
    /\ registryUp /\ serving[k] = "dying"
    /\ registryUp' = FALSE
    /\ link' = [j \in Links |-> IF link[j] = "open" THEN "closed" ELSE link[j]]
    /\ toRegistry' = [j \in Links |-> <<>>] /\ RegistryTables({}, {}, <<>>)
    /\ UNCHANGED <<failures, fromRegistry, serverVars>>

\* The timer of update() closes the connection.
AliveTimeout(k) ==
    /\ Fails
    /\ registryUp /\ link[k] = "open"
    /\ link' = [link EXCEPT ![k] = "closed"]
    /\ toRegistry' = [toRegistry EXCEPT ![k] = <<>>]
    /\ UNCHANGED <<registryUp, adding, fromRegistry, serving, tableVars, serverVars>>

Serve(k) ==
    \/ HandleProvider(k) \/ HandleRegister(k) \/ PublishJoin(k)
    \/ HandleDiscover(k) \/ HandleSubscribe(k) \/ ConnectionEnds(k) \/ NullRequest(k)

Provide(p) == BindRegistry(p) \/ RegisterService(p) \/ ServiceRegistered(p) \/ StartServer(p)
=============================================================================
