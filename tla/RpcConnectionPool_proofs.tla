----------------------- MODULE RpcConnectionPool_proofs -----------------------
(***************************************************************************)
(* Proofs about RpcConnectionPool and the registry below it, for any       *)
(* providers, services and callers and any number of calls and failures:   *)
(* the registry's table and the pool's cache are right, a provider has one *)
(* request at a time, and a discovery is alone until the pool is closed.   *)
(***************************************************************************)
EXTENDS RpcConnectionPool, FiniteSetTheorems, TLAPS

USE RegistryAssumption DEF RegistryAssumption
USE PoolAssumption DEF PoolAssumption

\* Providers of a service.
Offering(s) == {p \in Providers : s \in OfferedBy(p)}

\* What the pool asks, and what the registry tells it.
Questions == {m \in Messages : m.type \in {"discover", "subscribe"} /\ m.service \in Services}
Reports ==
    {m \in Messages : /\ m.type \in {"discovered", "publish"} /\ m.service \in Services
                      /\ m.data \in SUBSET Offering(m.service)}

\* The registration of s by p is on its way, perhaps behind the greeting.
Greeting(p) == Message("provider", NoService, p)
Registration(p, s) == Message("register", s, p)
Asks(q, p, s) == q \in {<<Registration(p, s)>>, <<Greeting(p), Registration(p, s)>>}
Asked(p, s) == Asks(toRegistry[p], p, s)

\* A provider has one request at a time, on its way, being handled or answered.
RequestInv(p) ==
    /\ toRegistry[p] \in {<<>>, <<Greeting(p)>>} \/ \E s \in OfferedBy(p) : Asked(p, s)
    /\ (\E s \in OfferedBy(p) : Asked(p, s)) => serving[p] # "publish" /\ fromRegistry[p] = <<>>
    /\ serving[p] = "publish" => fromRegistry[p] = <<>> /\ adding[p] \in OfferedBy(p)
    /\ Len(fromRegistry[p]) <= 1

\* The registry knows a provider's address before it reads a registration, and a
\* connection that has ended is not opened again.
LinkInv(p) ==
    /\ server[p] = "new" =>
         /\ link[p] = "none" /\ serving[p] = "recv" /\ registering[p] = 1
         /\ toRegistry[p] = <<>> /\ fromRegistry[p] = <<>>
    /\ link[p] = "none" => server[p] = "new"
    /\ serving[p] = "dying" => link[p] = "closed" /\ toRegistry[p] = <<>>
    /\ link[p] = "open" /\ toRegistry[p] = <<>> => p \in provider
    /\ \A s \in OfferedBy(p) : toRegistry[p] = <<Registration(p, s)>> => p \in provider

\* How far an open connection is: what is done is in the table.
ProgressInv(p) ==
    link[p] = "open" =>
        /\ \A s \in OfferedBy(p) : Asked(p, s) => s = Offers[p][registering[p]]
        /\ serving[p] = "publish" \/ fromRegistry[p] # <<>> =>
             <<Offers[p][registering[p]], p>> \in services
        /\ \A i \in DOMAIN Offers[p] : i < registering[p] => <<Offers[p][i], p>> \in services
        /\ server[p] = "serving" => registering[p] > Len(Offers[p])

ProviderInv(p) == RequestInv(p) /\ LinkInv(p) /\ ProgressInv(p)

\* The table lists what connected providers offer.
TableInv ==
    \A e \in services : e[1] \in OfferedBy(e[2]) /\ e[2] \in provider /\ serving[e[2]] # "dying"

\* The pool's connection.
PoolLinkInv ==
    /\ serving[Pool] # "publish"
    /\ toRegistry[Pool] \in Seq(Questions) /\ fromRegistry[Pool] \in Seq(Reports)

RegistryInv ==
    RegistryTypeOK /\ TableInv /\ PoolLinkInv /\ \A p \in Providers : ProviderInv(p)

\* The variables of the pool keep their types.
PoolTypes ==
    /\ poolClosed \in BOOLEAN /\ connMutex \in Callers \cup {"none"}
    /\ subMutex \in {"none", "recv"}
    /\ cache \in [Services -> SUBSET Providers]
    /\ connection \in [Services -> Connections \cup {NoConnection}]
    /\ DOMAIN discovering \subseteq Services /\ subscribed \subseteq Services
    /\ pc \in [Callers -> {"idle", "find", "call", "relock", "choose", "send", "await",
                           "subscribe", "connect", "last", "dead"}]
    /\ calls \in [Callers -> Nat] /\ \A c \in Callers : calls[c] <= MaxCalls[c]
    /\ want \in [Callers -> Services \cup {NoService}]
    /\ box \in [Callers -> SUBSET SUBSET Providers]
    /\ recv \in {"recv", "handler", "end"}
    /\ recv = "handler" => fromRegistry[Pool] # <<>>

\* Who holds m_connections_mutex is where it is held, and a process that has
\* ended has no caller that goes on.
HoldsMutex(c) == pc[c] \in {"choose", "send", "await", "subscribe"}
MutexInv ==
    /\ \A c \in Callers : HoldsMutex(c) <=> connMutex = c
    /\ \A c \in Callers : pc[c] \notin {"idle", "dead"} => want[c] \in Services
    /\ \A c \in Callers : pc[c] = "dead" => recv = "end" /\ \A d \in Callers : pc[d] = "dead"

\* m_discover_handle has the discovery of the holder and no other.
DiscoverInv ==
    /\ recv # "end" => \A s \in DOMAIN discovering :
         LET c == discovering[s]
         IN c \in Callers /\ pc[c] \in {"send", "await"} /\ want[c] = s
    /\ \A c \in Callers : pc[c] \in {"send", "await"} /\ ~poolClosed =>
         want[c] \in DOMAIN discovering /\ discovering[want[c]] = c
    /\ poolClosed => recv = "end"
    /\ recv = "end" => poolClosed \/ \A c \in Callers : pc[c] = "dead"

\* What a discovery brings are providers of the service.
BoxInv ==
    \A c \in Callers :
        /\ box[c] # {} => pc[c] \in {"send", "await", "subscribe", "dead"}
        /\ pc[c] # "dead" => \A d \in box[c] : d \subseteq Offering(want[c])

\* The inductive invariant.
PoolInv == PoolTypes /\ MutexInv /\ DiscoverInv /\ BoxInv /\ CacheSound
ServicesInv == RegistryInv /\ PoolInv

-----------------------------------------------------------------------------
(* Messages *)

\* Appending to a sequence and taking its head.
LEMMA SequenceKept ==
    ASSUME NEW S, NEW s \in Seq(S)
    PROVE  /\ \A e \in S : Append(s, e) \in Seq(S) /\ Append(s, e) # <<>>
           /\ s # <<>> => Head(s) \in S /\ Tail(s) \in Seq(S)
<1>1. ASSUME NEW e \in S PROVE Append(s, e) \in Seq(S) /\ Append(s, e) # <<>>
  <2>1. Append(s, e) \in Seq(S) /\ Len(Append(s, e)) = Len(s) + 1 /\ Len(s) \in Nat
    OBVIOUS
  <2>2. Len(<<>>) = 0
    OBVIOUS
  <2> QED
    BY <2>1, <2>2
<1>2. ASSUME s # <<>> PROVE Head(s) \in S /\ Tail(s) \in Seq(S)
  BY <1>2
<1> QED
  BY <1>1, <1>2

\* One message and two.
LEMMA ShortSequences ==
    /\ \A a, b : Append(<<>>, a) = <<a>> /\ Append(<<a>>, b) = <<a, b>>
    /\ \A a, b, c : <<a, b>> # <<c>> /\ <<a, b>> # <<>> /\ <<a>> # <<>>
<1>1. ASSUME NEW a, NEW b PROVE Append(<<>>, a) = <<a>> /\ Append(<<a>>, b) = <<a, b>>
  <2>1. Append(<<>>, a) = <<a>>
    OBVIOUS
  <2>2. PICK s : s = Append(<<a>>, b)
    OBVIOUS
  <2>3. <<a>> \in Seq({a, b}) /\ Len(<<a>>) = 1 /\ <<a>>[1] = a
    OBVIOUS
  <2>4. s \in Seq({a, b}) /\ Len(s) = 2 /\ s[1] = a /\ s[2] = b
    BY <2>2, <2>3
  <2>5. s = [i \in 1..2 |-> s[i]]
    BY <2>4
  <2>6. <<a, b>> \in Seq({a, b}) /\ Len(<<a, b>>) = 2 /\ <<a, b>>[1] = a /\ <<a, b>>[2] = b
    OBVIOUS
  <2>7. <<a, b>> = [i \in 1..2 |-> <<a, b>>[i]]
    BY <2>6
  <2>8. \A i \in 1..2 : s[i] = <<a, b>>[i]
    BY <2>4, <2>6
  <2> QED
    BY <2>1, <2>2, <2>5, <2>7, <2>8
<1>2. ASSUME NEW a, NEW b, NEW c PROVE <<a, b>> # <<c>>
  <2>1. Len(<<a, b>>) = 2 /\ Len(<<c>>) = 1
    OBVIOUS
  <2> QED
    BY <2>1
<1>3. ASSUME NEW a, NEW b PROVE <<a, b>> # <<>> /\ <<a>> # <<>>
  OBVIOUS
<1> QED
  BY <1>1, <1>2, <1>3

\* A service that is offered is a service.
LEMMA OfferedServices ==
    ASSUME NEW p \in Providers
    PROVE  /\ OfferedBy(p) \subseteq Services
           /\ DOMAIN Offers[p] = 1..Len(Offers[p]) /\ Len(Offers[p]) \in Nat
           /\ \A i \in DOMAIN Offers[p] : Offers[p][i] \in OfferedBy(p)
<1>1. DOMAIN Offers[p] = 1..Len(Offers[p]) /\ Len(Offers[p]) \in Nat
  OBVIOUS
<1>2. OfferedBy(p) \subseteq Services
  BY DEF OfferedBy, Services
<1> QED
  BY <1>1, <1>2 DEF OfferedBy

\* The messages of a provider and of the registry are messages, and differ.
LEMMA MessagesTyped ==
    /\ \A p \in Providers : Greeting(p) \in Messages
    /\ \A p \in Providers, s \in Services : Registration(p, s) \in Messages
    /\ \A s \in Services \cup {NoService} : Message("registered", s, {}) \in Messages
    /\ \A s \in Services : Message("discover", s, {}) \in Questions
    /\ \A s \in Services : Message("subscribe", s, {}) \in Questions
    /\ Questions \subseteq Messages /\ Reports \subseteq Messages
<1>1. \A p \in Providers : Greeting(p) \in Messages
  BY DEF Greeting, Message, Messages
<1>2. \A p \in Providers, s \in Services : Registration(p, s) \in Messages
  BY DEF Registration, Message, Messages
<1>3. ASSUME NEW s \in Services \cup {NoService}
      PROVE  Message("registered", s, {}) \in Messages
  BY DEF Message, Messages
<1>4. ASSUME NEW s \in Services, NEW t \in {"discover", "subscribe"}
      PROVE  Message(t, s, {}) \in Questions
  <2>1. Message(t, s, {}) \in Messages
    BY DEF Message, Messages
  <2> QED
    BY <2>1 DEF Message, Questions
<1>5. Questions \subseteq Messages /\ Reports \subseteq Messages
  BY DEF Questions, Reports
<1> QED
  BY <1>1, <1>2, <1>3, <1>4, <1>5

\* What a report is.
LEMMA ReportTyped ==
    ASSUME NEW s \in Services, NEW a \in SUBSET Offering(s), NEW t \in {"discovered", "publish"}
    PROVE  Message(t, s, a) \in Reports
<1>1. a \in SUBSET Providers
  BY DEF Offering
<1> QED
  BY <1>1 DEF Message, Messages, Reports

\* A provider's messages tell themselves apart, and their place in the queue.
LEMMA AsksOnce ==
    ASSUME NEW p \in Providers, NEW s \in Services, NEW q, Asks(q, p, s)
    PROVE  /\ q # <<>> /\ q # <<Greeting(p)>>
           /\ \A r : Asks(q, p, r) => r = s
           /\ q = <<Registration(p, s)>> =>
                Head(q) = Registration(p, s) /\ Tail(q) = <<>>
           /\ q # <<Registration(p, s)>> =>
                /\ Head(q) = Greeting(p)
                /\ Tail(q) = <<Registration(p, s)>>
<1>1. Registration(p, s).type = "register" /\ Greeting(p).type = "provider"
  BY DEF Registration, Greeting, Message
<1>2. \A r : Registration(p, r) = Registration(p, s) => r = s
  BY DEF Registration, Message
<1>3. \A r : Registration(p, r).type = "register"
  BY DEF Registration, Message
<1> HIDE DEF Registration, Greeting
<1>4. q = <<Registration(p, s)>> \/ q = <<Greeting(p), Registration(p, s)>>
  BY DEF Asks
<1>5. CASE q = <<Registration(p, s)>>
  <2>1. ASSUME NEW r, Asks(q, p, r) PROVE r = s
    <3>1. Len(q) = 1 /\ q[1] = Registration(p, s)
      BY <1>5
    <3>2. \A m, n : Len(<<m, n>>) = 2
      OBVIOUS
    <3>3. q = <<Registration(p, r)>>
      BY <2>1, <3>1, <3>2 DEF Asks
    <3>4. q[1] = Registration(p, r)
      BY <3>3
    <3> QED
      BY <3>1, <3>4, <1>2
  <2>2. Registration(p, s) # Greeting(p)
    BY <1>1
  <2>3. q # <<>> /\ q[1] # Greeting(p)
    BY <1>5, <2>2
  <2>4. q # <<Greeting(p)>>
    BY <2>3
  <2>5. Head(q) = Registration(p, s) /\ Tail(q) = <<>>
    BY <1>5
  <2> QED
    BY <1>5, <2>1, <2>3, <2>4, <2>5
<1>6. CASE q = <<Greeting(p), Registration(p, s)>>
  <2>1. Len(q) = 2 /\ q[2] = Registration(p, s)
    BY <1>6
  <2>2. Len(<<>>) = 0 /\ \A m : Len(<<m>>) = 1
    OBVIOUS
  <2>3. ASSUME NEW r, Asks(q, p, r) PROVE r = s
    <3>1. q = <<Greeting(p), Registration(p, r)>>
      BY <2>1, <2>2, <2>3 DEF Asks
    <3>2. q[2] = Registration(p, r)
      BY <3>1
    <3> QED
      BY <2>1, <3>2, <1>2
  <2>4. /\ Head(q) = Greeting(p)
        /\ Tail(q) = <<Registration(p, s)>>
    BY <1>6
  <2>5. q # <<>>
    BY <1>6
  <2>6. \A m : q # <<m>>
    <3> SUFFICES ASSUME NEW m, q = <<m>> PROVE FALSE
      OBVIOUS
    <3>1. Len(q) = 1
      OBVIOUS
    <3> QED
      BY <2>1, <3>1
  <2>7. q # <<Greeting(p)>> /\ q # <<Registration(p, s)>>
    BY <2>6
  <2> QED
    BY <2>3, <2>4, <2>5, <2>7
<1> QED
  BY <1>4, <1>5, <1>6

\* Neither an empty queue nor the greeting asks for anything.
LEMMA AsksNot ==
    ASSUME NEW p \in Providers, NEW s \in Services
    PROVE  /\ ~Asks(<<>>, p, s) /\ ~Asks(<<Greeting(p)>>, p, s)
           /\ <<Greeting(p)>> # <<>> /\ \A r : <<Greeting(p)>> # <<Registration(p, r)>>
<1>1. ~Asks(<<>>, p, s) /\ ~Asks(<<Greeting(p)>>, p, s)
  BY AsksOnce
<1>2. \A r : Registration(p, r).type # Greeting(p).type
  BY DEF Registration, Greeting, Message
<1>3. \A m : <<m>>[1] = m /\ <<m>> # <<>>
  OBVIOUS
<1> QED
  BY <1>1, <1>2, <1>3

-----------------------------------------------------------------------------
(* The registry *)

\* What a step may do to the registration of a provider it is not about.
Apart(p) ==
    /\ toRegistry'[p] = toRegistry[p] /\ fromRegistry'[p] = fromRegistry[p]
    /\ serving'[p] = serving[p] /\ adding'[p] = adding[p] /\ link'[p] = link[p]
    /\ server'[p] = server[p] /\ registering'[p] = registering[p]
    /\ p \in provider => p \in provider'
    /\ \A s : <<s, p>> \in services => <<s, p>> \in services'

LEMMA ProviderKept ==
    ASSUME NEW p \in Providers, ProviderInv(p), Apart(p)
    PROVE  ProviderInv(p)'
<1>1. \A s : Asked(p, s)' <=> Asked(p, s)
  BY DEF Apart, Asked, Asks, Registration, Greeting, Message
<1>2. RequestInv(p)'
  BY <1>1 DEF ProviderInv, RequestInv, Apart, Registration, Greeting, Message, OfferedBy
<1>3. LinkInv(p)'
  BY DEF ProviderInv, LinkInv, Apart, Registration, Message, OfferedBy
<1>4. ProgressInv(p)'
  BY <1>1 DEF ProviderInv, ProgressInv, Apart, OfferedBy
<1> QED
  BY <1>2, <1>3, <1>4 DEF ProviderInv

\* A step of the registry or of a provider keeps this of the pool's connection.
LEMMA PoolLinkKept ==
    ASSUME PoolLinkInv, serving'[Pool] = serving[Pool],
           toRegistry'[Pool] = toRegistry[Pool] \/ toRegistry'[Pool] = <<>>,
           fromRegistry'[Pool] = fromRegistry[Pool]
    PROVE  PoolLinkInv'
<1>1. <<>> \in Seq(Questions)
  OBVIOUS
<1> QED
  BY <1>1 DEF PoolLinkInv, Questions, Reports, Messages, Offering, OfferedBy

\* A provider that binds greets the registry.
LEMMA BindStep ==
    ASSUME RegistryInv, NEW p \in Providers, BindRegistry(p) PROVE RegistryInv'
<1> USE DEF RegistryInv
<1>1. PICK g : g = <<Greeting(p)>>
  OBVIOUS
<1>2. g \in Seq(Messages)
  BY <1>1, MessagesTyped
<1>3. p \in Links /\ p # Pool /\ Pool \in Links
  BY DEF Links
<1>4. \/ /\ link' = [link EXCEPT ![p] = "open"] /\ toRegistry' = [toRegistry EXCEPT ![p] = g]
         /\ server' = [server EXCEPT ![p] = "registering"]
      \/ /\ link' = [link EXCEPT ![p] = "closed"] /\ toRegistry' = toRegistry
         /\ server' = [server EXCEPT ![p] = "serving"]
  BY <1>1 DEF BindRegistry, Greeting
<1>5. /\ server[p] = "new"
      /\ UNCHANGED <<registryUp, failures, adding, fromRegistry, serving, tableVars, registering>>
  BY DEF BindRegistry
<1>6. RegistryTypeOK'
  <2>1. toRegistry' \in [Links -> Seq(Messages)]
    BY <1>2, <1>4 DEF RegistryTypeOK
  <2>2. link' \in [Links -> {"none", "open", "closed"}]
    BY <1>4 DEF RegistryTypeOK
  <2>3. server' \in [Providers -> {"new", "registering", "serving", "gone"}]
    BY <1>4 DEF RegistryTypeOK
  <2> QED
    BY <1>5, <2>1, <2>2, <2>3 DEF RegistryTypeOK, tableVars, Messages
<1>7. TableInv'
  BY <1>5 DEF TableInv, tableVars, OfferedBy
<1>8. PoolLinkInv'
  BY <1>3, <1>4, <1>5, PoolLinkKept DEF RegistryTypeOK
<1>9. ASSUME NEW q \in Providers PROVE ProviderInv(q)'
  <2>1. CASE q # p
    BY <1>4, <1>5, <2>1, ProviderKept DEF Apart, RegistryTypeOK, tableVars, Links
  <2>2. CASE q = p
    <3>1. /\ serving'[p] = "recv" /\ fromRegistry'[p] = <<>> /\ registering'[p] = 1
          /\ toRegistry[p] = <<>>
      BY <1>5 DEF ProviderInv, LinkInv
    <3>2. PICK m : m = toRegistry'[p]
      OBVIOUS
    <3>3. \/ link'[p] = "open" /\ m = g /\ server'[p] = "registering"
          \/ link'[p] = "closed" /\ m = <<>> /\ server'[p] = "serving"
      BY <1>3, <1>4, <3>1, <3>2 DEF RegistryTypeOK
    <3>4. /\ \A s \in OfferedBy(p) : ~Asks(m, p, s) /\ m # <<Registration(p, s)>>
          /\ g # <<>>
      <4>1. ASSUME NEW s \in OfferedBy(p) PROVE ~Asks(m, p, s) /\ m # <<Registration(p, s)>>
        <5>1. s \in Services
          BY OfferedServices
        <5>2. <<>> # <<Registration(p, s)>>
          OBVIOUS
        <5> QED
          BY <1>1, <3>3, <5>1, <5>2, AsksNot
      <4> QED
        BY <4>1, <1>1
    <3>5. RequestInv(p)'
      BY <1>1, <3>1, <3>2, <3>3, <3>4 DEF RequestInv, Asked, OfferedBy, Greeting, Message
    <3>6. LinkInv(p)'
      BY <3>1, <3>2, <3>3, <3>4 DEF LinkInv, OfferedBy, Registration, Message
    <3>7. ProgressInv(p)'
      BY <3>1, <3>2, <3>3, <3>4, OfferedServices DEF ProgressInv, Asked, OfferedBy
    <3> QED
      BY <2>2, <3>5, <3>6, <3>7 DEF ProviderInv
  <2> QED
    BY <2>1, <2>2
<1> QED
  BY <1>6, <1>7, <1>8, <1>9

\* A step about a provider leaves the others' registrations alone, and what a
\* registry's step does to the pool's connection is nothing.
LEMMA OneProvider ==
    ASSUME RegistryInv, NEW p \in Providers, RegistryTypeOK', TableInv', PoolLinkInv',
           RequestInv(p)', LinkInv(p)', ProgressInv(p)',
           \A q \in Providers \ {p} : Apart(q)
    PROVE  RegistryInv'
  BY ProviderKept DEF RegistryInv, ProviderInv

\* register_service() sends.
LEMMA RegisterStep ==
    ASSUME RegistryInv, NEW p \in Providers, RegisterService(p) PROVE RegistryInv'
<1> USE DEF RegistryInv
<1> DEFINE s == Offers[p][registering[p]]
<1>1. p \in Links /\ p # Pool /\ Pool \in Links
  BY DEF Links
<1>2. s \in OfferedBy(p) /\ s \in Services
  <2>1. registering[p] \in DOMAIN Offers[p]
    BY OfferedServices DEF RegisterService, RegistryTypeOK
  <2> QED
    BY <2>1, OfferedServices
<1>3. PICK r : r = Registration(p, s)
  OBVIOUS
<1>4. r \in Messages
  BY <1>2, <1>3, MessagesTyped
<1>5. /\ toRegistry' = [toRegistry EXCEPT ![p] = Append(@, r)]
      /\ UNCHANGED <<registryUp, failures, adding, link, fromRegistry, serving, tableVars, serverVars>>
  BY <1>3 DEF RegisterService, Sent, Registration
<1>6. serving[p] = "recv" /\ fromRegistry[p] = <<>> /\ link[p] = "open" /\ server[p] = "registering"
  BY DEF RegisterService, Waiting
<1>7. toRegistry[p] = <<>> \/ toRegistry[p] = <<Greeting(p)>>
  <2>1. ASSUME NEW t \in OfferedBy(p), Asked(p, t) PROVE FALSE
    <3>1. Registration(p, t).type = "register"
      BY DEF Registration, Message
    <3>2. \E i \in DOMAIN toRegistry[p] : toRegistry[p][i] = Registration(p, t)
      <4>1. CASE toRegistry[p] = <<Registration(p, t)>>
        BY <4>1
      <4>2. CASE toRegistry[p] = <<Greeting(p), Registration(p, t)>>
        BY <4>2
      <4> QED
        BY <2>1, <4>1, <4>2 DEF Asked, Asks
    <3>3. Requests(p) # {}
      BY <3>1, <3>2 DEF Requests
    <3> QED
      BY <3>3 DEF RegisterService, Waiting
  <2> QED
    BY <2>1 DEF ProviderInv, RequestInv
<1>8. toRegistry'[p] = Append(toRegistry[p], r)
  BY <1>1, <1>5 DEF RegistryTypeOK
<1>9. Asks(toRegistry'[p], p, s)
  <2>1. CASE toRegistry[p] = <<>>
    BY <1>3, <1>8, <2>1 DEF Asks
  <2>2. CASE toRegistry[p] = <<Greeting(p)>>
    BY <1>3, <1>8, <2>2, ShortSequences DEF Asks
  <2> QED
    BY <1>7, <2>1, <2>2
<1>10. PICK m : m = toRegistry'[p]
  OBVIOUS
<1>11. /\ m # <<>> /\ \A t : Asks(m, p, t) => t = s
       /\ \A t : m = <<Registration(p, t)>> => toRegistry[p] = <<>>
  <2>1. m # <<>> /\ \A t : Asks(m, p, t) => t = s
    BY <1>2, <1>9, <1>10, AsksOnce
  <2>2. CASE toRegistry[p] = <<Greeting(p)>>
    <3>1. m = <<Greeting(p), r>>
      BY <1>8, <1>10, <2>2, ShortSequences
    <3>2. \A t : m # <<t>>
      BY <3>1, ShortSequences
    <3> QED
      BY <2>1, <3>2
  <2> QED
    BY <1>7, <2>1, <2>2
<1> HIDE DEF s
<1>12. RegistryTypeOK'
  <2>1. toRegistry' \in [Links -> Seq(Messages)]
    BY <1>4, <1>5, SequenceKept DEF RegistryTypeOK
  <2> QED
    BY <1>5, <2>1 DEF RegistryTypeOK, tableVars, serverVars, Messages
<1>13. TableInv'
  BY <1>5 DEF TableInv, tableVars, OfferedBy
<1>14. PoolLinkInv'
  BY <1>1, <1>5, PoolLinkKept DEF RegistryTypeOK
<1>15. RequestInv(p)'
  BY <1>2, <1>5, <1>6, <1>9, <1>10 DEF RequestInv, Asked, OfferedBy, tableVars
<1>16. LinkInv(p)'
  BY <1>5, <1>6, <1>10, <1>11
     DEF ProviderInv, LinkInv, OfferedBy, Registration, Message, tableVars, serverVars
<1>17. ProgressInv(p)'
  BY <1>5, <1>6, <1>10, <1>11
     DEF s, ProviderInv, ProgressInv, Asked, OfferedBy, tableVars, serverVars
<1>18. \A q \in Providers \ {p} : Apart(q)
  BY <1>5 DEF Apart, RegistryTypeOK, tableVars, serverVars, Links
<1> QED
  BY <1>12, <1>13, <1>14, <1>15, <1>16, <1>17, <1>18, OneProvider

\* A request stays one when what was answered is taken.
LEMMA AnswersDropped ==
    ASSUME NEW p \in Providers, RequestInv(p), fromRegistry'[p] = <<>>,
           UNCHANGED <<toRegistry, serving, adding>>
    PROVE  RequestInv(p)'
<1>1. \A s : Asked(p, s)' <=> Asked(p, s)
  BY DEF Asked, Asks, Registration, Greeting, Message
<1>2. toRegistry'[p] \in {<<>>, <<Greeting(p)>>} \/ \E s \in OfferedBy(p) : Asked(p, s)'
  BY <1>1 DEF RequestInv
<1>3. Len(fromRegistry'[p]) <= 1
  <2>1. Len(<<>>) = 0
    OBVIOUS
  <2> QED
    BY <2>1
<1>4. serving'[p] = "publish" => adding'[p] \in OfferedBy(p)
  BY DEF RequestInv
<1>5. (\E s \in OfferedBy(p) : Asked(p, s)') => serving'[p] # "publish"
  BY <1>1 DEF RequestInv
<1> QED
  BY <1>2, <1>3, <1>4, <1>5 DEF RequestInv, OfferedBy, Greeting, Message

\* It takes the answer, or goes on without one.
LEMMA RegisteredStep ==
    ASSUME RegistryInv, NEW p \in Providers, ServiceRegistered(p) PROVE RegistryInv'
<1> USE DEF RegistryInv
<1>1. p \in Links /\ p # Pool /\ Pool \in Links
  BY DEF Links
<1>2. /\ fromRegistry' = [fromRegistry EXCEPT ![p] = <<>>]
      /\ registering' = [registering EXCEPT ![p] = @ + 1]
      /\ server[p] = "registering" /\ registering[p] <= Len(Offers[p])
      /\ fromRegistry[p] # <<>> \/ link[p] = "closed"
      /\ UNCHANGED <<registryUp, failures, adding, link, toRegistry, serving, tableVars, server>>
  BY DEF ServiceRegistered
<1>3. RegistryTypeOK'
  <2>1. fromRegistry' \in [Links -> Seq(Messages)]
    <3>1. <<>> \in Seq(Messages)
      OBVIOUS
    <3> QED
      BY <1>2, <3>1 DEF RegistryTypeOK
  <2>2. \A q \in Providers : registering'[q] \in 1..(Len(Offers[q]) + 1)
    BY <1>2, OfferedServices DEF RegistryTypeOK
  <2>3. registering' \in [Providers -> Nat]
    BY <1>2, OfferedServices DEF RegistryTypeOK
  <2> QED
    BY <1>2, <2>1, <2>2, <2>3 DEF RegistryTypeOK, tableVars, Messages
<1>4. TableInv'
  BY <1>2 DEF TableInv, tableVars, OfferedBy
<1>5. PoolLinkInv'
  BY <1>1, <1>2, PoolLinkKept DEF RegistryTypeOK
<1>6. fromRegistry'[p] = <<>> /\ registering'[p] = registering[p] + 1
  BY <1>1, <1>2 DEF RegistryTypeOK
<1>7. RequestInv(p)'
  BY <1>2, <1>6, AnswersDropped DEF ProviderInv
<1>8. LinkInv(p)'
  BY <1>2, <1>6 DEF ProviderInv, LinkInv, OfferedBy, Registration, Message, tableVars
<1>9. ProgressInv(p)'
  <2>1. \A i \in DOMAIN Offers[p] : i < registering[p] + 1 => i < registering[p] \/ i = registering[p]
    BY OfferedServices DEF RegistryTypeOK
  <2> QED
    BY <1>2, <1>6, <2>1 DEF ProviderInv, ProgressInv, RequestInv, Asked, OfferedBy, tableVars
<1>10. \A q \in Providers \ {p} : Apart(q)
  BY <1>2 DEF Apart, RegistryTypeOK, tableVars, Links
<1> QED
  BY <1>3, <1>4, <1>5, <1>7, <1>8, <1>9, <1>10, OneProvider

\* It has registered everything.
LEMMA StartStep ==
    ASSUME RegistryInv, NEW p \in Providers, StartServer(p) PROVE RegistryInv'
<1> USE DEF RegistryInv
<1>1. p \in Links /\ p # Pool /\ Pool \in Links
  BY DEF Links
<1>2. /\ server' = [server EXCEPT ![p] = "serving"]
      /\ server[p] = "registering" /\ registering[p] > Len(Offers[p])
      /\ UNCHANGED <<registryUp, failures, adding, link, toRegistry, fromRegistry, serving,
                     tableVars, registering>>
  BY DEF StartServer
<1>3. RegistryTypeOK'
  BY <1>2 DEF RegistryTypeOK, tableVars, Messages
<1>4. TableInv'
  BY <1>2 DEF TableInv, tableVars, OfferedBy
<1>5. PoolLinkInv'
  BY <1>1, <1>2, PoolLinkKept DEF RegistryTypeOK
<1>6. server'[p] = "serving"
  BY <1>2 DEF RegistryTypeOK
<1>7. RequestInv(p)'
  BY <1>2 DEF ProviderInv, RequestInv, Asked, OfferedBy, Greeting, Message
<1>8. LinkInv(p)'
  BY <1>2, <1>6 DEF ProviderInv, LinkInv, OfferedBy, Registration, Message, tableVars
<1>9. ProgressInv(p)'
  BY <1>2 DEF ProviderInv, ProgressInv, Asked, OfferedBy, tableVars
<1>10. \A q \in Providers \ {p} : Apart(q)
  BY <1>2 DEF Apart, RegistryTypeOK, tableVars, Links
<1> QED
  BY <1>3, <1>4, <1>5, <1>7, <1>8, <1>9, <1>10, OneProvider

\* It dies: what it has sent may still arrive.
LEMMA DiesStep ==
    ASSUME RegistryInv, NEW p \in Providers, ServerDies(p) PROVE RegistryInv'
<1> USE DEF RegistryInv
<1>1. p \in Links /\ p # Pool /\ Pool \in Links
  BY DEF Links
<1>2. /\ server' = [server EXCEPT ![p] = "gone"] /\ server[p] # "new"
      /\ link' = [link EXCEPT ![p] = "closed"]
      /\ fromRegistry' = [fromRegistry EXCEPT ![p] = <<>>]
      /\ failures' = failures + 1 /\ failures < MaxFailures
      /\ UNCHANGED <<registryUp, adding, toRegistry, serving, tableVars, registering>>
  BY DEF ServerDies, Fails
<1>3. RegistryTypeOK'
  <2>1. fromRegistry' \in [Links -> Seq(Messages)]
    <3>1. <<>> \in Seq(Messages)
      OBVIOUS
    <3> QED
      BY <1>2, <3>1 DEF RegistryTypeOK
  <2>2. failures' \in 0..MaxFailures
    BY <1>2 DEF RegistryTypeOK
  <2> QED
    BY <1>2, <2>1, <2>2 DEF RegistryTypeOK, tableVars, Messages
<1>4. TableInv'
  BY <1>2 DEF TableInv, tableVars, OfferedBy
<1>5. PoolLinkInv'
  BY <1>1, <1>2, PoolLinkKept DEF RegistryTypeOK
<1>6. server'[p] = "gone" /\ link'[p] = "closed" /\ fromRegistry'[p] = <<>>
  BY <1>1, <1>2 DEF RegistryTypeOK
<1>7. RequestInv(p)'
  BY <1>2, <1>6, AnswersDropped DEF ProviderInv
<1>8. LinkInv(p)'
  BY <1>2, <1>6 DEF ProviderInv, LinkInv, OfferedBy, Registration, Message, tableVars
<1>9. ProgressInv(p)'
  BY <1>6 DEF ProgressInv
<1>10. \A q \in Providers \ {p} : Apart(q)
  BY <1>2 DEF Apart, RegistryTypeOK, tableVars, Links
<1> QED
  BY <1>3, <1>4, <1>5, <1>7, <1>8, <1>9, <1>10, OneProvider

\* What the registry finds at the head of a queue, and what it leaves there.
LEMMA HeadsKnown ==
    ASSUME RegistryInv, NEW k \in Links, NEW t, Next1(k, t)
    PROVE  /\ k = Pool => /\ t \in {"discover", "subscribe"}
                          /\ Head(toRegistry[k]).service \in Services
                          /\ Tail(toRegistry[k]) \in Seq(Questions)
           /\ k # Pool => k \in Providers
           /\ k \in Providers =>
                \/ /\ t = "provider"
                   /\ \/ Tail(toRegistry[k]) = <<>> /\ \A s \in OfferedBy(k) : ~Asked(k, s)
                      \/ \E s \in OfferedBy(k) :
                           Asked(k, s) /\ Tail(toRegistry[k]) = <<Registration(k, s)>>
                \/ /\ t = "register"
                   /\ \E s \in OfferedBy(k) :
                        /\ toRegistry[k] = <<Registration(k, s)>>
                        /\ Head(toRegistry[k]).service = s /\ Tail(toRegistry[k]) = <<>>
<1> USE DEF RegistryInv
<1>1. k # Pool => k \in Providers
  BY DEF Links
<1>2. CASE k = Pool
  <2>1. toRegistry[Pool] \in Seq(Questions) /\ toRegistry[Pool] # <<>>
    BY <1>2 DEF PoolLinkInv, Next1
  <2>2. Head(toRegistry[Pool]) \in Questions /\ Tail(toRegistry[Pool]) \in Seq(Questions)
    BY <2>1, SequenceKept
  <2>3. Head(toRegistry[Pool]).type = t
    BY <1>2 DEF Next1
  <2> QED
    BY <1>2, <2>2, <2>3 DEF Questions
<1>3. CASE k \in Providers
  <2>1. /\ \A s : Registration(k, s).type = "register" /\ Registration(k, s).service = s
        /\ Greeting(k).type = "provider"
    BY DEF Registration, Greeting, Message
  <2>2. Head(toRegistry[k]).type = t /\ toRegistry[k] # <<>>
    BY DEF Next1
  <2>3. CASE toRegistry[k] = <<Greeting(k)>>
    <3>1. Head(toRegistry[k]) = Greeting(k) /\ Tail(toRegistry[k]) = <<>>
      BY <2>3
    <3>2. \A s \in OfferedBy(k) : ~Asked(k, s)
      BY <1>3, <2>3, AsksNot, OfferedServices DEF Asked
    <3> QED
      BY <1>1, <1>3, <2>1, <2>2, <3>1, <3>2 
  <2>4. CASE \E s \in OfferedBy(k) : Asked(k, s)
    <3>1. PICK s \in OfferedBy(k) : Asks(toRegistry[k], k, s)
      BY <2>4 DEF Asked
    <3>2. s \in Services
      BY <1>3, OfferedServices
    <3>3. \/ /\ toRegistry[k] = <<Registration(k, s)>> /\ Head(toRegistry[k]) = Registration(k, s)
             /\ Tail(toRegistry[k]) = <<>>
          \/ Head(toRegistry[k]) = Greeting(k) /\ Tail(toRegistry[k]) = <<Registration(k, s)>>
      BY <1>3, <3>1, <3>2, AsksOnce
    <3> QED
      BY <1>1, <1>3, <2>1, <2>2, <3>1, <3>3 DEF Asked
  <2> QED
    BY <1>3, <2>2, <2>3, <2>4 DEF ProviderInv, RequestInv
<1> QED
  BY <1>1, <1>2, <1>3

\* Reading a message shortens its queue.
LEMMA QueuesTyped ==
    ASSUME RegistryTypeOK, NEW k \in Links, NEW t, Next1(k, t)
    PROVE  /\ toRegistry' \in [Links -> Seq(Messages)]
           /\ toRegistry'[k] = Tail(toRegistry[k])
           /\ \A j \in Links \ {k} : toRegistry'[j] = toRegistry[j]
           /\ toRegistry[k] # <<>> /\ serving[k] = "recv" /\ registryUp
<1>1. /\ toRegistry' = [toRegistry EXCEPT ![k] = Tail(@)] /\ toRegistry[k] # <<>>
      /\ serving[k] = "recv" /\ registryUp
  BY DEF Next1
<1>2. toRegistry[k] \in Seq(Messages)
  BY DEF RegistryTypeOK
<1>3. Tail(toRegistry[k]) \in Seq(Messages)
  BY <1>1, <1>2, SequenceKept
<1> QED
  BY <1>1, <1>3 DEF RegistryTypeOK

\* The registry reads a provider's greeting.
LEMMA GreetStep ==
    ASSUME RegistryInv, NEW k \in Links, HandleProvider(k) PROVE RegistryInv'
<1> USE DEF RegistryInv
<1>1. Next1(k, "provider")
  BY DEF HandleProvider
<1>2. /\ provider' = provider \cup {k}
      /\ UNCHANGED <<registryUp, failures, adding, link, fromRegistry, serving, services,
                     subscribers, serverVars>>
  BY DEF HandleProvider
<1>3. /\ k \in Providers /\ k # Pool /\ Pool \in Links
      /\ \/ Tail(toRegistry[k]) = <<>> /\ \A s \in OfferedBy(k) : ~Asked(k, s)
         \/ \E s \in OfferedBy(k) : Asked(k, s) /\ Tail(toRegistry[k]) = <<Registration(k, s)>>
  BY <1>1, HeadsKnown DEF Links
<1>4. RegistryTypeOK'
  BY <1>1, <1>2, <1>3, QueuesTyped DEF RegistryTypeOK, serverVars, Messages
<1>5. TableInv'
  BY <1>2 DEF TableInv, OfferedBy
<1>6. PoolLinkInv'
  BY <1>1, <1>2, <1>3, QueuesTyped, PoolLinkKept
<1>7. PICK m : m = toRegistry'[k]
  OBVIOUS
<1>8. \/ m = <<>> /\ \A s \in OfferedBy(k) : ~Asks(m, k, s)
      \/ \E s \in OfferedBy(k) :
           Asked(k, s) /\ Asks(m, k, s) /\ \A r \in OfferedBy(k) : Asks(m, k, r) => r = s
  <2>1. m = Tail(toRegistry[k])
    BY <1>1, <1>7, QueuesTyped
  <2>2. CASE m = <<>>
    BY <1>3, <2>2, AsksNot, OfferedServices
  <2>3. ASSUME NEW s \in OfferedBy(k), Asked(k, s), m = <<Registration(k, s)>>
        PROVE  Asks(m, k, s) /\ \A r \in OfferedBy(k) : Asks(m, k, r) => r = s
    <3>1. Asks(m, k, s) /\ s \in Services
      BY <1>3, <2>3, OfferedServices DEF Asks
    <3> QED
      BY <1>3, <3>1, AsksOnce
  <2> QED
    BY <1>3, <2>1, <2>2, <2>3
<1>9. server[k] # "new" /\ serving[k] = "recv"
  BY <1>1, <1>3, QueuesTyped DEF ProviderInv, LinkInv
<1>10. RequestInv(k)'
  BY <1>2, <1>3, <1>7, <1>8, <1>9
     DEF ProviderInv, RequestInv, Asked, OfferedBy, Greeting, Message
<1>11. LinkInv(k)'
  BY <1>2, <1>3, <1>9 DEF ProviderInv, LinkInv, serverVars
<1>12. ProgressInv(k)'
  BY <1>2, <1>3, <1>7, <1>8 DEF ProviderInv, ProgressInv, Asked, OfferedBy, serverVars
<1>13. \A q \in Providers \ {k} : Apart(q)
  BY <1>1, <1>2, QueuesTyped DEF Apart, serverVars, Links
<1> QED
  BY <1>3, <1>4, <1>5, <1>6, <1>10, <1>11, <1>12, <1>13, OneProvider

\* The registry enters a service in the table.
LEMMA EnterStep ==
    ASSUME RegistryInv, NEW k \in Links, HandleRegister(k) PROVE RegistryInv'
<1> USE DEF RegistryInv
<1>1. Next1(k, "register")
  BY DEF HandleRegister
<1>2. PICK s : s = Head(toRegistry[k]).service
  OBVIOUS
<1>3. /\ services' = services \cup {<<s, k>>}
      /\ serving' = [serving EXCEPT ![k] = "publish"] /\ adding' = [adding EXCEPT ![k] = s]
      /\ UNCHANGED <<registryUp, failures, link, fromRegistry, provider, subscribers, serverVars>>
  BY <1>2 DEF HandleRegister
<1>4. /\ k \in Providers /\ k # Pool /\ Pool \in Links /\ s \in OfferedBy(k) /\ s \in Services
      /\ toRegistry[k] = <<Registration(k, s)>> /\ Tail(toRegistry[k]) = <<>>
  BY <1>1, <1>2, HeadsKnown, OfferedServices DEF Links
<1>5. Asked(k, s) /\ toRegistry'[k] = <<>>
  BY <1>1, <1>4, QueuesTyped DEF Asked, Asks
<1>6. serving'[k] = "publish" /\ adding'[k] = s
  BY <1>3 DEF RegistryTypeOK
<1>7. k \in provider /\ fromRegistry[k] = <<>>
  BY <1>4, <1>5 DEF ProviderInv, LinkInv, RequestInv
<1>8. RegistryTypeOK'
  <2>1. serving' \in [Links -> {"recv", "publish", "dying"}]
    BY <1>3 DEF RegistryTypeOK
  <2>2. adding' \in [Links -> Services \cup {NoService}]
    BY <1>3, <1>4 DEF RegistryTypeOK
  <2>3. services' \subseteq Services \X Providers
    BY <1>3, <1>4 DEF RegistryTypeOK
  <2>4. toRegistry' \in [Links -> Seq(Messages)]
    BY <1>1, QueuesTyped
  <2> HIDE DEF Messages
  <2> QED
    BY <1>3, <2>1, <2>2, <2>3, <2>4 DEF RegistryTypeOK, serverVars
<1>9. TableInv'
  <2>1. ASSUME NEW e \in services
        PROVE  e[1] \in OfferedBy(e[2]) /\ e[2] \in provider /\ serving'[e[2]] # "dying"
    <3>1. e[2] \in Links
      BY DEF RegistryTypeOK, Links
    <3> QED
      BY <1>3, <3>1 DEF TableInv, RegistryTypeOK
  <2>2. <<s, k>>[1] = s /\ <<s, k>>[2] = k
    OBVIOUS
  <2> QED
    BY <1>3, <1>4, <1>6, <1>7, <2>1, <2>2 DEF TableInv, OfferedBy
<1>10. PoolLinkInv'
  <2>1. serving'[Pool] = serving[Pool]
    BY <1>3, <1>4 DEF RegistryTypeOK
  <2> QED
    BY <1>1, <1>3, <1>4, <2>1, QueuesTyped, PoolLinkKept
<1>11. \A r \in OfferedBy(k) : ~Asks(toRegistry'[k], k, r)
  BY <1>4, <1>5, AsksNot, OfferedServices
<1>12. RequestInv(k)'
  <2>1. Len(<<>>) = 0
    OBVIOUS
  <2> QED
    BY <1>3, <1>4, <1>5, <1>6, <1>7, <1>11, <2>1 DEF RequestInv, Asked, OfferedBy
<1>13. LinkInv(k)'
  <2>1. server[k] # "new"
    BY <1>1, <1>4, QueuesTyped DEF ProviderInv, LinkInv
  <2>2. \A r : <<>> # <<Registration(k, r)>>
    OBVIOUS
  <2> QED
    BY <1>3, <1>4, <1>5, <1>6, <1>7, <2>1, <2>2 DEF ProviderInv, LinkInv, serverVars, Registration, Message
<1>14. ProgressInv(k)'
  BY <1>3, <1>4, <1>5, <1>11 DEF ProviderInv, ProgressInv, Asked, OfferedBy, serverVars
<1>15. \A q \in Providers \ {k} : Apart(q)
  BY <1>1, <1>3, QueuesTyped DEF Apart, RegistryTypeOK, serverVars, Links
<1> QED
  BY <1>4, <1>8, <1>9, <1>10, <1>12, <1>13, <1>14, <1>15, OneProvider

\* It publishes the registration and answers it.
LEMMA PublishStep ==
    ASSUME RegistryInv, NEW k \in Links, PublishJoin(k) PROVE RegistryInv'
<1> USE DEF RegistryInv
<1>1. k \in Providers /\ k # Pool /\ Pool \in Links /\ serving[k] = "publish"
  BY DEF PublishJoin, PoolLinkInv, Links
<1>2. PICK told, a, b :
        /\ a = Message("registered", adding[k], {}) /\ b = Publication(k)
        /\ fromRegistry' = [fromRegistry EXCEPT
             ![k] = IF link[k] = "open" THEN Append(@, a) ELSE @,
             ![Pool] = IF told THEN Append(@, b) ELSE @]
  BY DEF PublishJoin
<1>3. /\ serving' = [serving EXCEPT ![k] = "recv"] /\ adding' = [adding EXCEPT ![k] = NoService]
      /\ UNCHANGED <<registryUp, failures, link, toRegistry, tableVars, serverVars>>
  BY DEF PublishJoin
<1>4. fromRegistry[k] = <<>> /\ adding[k] \in OfferedBy(k) /\ adding[k] \in Services
  BY <1>1, OfferedServices DEF ProviderInv, RequestInv
<1>5. a \in Messages
  BY <1>2, <1>4, MessagesTyped
<1>6. b \in Reports
  <2>1. {k} \in SUBSET Offering(adding[k])
    BY <1>1, <1>4 DEF Offering
  <2> QED
    BY <1>2, <1>4, <2>1, ReportTyped DEF Publication
<1>7. fromRegistry'[Pool] \in Seq(Reports)
  <2>1. fromRegistry[Pool] \in Seq(Reports)
    BY DEF PoolLinkInv
  <2>2. Append(fromRegistry[Pool], b) \in Seq(Reports)
    BY <1>6, <2>1, SequenceKept
  <2> QED
    BY <1>1, <1>2, <2>1, <2>2 DEF RegistryTypeOK
<1>8. /\ fromRegistry'[k] = <<a>> \/ fromRegistry'[k] = <<>>
      /\ fromRegistry'[k] \in Seq(Messages) /\ Len(fromRegistry'[k]) <= 1
  <2>1. Append(<<>>, a) = <<a>>
    BY ShortSequences
  <2>2. \A n : n \in {<<a>>, <<>>} => n \in Seq(Messages) /\ Len(n) <= 1
    <3>1. <<a>> \in Seq(Messages) /\ <<>> \in Seq(Messages) /\ Len(<<a>>) <= 1 /\ Len(<<>>) <= 1
      BY <1>5
    <3> QED
      BY <3>1, Zenon
  <2>3. fromRegistry'[k] = <<a>> \/ fromRegistry'[k] = <<>>
    BY <1>1, <1>2, <1>4, <2>1 DEF RegistryTypeOK
  <2> QED
    BY <2>2, <2>3
<1>9. \A j \in Links \ {k, Pool} : fromRegistry'[j] = fromRegistry[j]
  BY <1>2 DEF RegistryTypeOK
<1>10. serving'[k] = "recv" /\ \A j \in Links \ {k} : serving'[j] = serving[j] /\ adding'[j] = adding[j]
  BY <1>3 DEF RegistryTypeOK
<1>11. RegistryTypeOK'
  <2>1. fromRegistry' \in [Links -> Seq(Messages)]
    <3>1. fromRegistry'[Pool] \in Seq(Messages)
      <4>1. Reports \subseteq Messages
        BY MessagesTyped
      <4> QED
        BY <1>7, <4>1
    <3>2. DOMAIN fromRegistry' = Links /\ fromRegistry' = [j \in Links |-> fromRegistry'[j]]
      BY <1>2 DEF RegistryTypeOK
    <3>3. \A j \in Links : fromRegistry'[j] \in Seq(Messages)
      BY <1>8, <1>9, <3>1 DEF RegistryTypeOK
    <3> QED
      BY <3>2, <3>3
  <2>2. serving' \in [Links -> {"recv", "publish", "dying"}]
    BY <1>3 DEF RegistryTypeOK
  <2>3. adding' \in [Links -> Services \cup {NoService}]
    BY <1>3 DEF RegistryTypeOK
  <2> HIDE DEF Messages
  <2> QED
    BY <1>3, <2>1, <2>2, <2>3 DEF RegistryTypeOK, serverVars, tableVars
<1>12. TableInv'
  <2>1. ASSUME NEW e \in services PROVE serving'[e[2]] # "dying"
    <3>1. e[2] \in Links
      BY DEF RegistryTypeOK, Links
    <3> QED
      BY <1>10, <3>1 DEF TableInv
  <2> QED
    BY <1>3, <2>1 DEF TableInv, OfferedBy, tableVars
<1>13. PoolLinkInv'
  BY <1>1, <1>3, <1>7, <1>10 DEF PoolLinkInv, Questions, Reports, Messages, Offering, OfferedBy
<1>14. \A s \in OfferedBy(k) : ~Asked(k, s)
  BY <1>1 DEF ProviderInv, RequestInv
<1>15. \A s \in OfferedBy(k) : ~Asked(k, s)'
  BY <1>3, <1>14 DEF Asked, OfferedBy
<1>16. RequestInv(k)'
  <2>1. toRegistry'[k] \in {<<>>, <<Greeting(k)>>}
    BY <1>1, <1>3, <1>14 DEF ProviderInv, RequestInv
  <2> QED
    BY <1>8, <1>10, <1>15, <2>1 DEF RequestInv, OfferedBy, Greeting, Message
<1>17. LinkInv(k)'
  <2>1. server[k] # "new"
    BY <1>1 DEF ProviderInv, LinkInv
  <2> QED
    BY <1>1, <1>3, <1>10, <2>1
       DEF ProviderInv, LinkInv, serverVars, tableVars, Registration, Message, OfferedBy
<1>18. ProgressInv(k)'
  BY <1>1, <1>3, <1>10, <1>15 DEF ProviderInv, ProgressInv, OfferedBy, serverVars, tableVars
<1>19. \A q \in Providers \ {k} : Apart(q)
  <2>1. \A q \in Providers : q # Pool /\ q \in Links
    BY DEF Links
  <2> QED
    BY <1>3, <1>9, <1>10, <2>1 DEF Apart, serverVars, tableVars
<1> QED
  BY <1>1, <1>11, <1>12, <1>13, <1>16, <1>17, <1>18, <1>19, OneProvider

\* What leaves every provider's registration alone.
LEMMA NoProvider ==
    ASSUME RegistryInv, RegistryTypeOK', TableInv', PoolLinkInv', \A q \in Providers : Apart(q)
    PROVE  RegistryInv'
  BY ProviderKept DEF RegistryInv

\* The registry answers a discovery.
LEMMA DiscoverStep ==
    ASSUME RegistryInv, NEW k \in Links, HandleDiscover(k) PROVE RegistryInv'
<1> USE DEF RegistryInv
<1>1. Next1(k, "discover")
  BY DEF HandleDiscover
<1>2. /\ k = Pool /\ Head(toRegistry[k]).service \in Services
      /\ Tail(toRegistry[k]) \in Seq(Questions)
  BY <1>1, HeadsKnown
<1>3. PICK s \in Services : s = Head(toRegistry[k]).service
  BY <1>2
<1>4. PICK a : a = Message("discovered", s, Addresses(s))
  OBVIOUS
<1>5. /\ fromRegistry' = IF link[k] = "open" THEN [fromRegistry EXCEPT ![k] = Append(@, a)]
                         ELSE fromRegistry
      /\ UNCHANGED <<registryUp, failures, adding, link, serving, tableVars, serverVars>>
  BY <1>3, <1>4 DEF HandleDiscover, Answer
<1>6. a \in Reports
  <2>1. Addresses(s) \in SUBSET Offering(s)
    BY DEF Addresses, TableInv, Offering
  <2> QED
    BY <1>4, <2>1, ReportTyped
<1>7. /\ fromRegistry'[Pool] \in Seq(Reports)
      /\ \A j \in Links \ {Pool} : fromRegistry'[j] = fromRegistry[j]
  <2>1. fromRegistry[Pool] \in Seq(Reports)
    BY DEF PoolLinkInv
  <2>2. Append(fromRegistry[Pool], a) \in Seq(Reports)
    BY <1>6, <2>1, SequenceKept
  <2> QED
    BY <1>2, <1>5, <2>1, <2>2 DEF RegistryTypeOK
<1>8. RegistryTypeOK'
  <2>1. fromRegistry' \in [Links -> Seq(Messages)]
    <3>1. Append(fromRegistry[k], a) \in Seq(Messages)
      BY <1>6, MessagesTyped, SequenceKept DEF RegistryTypeOK
    <3> QED
      BY <1>5, <3>1 DEF RegistryTypeOK
  <2>2. toRegistry' \in [Links -> Seq(Messages)]
    BY <1>1, QueuesTyped
  <2> HIDE DEF Messages
  <2> QED
    BY <1>5, <2>1, <2>2 DEF RegistryTypeOK, serverVars, tableVars
<1>9. TableInv'
  BY <1>5 DEF TableInv, OfferedBy, tableVars
<1>10. toRegistry'[Pool] \in Seq(Questions)
  BY <1>1, <1>2, QueuesTyped
<1>11. PoolLinkInv'
  BY <1>5, <1>7, <1>10 DEF PoolLinkInv, Questions, Reports, Messages, Offering, OfferedBy
<1>12. \A q \in Providers : Apart(q)
  <2>1. \A q \in Providers : q # Pool /\ q \in Links
    BY DEF Links
  <2> QED
    BY <1>1, <1>2, <1>5, <1>7, <2>1, QueuesTyped DEF Apart, serverVars, tableVars
<1> QED
  BY <1>8, <1>9, <1>11, <1>12, NoProvider

\* The registry notes a subscriber.
LEMMA SubscriberStep ==
    ASSUME RegistryInv, NEW k \in Links, HandleSubscribe(k) PROVE RegistryInv'
<1> USE DEF RegistryInv
<1>1. Next1(k, "subscribe")
  BY DEF HandleSubscribe
<1>2. /\ k = Pool /\ Head(toRegistry[k]).service \in Services
      /\ Tail(toRegistry[k]) \in Seq(Questions)
  BY <1>1, HeadsKnown
<1>3. DOMAIN subscribers' \subseteq Services
  BY <1>2 DEF HandleSubscribe, RegistryTypeOK
<1>4. UNCHANGED <<registryUp, failures, adding, link, fromRegistry, serving, provider, services,
                  serverVars>>
  BY DEF HandleSubscribe
<1>5. RegistryTypeOK'
  <2>1. toRegistry' \in [Links -> Seq(Messages)]
    BY <1>1, QueuesTyped
  <2> HIDE DEF Messages
  <2> QED
    BY <1>3, <1>4, <2>1 DEF RegistryTypeOK, serverVars
<1>6. TableInv'
  BY <1>4 DEF TableInv, OfferedBy
<1>7. toRegistry'[Pool] \in Seq(Questions)
  BY <1>1, <1>2, QueuesTyped
<1>8. PoolLinkInv'
  BY <1>4, <1>7 DEF PoolLinkInv, Questions, Reports, Messages, Offering, OfferedBy
<1>9. \A q \in Providers : Apart(q)
  <2>1. \A q \in Providers : q # Pool /\ q \in Links
    BY DEF Links
  <2> QED
    BY <1>1, <1>2, <1>4, <2>1, QueuesTyped DEF Apart, serverVars
<1> QED
  BY <1>5, <1>6, <1>8, <1>9, NoProvider

\* A connection has ended: what it registered leaves the table.
LEMMA EndStep ==
    ASSUME RegistryInv, NEW k \in Links, ConnectionEnds(k) PROVE RegistryInv'
<1> USE DEF RegistryInv
<1>1. /\ serving[k] = "recv" /\ link[k] = "closed" /\ toRegistry[k] = <<>>
      /\ services' = IF k \in provider THEN Remaining(k) ELSE services
      /\ serving' = [serving EXCEPT ![k] = "dying"]
      /\ UNCHANGED <<registryUp, failures, adding, link, toRegistry, fromRegistry, provider,
                     subscribers, serverVars>>
  BY DEF ConnectionEnds
<1>2. services' \subseteq services /\ \A e \in services' : e[2] # k
  BY <1>1 DEF Remaining, TableInv
<1>3. RegistryTypeOK'
  <2>1. serving' \in [Links -> {"recv", "publish", "dying"}]
    BY <1>1 DEF RegistryTypeOK
  <2> HIDE DEF Messages
  <2> QED
    BY <1>1, <1>2, <2>1 DEF RegistryTypeOK, serverVars
<1>4. serving'[k] = "dying" /\ \A j \in Links \ {k} : serving'[j] = serving[j]
  BY <1>1 DEF RegistryTypeOK
<1>5. TableInv'
  <2>1. ASSUME NEW e \in services' PROVE serving'[e[2]] # "dying"
    <3>1. e[2] \in Links \ {k} /\ e \in services
      BY <1>2 DEF RegistryTypeOK, Links
    <3> QED
      BY <1>4, <3>1 DEF TableInv
  <2> QED
    BY <1>1, <1>2, <2>1 DEF TableInv, OfferedBy
<1>6. PoolLinkInv'
  <2>1. serving'[Pool] # "publish"
    BY <1>4 DEF PoolLinkInv, Links
  <2> QED
    BY <1>1, <2>1 DEF PoolLinkInv, Questions, Reports, Messages, Offering, OfferedBy
<1>7. \A q \in Providers \ {k} : Apart(q)
  <2>1. \A q \in Providers : q \in Links
    BY DEF Links
  <2>2. \A q \in Providers \ {k} : \A s : <<s, q>> \in services => <<s, q>> \in services'
    BY <1>1 DEF Remaining
  <2> QED
    BY <1>1, <1>4, <2>1, <2>2 DEF Apart, serverVars
<1>8. CASE k \notin Providers
  BY <1>3, <1>5, <1>6, <1>7, <1>8, NoProvider
<1>9. CASE k \in Providers
  <2>1. RequestInv(k)'
    <3>1. \A s \in OfferedBy(k) : ~Asked(k, s)'
      BY <1>1, <1>9, AsksNot, OfferedServices DEF Asked, OfferedBy
    <3> QED
      BY <1>1, <1>4, <1>9, <3>1 DEF ProviderInv, RequestInv, OfferedBy
  <2>2. LinkInv(k)'
    <3>1. \A r : <<>> # <<Registration(k, r)>>
      OBVIOUS
    <3> QED
      BY <1>1, <1>4, <1>9, <3>1 DEF ProviderInv, LinkInv, serverVars, OfferedBy, Registration, Message
  <2>3. ProgressInv(k)'
    BY <1>1, <1>9 DEF ProgressInv
  <2> QED
    BY <1>3, <1>5, <1>6, <1>7, <1>9, <2>1, <2>2, <2>3, OneProvider
<1> QED
  BY <1>8, <1>9

\* The registry's process ends, and with it every connection.
LEMMA NullStep ==
    ASSUME RegistryInv, NEW k \in Links, NullRequest(k) PROVE RegistryInv'
<1> USE DEF RegistryInv
<1>1. /\ registryUp' = FALSE
      /\ link' = [j \in Links |-> IF link[j] = "open" THEN "closed" ELSE link[j]]
      /\ toRegistry' = [j \in Links |-> <<>>]
      /\ provider' = {} /\ services' = {} /\ subscribers' = <<>>
      /\ serving' = [j \in Links |-> "recv"] /\ adding' = [j \in Links |-> NoService]
      /\ UNCHANGED <<failures, fromRegistry, serverVars>>
  BY DEF NullRequest, RegistryTables
<1>2. RegistryTypeOK'
  <2>1. toRegistry' \in [Links -> Seq(Messages)]
    <3>1. <<>> \in Seq(Messages)
      OBVIOUS
    <3> QED
      BY <1>1, <3>1
  <2>2. link' \in [Links -> {"none", "open", "closed"}]
    BY <1>1 DEF RegistryTypeOK
  <2>3. DOMAIN subscribers' \subseteq Services
    BY <1>1
  <2>4. /\ serving' \in [Links -> {"recv", "publish", "dying"}]
        /\ adding' \in [Links -> Services \cup {NoService}]
    BY <1>1
  <2> HIDE DEF Messages
  <2> QED
    BY <1>1, <2>1, <2>2, <2>3, <2>4 DEF RegistryTypeOK, serverVars
<1>3. TableInv'
  BY <1>1 DEF TableInv
<1>4. PoolLinkInv'
  <2>1. Pool \in Links /\ <<>> \in Seq(Questions)
    BY DEF Links
  <2> QED
    BY <1>1, <2>1 DEF PoolLinkInv, Questions, Reports, Messages, Offering, OfferedBy
<1>5. ASSUME NEW p \in Providers PROVE ProviderInv(p)'
  <2>1. p \in Links
    BY DEF Links
  <2>2. /\ toRegistry'[p] = <<>> /\ serving'[p] = "recv" /\ link'[p] # "open"
        /\ link'[p] = "none" <=> link[p] = "none"
    BY <1>1, <2>1
  <2>3. \A s \in OfferedBy(p) : ~Asked(p, s)'
    BY <2>2, AsksNot, OfferedServices DEF Asked, OfferedBy
  <2>4. RequestInv(p)'
    BY <1>1, <2>2, <2>3 DEF ProviderInv, RequestInv, OfferedBy
  <2>5. LinkInv(p)'
    <3>1. \A r : <<>> # <<Registration(p, r)>>
      OBVIOUS
    <3> QED
      BY <1>1, <2>2, <3>1 DEF ProviderInv, LinkInv, serverVars, OfferedBy, Registration, Message
  <2>6. ProgressInv(p)'
    BY <2>2 DEF ProgressInv
  <2> QED
    BY <2>4, <2>5, <2>6 DEF ProviderInv
<1> QED
  BY <1>2, <1>3, <1>4, <1>5

\* The timer of update() closes a connection.
LEMMA AliveStep ==
    ASSUME RegistryInv, NEW k \in Links, AliveTimeout(k) PROVE RegistryInv'
<1> USE DEF RegistryInv
<1>1. /\ link[k] = "open" /\ link' = [link EXCEPT ![k] = "closed"]
      /\ toRegistry' = [toRegistry EXCEPT ![k] = <<>>]
      /\ failures < MaxFailures /\ failures' = failures + 1
      /\ UNCHANGED <<registryUp, adding, fromRegistry, serving, tableVars, serverVars>>
  BY DEF AliveTimeout, Fails
<1>2. RegistryTypeOK'
  <2>1. toRegistry' \in [Links -> Seq(Messages)]
    <3>1. <<>> \in Seq(Messages)
      OBVIOUS
    <3> QED
      BY <1>1, <3>1 DEF RegistryTypeOK
  <2>2. link' \in [Links -> {"none", "open", "closed"}] /\ failures' \in 0..MaxFailures
    BY <1>1 DEF RegistryTypeOK
  <2> HIDE DEF Messages
  <2> QED
    BY <1>1, <2>1, <2>2 DEF RegistryTypeOK, serverVars, tableVars
<1>3. TableInv'
  BY <1>1 DEF TableInv, OfferedBy, tableVars
<1>4. /\ toRegistry'[k] = <<>> /\ link'[k] = "closed"
      /\ \A j \in Links \ {k} : toRegistry'[j] = toRegistry[j] /\ link'[j] = link[j]
  BY <1>1 DEF RegistryTypeOK
<1>5. PoolLinkInv'
  BY <1>1, <1>4, PoolLinkKept DEF Links
<1>6. \A q \in Providers \ {k} : Apart(q)
  BY <1>1, <1>4 DEF Apart, Links, serverVars, tableVars
<1>7. CASE k \notin Providers
  BY <1>2, <1>3, <1>5, <1>6, <1>7, NoProvider
<1>8. CASE k \in Providers
  <2>1. \A s \in OfferedBy(k) : ~Asked(k, s)'
    BY <1>4, <1>8, AsksNot, OfferedServices DEF Asked, OfferedBy
  <2>2. RequestInv(k)'
    BY <1>1, <1>4, <1>8, <2>1 DEF ProviderInv, RequestInv, OfferedBy
  <2>3. LinkInv(k)'
    <3>1. \A r : <<>> # <<Registration(k, r)>>
      OBVIOUS
    <3> QED
      BY ZenonT(40), <1>1, <1>4, <1>8, <3>1
         DEF ProviderInv, LinkInv, serverVars, tableVars, OfferedBy, Registration, Message
  <2>4. ProgressInv(k)'
    BY <1>4 DEF ProgressInv
  <2> QED
    BY <1>2, <1>3, <1>5, <1>6, <1>8, <2>2, <2>3, <2>4, OneProvider
<1> QED
  BY <1>7, <1>8

\* Every step of the registry and of the providers.
LEMMA RegistrySteps ==
    ASSUME RegistryInv
    PROVE  /\ \A k \in Links : Serve(k) \/ AliveTimeout(k) => RegistryInv'
           /\ \A p \in Providers : Provide(p) \/ ServerDies(p) => RegistryInv'
  BY BindStep, RegisterStep, RegisteredStep, StartStep, DiesStep, GreetStep, EnterStep,
     PublishStep, DiscoverStep, SubscriberStep, EndStep, NullStep, AliveStep DEF Serve, Provide

\* What a step of the pool may do to its connection.
LEMMA PoolSteps ==
    ASSUME RegistryInv,
           UNCHANGED <<registryUp, adding, serving, tableVars, serverVars>>,
           failures' \in 0..MaxFailures,
           link' = link \/ link' = [link EXCEPT ![Pool] = "closed"],
           \/ toRegistry' = toRegistry
           \/ \E m \in Questions : toRegistry' = [toRegistry EXCEPT ![Pool] = Append(@, m)],
           \/ fromRegistry' = fromRegistry
           \/ /\ fromRegistry[Pool] # <<>>
              /\ fromRegistry' = [fromRegistry EXCEPT ![Pool] = Tail(@)]
    PROVE  RegistryInv'
<1> USE DEF RegistryInv
<1>1. Pool \in Links /\ \A q \in Providers : q \in Links /\ q # Pool
  BY DEF Links
<1>2. toRegistry[Pool] \in Seq(Questions) /\ fromRegistry[Pool] \in Seq(Reports)
  BY DEF PoolLinkInv
<1>3. toRegistry'[Pool] \in Seq(Questions) /\ toRegistry' \in [Links -> Seq(Messages)]
  <2>1. CASE toRegistry' = toRegistry
    BY <1>2, <2>1 DEF RegistryTypeOK
  <2>2. ASSUME NEW m \in Questions, toRegistry' = [toRegistry EXCEPT ![Pool] = Append(@, m)]
        PROVE  toRegistry'[Pool] \in Seq(Questions) /\ toRegistry' \in [Links -> Seq(Messages)]
    <3>1. Append(toRegistry[Pool], m) \in Seq(Questions)
      BY <1>2, SequenceKept
    <3>2. Append(toRegistry[Pool], m) \in Seq(Messages)
      BY <1>1, MessagesTyped, SequenceKept DEF RegistryTypeOK
    <3> QED
      BY <1>1, <2>2, <3>1, <3>2 DEF RegistryTypeOK
  <2> QED
    BY <2>1, <2>2
<1>4. fromRegistry'[Pool] \in Seq(Reports) /\ fromRegistry' \in [Links -> Seq(Messages)]
  <2>1. CASE fromRegistry' = fromRegistry
    BY <1>2, <2>1 DEF RegistryTypeOK
  <2>2. CASE /\ fromRegistry[Pool] # <<>>
             /\ fromRegistry' = [fromRegistry EXCEPT ![Pool] = Tail(@)]
    <3>1. Tail(fromRegistry[Pool]) \in Seq(Reports)
      BY <1>2, <2>2, SequenceKept
    <3>2. Tail(fromRegistry[Pool]) \in Seq(Messages)
      BY <1>1, <2>2, SequenceKept DEF RegistryTypeOK
    <3> QED
      BY <1>1, <2>2, <3>1, <3>2 DEF RegistryTypeOK
  <2> QED
    BY <2>1, <2>2
<1>5. RegistryTypeOK'
  <2>1. link' \in [Links -> {"none", "open", "closed"}]
    BY DEF RegistryTypeOK
  <2> HIDE DEF Messages
  <2> QED
    BY <1>3, <1>4, <2>1 DEF RegistryTypeOK, serverVars, tableVars
<1>6. TableInv'
  BY DEF TableInv, OfferedBy, tableVars
<1>7. PoolLinkInv'
  BY <1>3, <1>4 DEF PoolLinkInv, Questions, Reports, Messages, Offering, OfferedBy
<1>8. \A q \in Providers : Apart(q)
  BY <1>1 DEF Apart, RegistryTypeOK, serverVars, tableVars
<1> QED
  BY <1>5, <1>6, <1>7, <1>8, NoProvider

-----------------------------------------------------------------------------
(* The pool *)

\* The registry and the providers take nothing from what the pool has to read.
LEMMA ReportsKept ==
    ASSUME RegistryInv, fromRegistry[Pool] # <<>>
    PROVE  /\ \A k \in Links : Serve(k) \/ AliveTimeout(k) => fromRegistry'[Pool] # <<>>
           /\ \A p \in Providers : Provide(p) \/ ServerDies(p) => fromRegistry'[Pool] # <<>>
<1> USE DEF RegistryInv
<1>1. /\ Pool \in Links /\ \A p \in Providers : p # Pool /\ p \in Links
      /\ fromRegistry[Pool] \in Seq(Messages)
  BY DEF Links, RegistryTypeOK
<1>2. \A m : Append(fromRegistry[Pool], m) # <<>>
  <2> SUFFICES ASSUME NEW m PROVE Append(fromRegistry[Pool], m) # <<>>
    OBVIOUS
  <2>1. fromRegistry[Pool] \in Seq(Messages \cup {m}) /\ m \in Messages \cup {m}
    BY <1>1
  <2> QED
    BY <2>1, SequenceKept
<1>3. ASSUME NEW k \in Links, Serve(k) \/ AliveTimeout(k) PROVE fromRegistry'[Pool] # <<>>
  <2>1. CASE PublishJoin(k)
    <3>1. k # Pool
      BY <2>1 DEF PublishJoin, PoolLinkInv
    <3>2. PICK told, a, m :
            fromRegistry' = [fromRegistry EXCEPT
               ![k] = IF link[k] = "open" THEN Append(@, a) ELSE @,
               ![Pool] = IF told THEN Append(@, m) ELSE @]
      BY <2>1 DEF PublishJoin
    <3> QED
      BY <1>1, <1>2, <3>1, <3>2 DEF RegistryTypeOK
  <2>2. CASE HandleDiscover(k)
    <3>1. PICK a : fromRegistry' = IF link[k] = "open"
                                   THEN [fromRegistry EXCEPT ![k] = Append(@, a)] ELSE fromRegistry
      BY <2>2 DEF HandleDiscover, Answer
    <3> QED
      BY <1>1, <1>2, <3>1 DEF RegistryTypeOK
  <2>3. CASE UNCHANGED fromRegistry
    BY <2>3
  <2> QED
    BY <1>3, <2>1, <2>2, <2>3
       DEF Serve, HandleProvider, HandleRegister, HandleSubscribe, ConnectionEnds, NullRequest,
           AliveTimeout
<1>4. ASSUME NEW p \in Providers, Provide(p) \/ ServerDies(p) PROVE fromRegistry'[Pool] # <<>>
  <2>1. \/ UNCHANGED fromRegistry \/ fromRegistry' = [fromRegistry EXCEPT ![p] = <<>>]
    BY <1>4 DEF Provide, BindRegistry, RegisterService, ServiceRegistered, StartServer, ServerDies
  <2> QED
    BY <1>1, <2>1 DEF RegistryTypeOK
<1> QED
  BY <1>3, <1>4

\* A step outside the pool.
LEMMA PoolWaits ==
    ASSUME PoolInv, UNCHANGED poolVars,
           fromRegistry[Pool] # <<>> => fromRegistry'[Pool] # <<>>
    PROVE  PoolInv'
<1> USE DEF PoolInv, poolVars, callerVars
<1>1. PoolTypes'
  BY DEF PoolTypes, Connections
<1>2. MutexInv' /\ DiscoverInv'
  BY DEF MutexInv, HoldsMutex, DiscoverInv
<1>3. BoxInv' /\ CacheSound'
  BY DEF BoxInv, CacheSound, Offering, OfferedBy
<1> QED
  BY <1>1, <1>2, <1>3

\* A step of call() that concerns no discovery.
LEMMA CallMoves ==
    ASSUME PoolInv, NEW c \in Callers, NEW label \in {"idle", "find", "call", "relock", "choose", "last"},
           pc[c] \notin {"dead", "send", "await", "subscribe"}, pc' = [pc EXCEPT ![c] = label],
           calls' \in [Callers -> Nat], \A d \in Callers : calls'[d] <= MaxCalls[d],
           want' \in [Callers -> Services \cup {NoService}],
           \A d \in Callers \ {c} : want'[d] = want[d],
           label # "idle" => want'[c] \in Services,
           IF label = "choose" THEN connMutex = "none" /\ connMutex' = c
           ELSE connMutex' = IF pc[c] = "choose" THEN "none" ELSE connMutex,
           cache' \in [Services -> SUBSET Providers],
           connection' \in [Services -> Connections \cup {NoConnection}],
           CacheSound',
           UNCHANGED <<poolClosed, subMutex, discovering, subscribed, box, recv, fromRegistry>>
    PROVE  PoolInv'
<1> USE DEF PoolInv
<1>1. pc'[c] = label /\ \A d \in Callers \ {c} : pc'[d] = pc[d]
  BY DEF PoolTypes
<1>2. box[c] = {}
  BY DEF BoxInv
<1>3. PoolTypes'
  <2>1. pc' \in [Callers -> {"idle", "find", "call", "relock", "choose", "send", "await",
                             "subscribe", "connect", "last", "dead"}]
    BY DEF PoolTypes
  <2>2. connMutex' \in Callers \cup {"none"}
    BY DEF PoolTypes
  <2>3. connection' \in [Services -> Connections \cup {NoConnection}]'
    BY DEF Connections, NoConnection
  <2> QED
    BY <2>1, <2>2, <2>3 DEF PoolTypes
<1>4. MutexInv'
  BY <1>1 DEF MutexInv, HoldsMutex, PoolTypes
<1>5. DiscoverInv'
  <2>1. ASSUME recv # "end", NEW s \in DOMAIN discovering
        PROVE  /\ discovering[s] \in Callers /\ pc'[discovering[s]] \in {"send", "await"}
               /\ want'[discovering[s]] = s
    BY <1>1, <2>1 DEF DiscoverInv
  <2>2. ASSUME NEW d \in Callers, pc'[d] \in {"send", "await"}, ~poolClosed
        PROVE  want'[d] \in DOMAIN discovering /\ discovering[want'[d]] = d
    <3>1. d # c
      BY <1>1, <2>2
    <3> QED
      BY ZenonT(40), <1>1, <2>2, <3>1 DEF DiscoverInv
  <2>3. (poolClosed => recv = "end") /\ (recv = "end" => poolClosed)
    BY DEF DiscoverInv
  <2> QED
    BY <2>1, <2>2, <2>3 DEF DiscoverInv
<1>6. BoxInv'
  BY <1>1, <1>2 DEF BoxInv, Offering, OfferedBy
<1> QED
  BY <1>3, <1>4, <1>5, <1>6

\* The caches are as they were.
LEMMA CachesKept ==
    ASSUME PoolInv, cache' = cache, connection' = connection
    PROVE  /\ CacheSound' /\ cache' \in [Services -> SUBSET Providers]
           /\ connection' \in [Services -> Connections \cup {NoConnection}]
  BY DEF PoolInv, PoolTypes, CacheSound, OfferedBy, NoConnection

\* The steps of call() but for those of a discovery.
LEMMA StartCall ==
    ASSUME PoolInv, NEW c \in Callers, NEW s \in Services, Start(c, s) PROVE PoolInv'
<1> USE DEF Start, Goto, registryVars
<1>1. calls' \in [Callers -> Nat] /\ \A d \in Callers : calls'[d] <= MaxCalls[d]
  BY DEF PoolInv, PoolTypes
<1>2. /\ want' \in [Callers -> Services \cup {NoService}]
      /\ want'[c] = s /\ \A d \in Callers \ {c} : want'[d] = want[d]
  BY DEF PoolInv, PoolTypes
<1>3. CacheSound' /\ cache' \in [Services -> SUBSET Providers]
      /\ connection' \in [Services -> Connections \cup {NoConnection}]
  BY CachesKept
<1> QED
  BY <1>1, <1>2, <1>3, CallMoves

LEMMA FindCall ==
    ASSUME PoolInv, NEW c \in Callers, Find(c) PROVE PoolInv'
<1> USE DEF Find, Continue, Goto, registryVars
<1>1. /\ want' = want /\ calls' = calls /\ want[c] \in Services
      /\ calls' \in [Callers -> Nat] /\ \A d \in Callers : calls'[d] <= MaxCalls[d]
      /\ want' \in [Callers -> Services \cup {NoService}]
  BY DEF PoolInv, PoolTypes, MutexInv
<1>2. CacheSound' /\ cache' \in [Services -> SUBSET Providers]
      /\ connection' \in [Services -> Connections \cup {NoConnection}]
  BY CachesKept
<1> QED
  BY <1>1, <1>2, CallMoves

LEMMA CallOnCall ==
    ASSUME PoolInv, NEW c \in Callers, CallOn(c) \/ LastCall(c) \/ RegistryClosed(c) PROVE PoolInv'
<1> USE DEF CallOn, LastCall, RegistryClosed, Returns, Continue, Goto, registryVars
<1>1. /\ calls' = calls /\ want[c] \in Services
      /\ calls' \in [Callers -> Nat] /\ \A d \in Callers : calls'[d] <= MaxCalls[d]
  BY DEF PoolInv, PoolTypes, MutexInv
<1>2. /\ want' = want \/ want' = [want EXCEPT ![c] = NoService]
      /\ want' \in [Callers -> Services \cup {NoService}]
      /\ \A d \in Callers \ {c} : want'[d] = want[d]
  BY DEF PoolInv, PoolTypes
<1>3. CacheSound' /\ cache' \in [Services -> SUBSET Providers]
      /\ connection' \in [Services -> Connections \cup {NoConnection}]
  BY CachesKept
<1>4. CASE CallOn(c)
  BY <1>1, <1>2, <1>3, <1>4, CallMoves
<1>5. CASE LastCall(c)
  BY <1>1, <1>2, <1>3, <1>5, CallMoves
<1>6. CASE RegistryClosed(c)
  BY <1>1, <1>2, <1>3, <1>6, CallMoves
<1> QED
  BY <1>4, <1>5, <1>6

LEMMA RelockCall ==
    ASSUME PoolInv, NEW c \in Callers, Relock(c) PROVE PoolInv'
<1> USE DEF Relock, Continue, Goto, registryVars
<1>1. /\ want' = want /\ calls' = calls /\ want[c] \in Services
      /\ calls' \in [Callers -> Nat] /\ \A d \in Callers : calls'[d] <= MaxCalls[d]
      /\ want' \in [Callers -> Services \cup {NoService}]
  BY DEF PoolInv, PoolTypes, MutexInv
<1>2. /\ cache' \in [Services -> SUBSET Providers]
      /\ connection' \in [Services -> Connections \cup {NoConnection}]
  BY <1>1 DEF PoolInv, PoolTypes
<1>3. CacheSound'
  <2> SUFFICES ASSUME NEW s \in Services
               PROVE  /\ \A p \in cache'[s] : s \in OfferedBy(p)
                      /\ connection'[s] # NoConnection => s \in OfferedBy(connection'[s].to)
    BY DEF CacheSound, OfferedBy, NoConnection
  <2>1. cache'[s] \subseteq cache[s] /\ (connection'[s] = connection[s] \/ connection'[s] = NoConnection)
    BY <1>1 DEF PoolInv, PoolTypes
  <2> QED
    BY <2>1 DEF PoolInv, CacheSound
<1> QED
  BY <1>1, <1>2, <1>3, CallMoves

LEMMA ConnectCall ==
    ASSUME PoolInv, NEW c \in Callers, NEW p \in Providers, ConnectTo(c, p) PROVE PoolInv'
<1>1. /\ calls' = calls /\ want[c] \in Services /\ cache' = cache /\ p \in cache[want[c]]
      /\ calls' \in [Callers -> Nat] /\ \A d \in Callers : calls'[d] <= MaxCalls[d]
  BY DEF PoolInv, PoolTypes, MutexInv, ConnectTo
<1>2. \/ want' = want /\ pc' = [pc EXCEPT ![c] = "last"]
      \/ want' = [want EXCEPT ![c] = NoService] /\ pc' = [pc EXCEPT ![c] = "idle"]
  BY DEF ConnectTo, Returns, Continue, Goto
<1>3. /\ want' \in [Callers -> Services \cup {NoService}]
      /\ \A d \in Callers \ {c} : want'[d] = want[d]
      /\ pc' = [pc EXCEPT ![c] = "last"] => want'[c] \in Services
  BY <1>1, <1>2 DEF PoolInv, PoolTypes
<1>4. PICK k : /\ k \in Connections /\ k.to = p
               /\ \/ connection' = connection
                  \/ connection' = [connection EXCEPT ![want[c]] = IF @ = NoConnection THEN k ELSE @]
  <2>1. Connection(p, c) \in Connections /\ Connection(p, c).to = p
    BY DEF Connection, Connections, PoolInv, PoolTypes
  <2>2. \/ connection' = connection
        \/ connection' = [connection EXCEPT ![want[c]] =
                            IF @ = NoConnection THEN Connection(p, c) ELSE @]
    BY DEF ConnectTo
  <2> QED
    BY <2>1, <2>2
<1>5. connection' \in [Services -> Connections \cup {NoConnection}]
  BY <1>1, <1>4 DEF PoolInv, PoolTypes
<1>6. CacheSound'
  <2> SUFFICES ASSUME NEW s \in Services
               PROVE  /\ \A q \in cache'[s] : s \in OfferedBy(q)
                      /\ connection'[s] # NoConnection => s \in OfferedBy(connection'[s].to)
    BY DEF CacheSound, OfferedBy, NoConnection
  <2>1. connection'[s] = connection[s] \/ (s = want[c] /\ connection'[s] = k)
    BY <1>1, <1>4 DEF PoolInv, PoolTypes
  <2>2. want[c] \in OfferedBy(p)
    BY <1>1 DEF PoolInv, CacheSound
  <2> QED
    BY <1>1, <1>4, <2>1, <2>2 DEF PoolInv, CacheSound
<1>7. /\ pc[c] = "choose" /\ connMutex' = "none"
      /\ UNCHANGED <<poolClosed, subMutex, discovering, subscribed, box, recv, fromRegistry>>
  BY DEF ConnectTo, registryVars
<1>8. cache' \in [Services -> SUBSET Providers]
  BY <1>1 DEF PoolInv, PoolTypes
<1>9. CASE pc' = [pc EXCEPT ![c] = "last"]
  BY <1>1, <1>3, <1>5, <1>6, <1>7, <1>8, <1>9, CallMoves
<1>10. CASE pc' = [pc EXCEPT ![c] = "idle"]
  BY <1>1, <1>3, <1>5, <1>6, <1>7, <1>8, <1>10, CallMoves
<1> QED
  BY <1>2, <1>9, <1>10

\* The steps of a discovery.
Labels == {"idle", "find", "call", "relock", "choose", "send", "await", "subscribe", "connect",
           "last", "dead"}

LEMMA DiscoverCall ==
    ASSUME PoolInv, NEW c \in Callers, Discover(c) PROVE PoolInv'
<1> USE DEF PoolInv
<1>1. /\ pc[c] = "choose" /\ ~poolClosed /\ pc' = [pc EXCEPT ![c] = "send"]
      /\ UNCHANGED <<fromRegistry, poolClosed, connMutex, subMutex, cache, connection,
                     subscribed, calls, want, using, box, recv>>
      /\ discovering' = [s \in DOMAIN discovering \cup {want[c]} |->
                           IF s \in DOMAIN discovering THEN discovering[s] ELSE c]
  BY DEF Discover, Goto, registryVars
<1>2. want[c] \in Services /\ connMutex = c /\ recv # "end"
  BY <1>1 DEF MutexInv, HoldsMutex, DiscoverInv
<1>3. pc'[c] = "send" /\ (\A d \in Callers \ {c} : pc'[d] = pc[d]) /\ pc' \in [Callers -> Labels]
  BY <1>1 DEF PoolTypes, Labels
<1>4. DOMAIN discovering = {}
  <2> SUFFICES ASSUME NEW s \in DOMAIN discovering PROVE FALSE
    OBVIOUS
  <2>1. discovering[s] \in Callers /\ pc[discovering[s]] \in {"send", "await"}
    BY <1>2 DEF DiscoverInv
  <2> QED
    BY <1>1, <1>2, <2>1 DEF MutexInv, HoldsMutex
<1>5. DOMAIN discovering' = {want[c]} /\ discovering'[want[c]] = c
  BY <1>1, <1>4
<1>6. PoolTypes'
  BY <1>1, <1>2, <1>3, <1>5 DEF PoolTypes, Labels, Connections, NoConnection
<1>7. MutexInv'
  BY <1>1, <1>2, <1>3 DEF MutexInv, HoldsMutex
<1>8. DiscoverInv'
  <2>1. \A d \in Callers : pc'[d] \in {"send", "await"} => d = c
    BY <1>1, <1>2, <1>3 DEF MutexInv, HoldsMutex
  <2> QED
    BY <1>1, <1>2, <1>3, <1>5, <2>1 DEF DiscoverInv
<1>9. BoxInv'
  BY <1>1, <1>3 DEF BoxInv, Offering, OfferedBy
<1> QED
  BY <1>1, <1>6, <1>7, <1>8, <1>9, CachesKept

LEMMA SendCall ==
    ASSUME PoolInv, NEW c \in Callers, DiscoverSend(c) PROVE PoolInv'
<1> USE DEF PoolInv
<1>1. /\ pc[c] = "send" /\ pc' = [pc EXCEPT ![c] = "await"]
      /\ UNCHANGED <<fromRegistry, poolClosed, connMutex, subMutex, cache, connection,
                     discovering, subscribed, calls, want, using, box, recv>>
  BY DEF DiscoverSend, Goto, othersOfRegistry
<1>2. pc'[c] = "await" /\ (\A d \in Callers \ {c} : pc'[d] = pc[d]) /\ pc' \in [Callers -> Labels]
  BY <1>1 DEF PoolTypes, Labels
<1>3. PoolTypes'
  BY <1>1, <1>2 DEF PoolTypes, Labels, Connections, NoConnection
<1>4. MutexInv'
  BY <1>1, <1>2 DEF MutexInv, HoldsMutex
<1>5. DiscoverInv'
  <2>1. \A d \in Callers : pc'[d] \in {"send", "await"} <=> pc[d] \in {"send", "await"}
    BY <1>1, <1>2
  <2>2. \A d \in Callers : pc'[d] = "dead" <=> pc[d] = "dead"
    BY <1>1, <1>2
  <2> QED
    BY <1>1, <2>1, <2>2 DEF DiscoverInv
<1>6. BoxInv'
  BY <1>1, <1>2 DEF BoxInv, Offering, OfferedBy
<1> QED
  BY <1>1, <1>3, <1>4, <1>5, <1>6, CachesKept

LEMMA DiscoveredCall ==
    ASSUME PoolInv, NEW c \in Callers, Discovered(c) PROVE PoolInv'
<1> USE DEF PoolInv
<1>1. /\ pc[c] = "await"
      /\ UNCHANGED <<fromRegistry, poolClosed, subMutex, cache, connection, subscribed, calls, recv>>
      /\ discovering' = [s \in DOMAIN discovering \ {want[c]} |-> discovering[s]]
  BY DEF Discovered, registryVars
<1>2. \/ /\ pc' = [pc EXCEPT ![c] = "idle"] /\ want' = [want EXCEPT ![c] = NoService]
         /\ connMutex' = "none" /\ box' = [box EXCEPT ![c] = {}]
      \/ /\ pc' = [pc EXCEPT ![c] = "subscribe"] /\ UNCHANGED <<want, connMutex, box>>
  BY DEF Discovered, Returns, Continue, Goto
<1>3. want[c] \in Services /\ connMutex = c
  BY <1>1 DEF MutexInv, HoldsMutex
<1>4. /\ \A d \in Callers \ {c} : pc'[d] = pc[d] /\ want'[d] = want[d] /\ box'[d] = box[d]
      /\ \/ pc'[c] = "idle" /\ connMutex' = "none" /\ box'[c] = {}
         \/ pc'[c] = "subscribe" /\ connMutex' = c /\ box'[c] = box[c] /\ want'[c] = want[c]
      /\ pc' \in [Callers -> Labels] /\ want' \in [Callers -> Services \cup {NoService}]
      /\ box' \in [Callers -> SUBSET SUBSET Providers]
  BY ZenonT(40), <1>2, <1>3 DEF PoolTypes, Labels
<1>5. PoolTypes'
  BY <1>1, <1>3, <1>4 DEF PoolTypes, Labels, Connections, NoConnection
<1>6. MutexInv'
  BY ZenonT(40), <1>1, <1>3, <1>4 DEF MutexInv, HoldsMutex, PoolTypes
<1>7. DiscoverInv'
  <2>1. \A d \in Callers : pc[d] \in {"send", "await"} => d = c
    BY <1>3 DEF MutexInv, HoldsMutex
  <2>2. \A d \in Callers : pc'[d] \notin {"send", "await"}
    BY <1>4, <2>1
  <2>3. recv # "end" => DOMAIN discovering' = {}
    BY <1>1, <2>1 DEF DiscoverInv
  <2>4. recv = "end" => poolClosed
    BY <1>1 DEF DiscoverInv
  <2> QED
    BY <1>1, <2>2, <2>3, <2>4 DEF DiscoverInv
<1>8. BoxInv'
  BY <1>1, <1>4 DEF BoxInv, Offering, OfferedBy
<1> QED
  BY <1>1, <1>5, <1>6, <1>7, <1>8, CachesKept

LEMMA SubscribeCall ==
    ASSUME PoolInv, NEW c \in Callers, Subscribe(c) PROVE PoolInv'
<1> USE DEF PoolInv
<1>1. /\ pc[c] = "subscribe" /\ pc' = [pc EXCEPT ![c] = "choose"]
      /\ cache' = [cache EXCEPT ![want[c]] = UNION box[c]] /\ box' = [box EXCEPT ![c] = {}]
      /\ UNCHANGED <<fromRegistry, poolClosed, connMutex, subMutex, connection, discovering,
                     calls, want, recv>>
      /\ subscribed' = subscribed \/ subscribed' = subscribed \cup {want[c]}
  BY DEF Subscribe, Goto, othersOfRegistry
<1>2. want[c] \in Services
  BY <1>1 DEF MutexInv
<1>3. /\ pc'[c] = "choose" /\ (\A d \in Callers \ {c} : pc'[d] = pc[d] /\ box'[d] = box[d])
      /\ box'[c] = {} /\ pc' \in [Callers -> Labels]
      /\ box' \in [Callers -> SUBSET SUBSET Providers]
  BY <1>1 DEF PoolTypes, Labels
<1>4. UNION box[c] \subseteq Offering(want[c]) /\ Offering(want[c]) \subseteq Providers
  BY <1>1 DEF BoxInv, Offering
<1>5. cache' \in [Services -> SUBSET Providers]
  BY <1>1, <1>4 DEF PoolTypes
<1>6. PoolTypes'
  BY <1>1, <1>2, <1>3, <1>5 DEF PoolTypes, Labels, Connections, NoConnection
<1>7. MutexInv'
  BY <1>1, <1>3 DEF MutexInv, HoldsMutex
<1>8. DiscoverInv'
  <2>1. \A d \in Callers : pc'[d] \in {"send", "await"} <=> pc[d] \in {"send", "await"}
    BY <1>1, <1>3
  <2>2. \A d \in Callers : pc'[d] = "dead" <=> pc[d] = "dead"
    BY <1>1, <1>3
  <2> QED
    BY <1>1, <2>1, <2>2 DEF DiscoverInv
<1>9. BoxInv'
  BY <1>1, <1>3 DEF BoxInv, Offering, OfferedBy
<1>10. CacheSound'
  <2> SUFFICES ASSUME NEW s \in Services
               PROVE  /\ \A q \in cache'[s] : s \in OfferedBy(q)
                      /\ connection'[s] # NoConnection => s \in OfferedBy(connection'[s].to)
    BY DEF CacheSound, OfferedBy, NoConnection
  <2>1. cache'[s] = cache[s] \/ (s = want[c] /\ cache'[s] \subseteq Offering(s))
    BY <1>1, <1>2, <1>4 DEF PoolTypes
  <2> QED
    BY <1>1, <2>1 DEF CacheSound, Offering
<1> QED
  BY <1>6, <1>7, <1>8, <1>9, <1>10
\* The process of the pool ends.
LEMMA ErasedCall ==
    ASSUME PoolInv, NEW c \in Callers, UseAfterErase(c) PROVE PoolInv'
<1> USE DEF PoolInv
<1>1. /\ pc' = [i \in Callers |-> "dead"] /\ want' = [i \in Callers |-> NoService]
      /\ connMutex' = "none" /\ subMutex' = "none" /\ recv' = "end"
      /\ UNCHANGED <<fromRegistry, poolClosed, cache, connection, discovering, subscribed, calls, box>>
  BY DEF UseAfterErase
<1>2. PoolTypes'
  BY <1>1 DEF PoolTypes, Connections, NoConnection
<1>3. MutexInv'
  BY <1>1 DEF MutexInv, HoldsMutex
<1>4. DiscoverInv'
  BY <1>1 DEF DiscoverInv
<1>5. BoxInv'
  BY <1>1 DEF BoxInv
<1> QED
  BY <1>1, <1>2, <1>3, <1>4, <1>5, CachesKept

-----------------------------------------------------------------------------
(* What handle_recv() and close() do *)

\* The first message that the pool has to read.
LEMMA HeadReport ==
    ASSUME RegistryInv, fromRegistry[Pool] # <<>>
    PROVE  /\ Head(fromRegistry[Pool]) \in Reports
           /\ Head(fromRegistry[Pool]).service \in Services
           /\ Head(fromRegistry[Pool]).data \subseteq Offering(Head(fromRegistry[Pool]).service)
<1>1. fromRegistry[Pool] \in Seq(Reports)
  BY DEF RegistryInv, PoolLinkInv
<1>2. Head(fromRegistry[Pool]) \in Reports
  BY <1>1, SequenceKept
<1> QED
  BY <1>2 DEF Reports

LEMMA AnswerPassed ==
    ASSUME ServicesInv, HandleServiceDiscover PROVE PoolInv'
<1> USE DEF PoolInv, ServicesInv
<1>1. PICK m : m = Head(fromRegistry[Pool])
  OBVIOUS
<1>2. /\ recv = "recv" /\ fromRegistry[Pool] # <<>>
      /\ UNCHANGED <<poolClosed, connMutex, subMutex, cache, connection, discovering, subscribed,
                     pc, calls, want, recv>>
      /\ box' = IF m.service \in DOMAIN discovering
                THEN [box EXCEPT ![discovering[m.service]] = {m.data}] ELSE box
  BY <1>1 DEF HandleServiceDiscover, FromRegistry
<1>3. m.data \subseteq Offering(m.service) /\ Offering(m.service) \subseteq Providers
  BY <1>1, <1>2, HeadReport DEF Offering
<1>4. ASSUME m.service \in DOMAIN discovering
      PROVE  /\ discovering[m.service] \in Callers
             /\ pc[discovering[m.service]] \in {"send", "await"}
             /\ want[discovering[m.service]] = m.service
  BY <1>2, <1>4 DEF DiscoverInv
<1>5. box' \in [Callers -> SUBSET SUBSET Providers]
  BY <1>2, <1>3, <1>4 DEF PoolTypes
<1>6. PoolTypes'
  BY <1>2, <1>5 DEF PoolTypes, Connections, NoConnection
<1>7. MutexInv' /\ DiscoverInv'
  BY <1>2 DEF MutexInv, HoldsMutex, DiscoverInv
<1>8. BoxInv'
  <2> SUFFICES ASSUME NEW c \in Callers
               PROVE  /\ box'[c] # {} => pc[c] \in {"send", "await", "subscribe", "dead"}
                      /\ pc[c] # "dead" => \A d \in box'[c] : d \subseteq Offering(want[c])
    BY <1>2 DEF BoxInv, Offering, OfferedBy
  <2>1. CASE m.service \in DOMAIN discovering /\ c = discovering[m.service]
    <3>1. box'[c] = {m.data}
      BY <1>2, <2>1 DEF PoolTypes
    <3> QED
      BY <1>3, <1>4, <2>1, <3>1
  <2>2. CASE ~(m.service \in DOMAIN discovering /\ c = discovering[m.service])
    <3>1. box'[c] = box[c]
      BY <1>2, <1>4, <2>2 DEF PoolTypes
    <3> QED
      BY <3>1 DEF BoxInv
  <2> QED
    BY <2>1, <2>2
<1> QED
  BY <1>2, <1>6, <1>7, <1>8, CachesKept

LEMMA PublicationRead ==
    ASSUME ServicesInv, HandlePublish PROVE PoolInv'
<1> USE DEF PoolInv, ServicesInv
<1>1. /\ recv = "recv" /\ fromRegistry[Pool] # <<>>
      /\ UNCHANGED <<poolClosed, connMutex, cache, connection, discovering, subscribed,
                     pc, calls, want, box>>
      /\ \/ subMutex' = "recv" /\ recv' = "handler" /\ UNCHANGED fromRegistry
         \/ UNCHANGED <<subMutex, recv>>
  BY DEF HandlePublish, FromRegistry, callerVars
<1>2. PoolTypes'
  BY <1>1 DEF PoolTypes, Connections, NoConnection
<1>3. MutexInv'
  BY <1>1 DEF MutexInv, HoldsMutex
<1>4. DiscoverInv'
  BY <1>1 DEF DiscoverInv
<1>5. BoxInv'
  BY <1>1 DEF BoxInv, Offering, OfferedBy
<1> QED
  BY <1>1, <1>2, <1>3, <1>4, <1>5, CachesKept

LEMMA PublicationJoined ==
    ASSUME ServicesInv, JoinHandler PROVE PoolInv'
<1> USE DEF PoolInv, ServicesInv
<1>1. PICK m : m = Head(fromRegistry[Pool])
  OBVIOUS
<1>2. /\ recv = "handler" /\ recv' = "recv" /\ subMutex' = "none"
      /\ UNCHANGED <<poolClosed, connMutex, connection, discovering, subscribed,
                     pc, calls, want, box>>
      /\ cache' = [cache EXCEPT ![m.service] = @ \cup m.data]
  BY <1>1 DEF JoinHandler, callerVars
<1>3. m.service \in Services /\ m.data \subseteq Offering(m.service)
  BY <1>1, <1>2, HeadReport DEF PoolTypes
<1>4. cache' \in [Services -> SUBSET Providers]
  BY <1>2, <1>3 DEF PoolTypes, Offering
<1>5. PoolTypes'
  BY <1>2, <1>4 DEF PoolTypes, Connections, NoConnection
<1>6. MutexInv'
  BY <1>2 DEF MutexInv, HoldsMutex
<1>7. DiscoverInv'
  BY <1>2 DEF DiscoverInv
<1>8. BoxInv'
  BY <1>2 DEF BoxInv, Offering, OfferedBy
<1>9. CacheSound'
  <2> SUFFICES ASSUME NEW s \in Services
               PROVE  /\ \A q \in cache'[s] : s \in OfferedBy(q)
                      /\ connection'[s] # NoConnection => s \in OfferedBy(connection'[s].to)
    BY DEF CacheSound, OfferedBy, NoConnection
  <2>1. cache'[s] = cache[s] \/ (s = m.service /\ cache'[s] = cache[s] \cup m.data)
    BY <1>2, <1>3 DEF PoolTypes
  <2> QED
    BY <1>2, <1>3, <2>1 DEF CacheSound, Offering
<1> QED
  BY <1>5, <1>6, <1>7, <1>8, <1>9

LEMMA PoolCloses ==
    ASSUME PoolInv, recv = "recv", ClosePool PROVE PoolInv'
<1> USE DEF PoolInv
<1>1. /\ poolClosed' = TRUE /\ discovering' = <<>> /\ recv' = "end"
      /\ UNCHANGED <<fromRegistry, connMutex, subMutex, cache, connection, subscribed,
                     pc, calls, want, box>>
  BY DEF ClosePool, callerVars
<1>2. DOMAIN discovering' = {}
  BY <1>1
<1>3. PoolTypes'
  BY <1>1, <1>2 DEF PoolTypes, Connections, NoConnection
<1>4. MutexInv'
  BY <1>1 DEF MutexInv, HoldsMutex
<1>5. DiscoverInv'
  BY <1>1 DEF DiscoverInv
<1>6. BoxInv'
  BY <1>1 DEF BoxInv, Offering, OfferedBy
<1> QED
  BY <1>1, <1>3, <1>4, <1>5, <1>6, CachesKept
-----------------------------------------------------------------------------
(* The two together *)

\* A step of a caller, on the connection of the pool too.
LEMMA CallerStep ==
    ASSUME ServicesInv, NEW c \in Callers,
           Caller(c) \/ UseAfterErase(c) \/ \E s \in Services : Start(c, s)
    PROVE  ServicesInv'
<1> USE DEF ServicesInv
<1>1. PoolInv'
  BY StartCall, FindCall, CallOnCall, RelockCall, ConnectCall, DiscoverCall, SendCall,
     DiscoveredCall, SubscribeCall, ErasedCall DEF Caller
<1>2. failures \in 0..MaxFailures
  BY DEF RegistryInv, RegistryTypeOK
<1>3. CASE UNCHANGED registryVars
  BY <1>1, <1>2, <1>3, PoolSteps DEF registryVars
<1>4. CASE UseAfterErase(c)
  BY <1>1, <1>2, <1>4, PoolSteps DEF UseAfterErase
<1>5. CASE DiscoverSend(c) \/ Subscribe(c)
  <2>1. UNCHANGED othersOfRegistry /\ want[c] \in Services
    BY <1>5 DEF DiscoverSend, Subscribe, PoolInv, MutexInv
  <2>2. \/ toRegistry' = toRegistry
        \/ \E m \in Questions : toRegistry' = [toRegistry EXCEPT ![Pool] = Append(@, m)]
    <3>1. PICK m \in Questions : toRegistry' = toRegistry \/ PoolSends(m)
      BY <1>5, <2>1, MessagesTyped DEF DiscoverSend, Subscribe
    <3> QED
      BY <3>1 DEF PoolSends, Sent
  <2> QED
    BY <1>1, <1>2, <2>1, <2>2, PoolSteps DEF othersOfRegistry
<1>6. Caller(c) => UNCHANGED registryVars \/ DiscoverSend(c) \/ Subscribe(c)
  BY DEF Caller, Find, CallOn, Relock, RegistryClosed, Discover, Discovered, ConnectTo, LastCall
<1>7. \A s \in Services : Start(c, s) => UNCHANGED registryVars
  BY DEF Start
<1> QED
  BY <1>1, <1>3, <1>4, <1>5, <1>6, <1>7

\* A step of handle_recv() or close().
LEMMA ReceiverStep ==
    ASSUME ServicesInv, Receiver \/ UserCloses PROVE ServicesInv'
<1> USE DEF ServicesInv
<1>1. /\ failures \in 0..MaxFailures
      /\ recv = "handler" => fromRegistry[Pool] # <<>>
  BY DEF RegistryInv, RegistryTypeOK, PoolInv, PoolTypes
<1>2. PoolInv'
  BY AnswerPassed, PublicationRead, PublicationJoined, PoolCloses DEF Receiver, RecvNull, UserCloses
<1>3. CASE HandleServiceDiscover \/ HandlePublish \/ JoinHandler
  <2>1. /\ UNCHANGED registryBut
        /\ \/ fromRegistry' = fromRegistry
           \/ /\ fromRegistry[Pool] # <<>>
              /\ fromRegistry' = [fromRegistry EXCEPT ![Pool] = Tail(@)]
    BY <1>1, <1>3 DEF HandleServiceDiscover, HandlePublish, JoinHandler, FromRegistry, Consume
  <2> QED
    BY <1>1, <1>2, <2>1, PoolSteps DEF registryBut
<1>4. CASE RecvNull
  BY <1>1, <1>2, <1>4, PoolSteps DEF RecvNull, ClosePool
<1>5. CASE UserCloses
  <2>1. failures' \in 0..MaxFailures
    BY <1>1, <1>5 DEF UserCloses, Fails
  <2> QED
    BY <1>2, <1>5, <2>1, PoolSteps DEF UserCloses, ClosePool
<1> QED
  BY <1>3, <1>4, <1>5 DEF Receiver

LEMMA NextStep ==
    ASSUME ServicesInv, [Next]_vars PROVE ServicesInv'
<1> USE DEF ServicesInv
<1>1. ASSUME NEW k \in Links, Serve(k) \/ AliveTimeout(k), UNCHANGED poolVars PROVE ServicesInv'
  <2>1. fromRegistry[Pool] # <<>> => fromRegistry'[Pool] # <<>>
    BY <1>1, ReportsKept
  <2> QED
    BY <1>1, <2>1, RegistrySteps, PoolWaits
<1>2. ASSUME NEW p \in Providers, Provide(p) \/ ServerDies(p), UNCHANGED poolVars PROVE ServicesInv'
  <2>1. fromRegistry[Pool] # <<>> => fromRegistry'[Pool] # <<>>
    BY <1>2, ReportsKept
  <2> QED
    BY <1>2, <2>1, RegistrySteps, PoolWaits
<1>3. CASE UNCHANGED vars
  <2>1. failures \in 0..MaxFailures
    BY DEF RegistryInv, RegistryTypeOK
  <2>2. RegistryInv'
    BY <1>3, <2>1, PoolSteps DEF vars, registryVars
  <2> QED
    BY <1>3, <2>2, PoolWaits DEF vars, registryVars
<1> QED
  BY <1>1, <1>2, <1>3, CallerStep, ReceiverStep DEF Next

-----------------------------------------------------------------------------
(* The first state *)

\* What is listed is offered by a server that has started.
LEMMA FirstRegistry ==
    ASSUME Init PROVE RegistryInv
<1> USE DEF Init, RegistryInit
<1>1. Pool \in Links /\ \A p \in Providers : p \in Links /\ p # Pool
  BY DEF Links
<1>2. \A S : <<>> \in Seq(S)
  OBVIOUS
<1>3. \A m : <<m>> # <<>>
  OBVIOUS
<1>4. RegistryTypeOK
  <2>1. toRegistry \in [Links -> Seq(Messages)] /\ fromRegistry \in [Links -> Seq(Messages)]
    BY <1>2
  <2>2. DOMAIN subscribers = {}
    OBVIOUS
  <2>3. \A p \in Providers : Len(Offers[p]) \in Nat
    BY OfferedServices
  <2>4. registering \in [Providers -> Nat] /\ \A p \in Providers : registering[p] \in 1..(Len(Offers[p]) + 1)
    BY <2>3
  <2>5. services \subseteq Services \X Providers
    OBVIOUS
  <2> HIDE DEF Messages
  <2> QED
    BY <2>1, <2>2, <2>4, <2>5 DEF RegistryTypeOK
<1>5. TableInv
  BY <1>1 DEF TableInv, OfferedBy
<1>6. PoolLinkInv
  BY <1>1, <1>2 DEF PoolLinkInv
<1>7. ASSUME NEW p \in Providers PROVE ProviderInv(p)
  <2>1. \A s \in OfferedBy(p) : ~Asked(p, s)
    BY <1>1, AsksNot, OfferedServices DEF Asked
  <2>2. RequestInv(p)
    BY <1>1, <2>1 DEF RequestInv
  <2>3. LinkInv(p)
    BY <1>1, <1>3 DEF LinkInv
  <2>4. ProgressInv(p)
    <3>1. ASSUME link[p] = "open" PROVE p \in Started /\ registering[p] = Len(Offers[p]) + 1
      BY <1>1, <3>1
    <3>2. ASSUME p \in Started, NEW i \in DOMAIN Offers[p] PROVE <<Offers[p][i], p>> \in services
      BY <3>2, OfferedServices
    <3> QED
      BY <1>1, <2>1, <3>1, <3>2, OfferedServices DEF ProgressInv
  <2> QED
    BY <2>2, <2>3, <2>4 DEF ProviderInv
<1> QED
  BY <1>4, <1>5, <1>6, <1>7 DEF RegistryInv

LEMMA FirstPool ==
    ASSUME Init PROVE PoolInv
<1> USE DEF Init
<1>1. DOMAIN discovering = {}
  OBVIOUS
<1>2. PoolTypes
  <2>1. cache \in [Services -> SUBSET Providers] /\ box \in [Callers -> SUBSET SUBSET Providers]
    OBVIOUS
  <2>2. connection \in [Services -> Connections \cup {NoConnection}]
    BY DEF NoConnection
  <2>3. calls \in [Callers -> Nat] /\ \A c \in Callers : calls[c] <= MaxCalls[c]
    OBVIOUS
  <2>4. /\ pc \in [Callers -> Labels] /\ want \in [Callers -> Services \cup {NoService}]
        /\ DOMAIN discovering \subseteq Services /\ subscribed \subseteq Services
    BY <1>1 DEF Labels
  <2> QED
    BY <2>1, <2>2, <2>3, <2>4 DEF PoolTypes, Labels
<1>3. MutexInv
  BY DEF MutexInv, HoldsMutex
<1>4. DiscoverInv /\ BoxInv /\ CacheSound
  BY <1>1 DEF DiscoverInv, BoxInv, CacheSound
<1> QED
  BY <1>2, <1>3, <1>4 DEF PoolInv

-----------------------------------------------------------------------------
(* The theorems *)

\* The inductive invariant of the registry, its providers and the pool.
THEOREM ServicesInvariant == Spec => []ServicesInv
<1>1. Init => ServicesInv
  BY FirstRegistry, FirstPool DEF ServicesInv
<1>2. ServicesInv /\ [Next]_vars => ServicesInv'
  BY NextStep
<1> QED
  BY <1>1, <1>2, PTL DEF Spec

\* The queue of a provider has one registration at most.
LEMMA RequestCounted ==
    ASSUME RegistryInv, NEW p \in Providers
    PROVE  /\ Cardinality(Requests(p)) \in {0, 1}
           /\ Cardinality(Requests(p)) = 1 => serving[p] # "publish" /\ fromRegistry[p] = <<>>
<1>1. Cardinality({}) = 0 /\ \A i : Cardinality({i}) = 1
  BY FS_EmptySet, FS_Singleton
<1>2. RequestInv(p)
  BY DEF RegistryInv, ProviderInv
<1>3. Greeting(p).type = "provider" /\ \A s : Registration(p, s).type = "register"
  BY DEF Greeting, Registration, Message
<1> HIDE DEF Greeting, Registration
<1>4. CASE toRegistry[p] = <<>>
  <2>1. Requests(p) = {}
    BY <1>4 DEF Requests
  <2> QED
    BY <1>1, <2>1
<1>5. CASE toRegistry[p] = <<Greeting(p)>>
  <2>1. Requests(p) = {}
    BY <1>3, <1>5 DEF Requests
  <2> QED
    BY <1>1, <2>1
<1>6. ASSUME NEW s \in OfferedBy(p), Asked(p, s)
      PROVE  Cardinality(Requests(p)) = 1 /\ serving[p] # "publish" /\ fromRegistry[p] = <<>>
  <2>1. CASE toRegistry[p] = <<Registration(p, s)>>
    <3>1. Requests(p) = {1}
      BY <1>3, <2>1 DEF Requests
    <3> QED
      BY <1>1, <1>2, <1>6, <3>1 DEF RequestInv
  <2>2. CASE toRegistry[p] = <<Greeting(p), Registration(p, s)>>
    <3>1. Requests(p) = {2}
      BY <1>3, <2>2 DEF Requests
    <3> QED
      BY <1>1, <1>2, <1>6, <3>1 DEF RequestInv
  <2> QED
    BY <1>6, <2>1, <2>2 DEF Asked, Asks
<1> QED
  BY <1>2, <1>4, <1>5, <1>6 DEF RequestInv

LEMMA OneRequestHolds ==
    ASSUME RegistryInv PROVE OneRequest
<1> SUFFICES ASSUME NEW p \in Providers
             PROVE  Cardinality(Requests(p)) + Len(fromRegistry[p])
                      + (IF serving[p] = "publish" THEN 1 ELSE 0) <= 1
  BY DEF OneRequest
<1>1. /\ serving[p] = "publish" => fromRegistry[p] = <<>>
      /\ Len(fromRegistry[p]) <= 1 /\ Len(<<>>) = 0
  BY DEF RegistryInv, ProviderInv, RequestInv
<1>2. p \in Links /\ fromRegistry[p] \in Seq(Messages)
  BY DEF Links, RegistryInv, RegistryTypeOK
<1>3. Len(fromRegistry[p]) \in Nat
  BY <1>2
<1>4. PICK n : n = Cardinality(Requests(p))
  OBVIOUS
<1>5. n \in {0, 1} /\ (n = 1 => serving[p] # "publish" /\ fromRegistry[p] = <<>>)
  BY <1>4, RequestCounted
<1> QED
  BY <1>1, <1>3, <1>4, <1>5

\* The registry's table and the pool's cache name servers that have the service,
\* and a provider has one request at a time: for any providers, callers and
\* bounds (handle_register_service(), register_service(), call()).
THEOREM ServicesCorrect == Spec => []ServicesSound
<1>1. ASSUME ServicesInv PROVE ServicesSound
  <2> USE <1>1 DEF ServicesInv
  <2>1. TypeOK
    <3>1. RegistryTypeOK
      BY DEF RegistryInv
    <3> QED
      BY <3>1 DEF PoolInv, PoolTypes, TypeOK
  <2>2. OneRequest
    BY OneRequestHolds
  <2>3. RegistryConsistent
    <3>1. ASSUME NEW p \in Providers, server[p] = "serving", link[p] = "open", NEW i \in DOMAIN Offers[p]
          PROVE  <<Offers[p][i], p>> \in services
      <4>1. registering[p] > Len(Offers[p]) /\ registering[p] \in Nat
        BY <3>1 DEF RegistryInv, RegistryTypeOK, ProviderInv, ProgressInv
      <4>2. i \in 1..Len(Offers[p]) /\ Len(Offers[p]) \in Nat
        BY OfferedServices
      <4>3. i < registering[p]
        BY <4>1, <4>2
      <4>4. ProgressInv(p)
        BY DEF RegistryInv, ProviderInv
      <4> QED
        BY <3>1, <4>3, <4>4 DEF ProgressInv
    <3> QED
      BY <3>1 DEF RegistryConsistent, RegistryInv, TableInv
  <2> QED
    BY <2>1, <2>2, <2>3 DEF ServicesSound, PoolInv
<1> QED
  BY <1>1, ServicesInvariant, PTL

\* One discovery at a time: the caller that waits holds m_connections_mutex, and
\* the answer goes to its channel until the pool is closed (discover(),
\* handle_service_discover(), close()).
THEOREM DiscoveryIsAlone == Spec => []DiscoveryAlone
<1>1. ASSUME ServicesInv PROVE DiscoveryAlone
  BY <1>1 DEF ServicesInv, PoolInv, MutexInv, HoldsMutex, DiscoverInv, DiscoveryAlone
<1> QED
  BY <1>1, ServicesInvariant, PTL
=============================================================================
