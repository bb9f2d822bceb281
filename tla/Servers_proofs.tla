---------------------------- MODULE Servers_proofs ----------------------------
(***************************************************************************)
(* Proofs about Servers for any clients, addresses, requests, messages and *)
(* bounds: what is accepted, answered and left behind by a server that is  *)
(* stopped and destroyed.                                                  *)
(*                                                                         *)
(* The invariant has a part for each module: TcpInv for what both servers  *)
(* inherit, HttpInv for the sessions of an HTTP server, RpcInv for the     *)
(* tasks and timers of an RPC server.  The server that a behaviour does    *)
(* not have stays in its initial state.                                    *)
(***************************************************************************)
EXTENDS Servers, SequenceTheorems, FiniteSetTheorems, TLAPS

-----------------------------------------------------------------------------
(***************************************************************************)
(* Sequences, of whatever their elements are.                              *)
(***************************************************************************)
IsSeq(s) == s \in Seq({ s[i] : i \in DOMAIN s })

LEMMA SeqIsSeq ==
    ASSUME NEW S, NEW s \in Seq(S)
    PROVE  IsSeq(s)
<1>1. s \in [1..Len(s) -> S] /\ Len(s) \in Nat
  BY LenProperties
<1>2. s \in [1..Len(s) -> { s[i] : i \in DOMAIN s }]
  BY <1>1
<1>3. QED
  BY <1>1, <1>2, SeqDef DEF IsSeq

LEMMA EmptyIsSeq == IsSeq(<<>>) /\ Len(<<>>) = 0 /\ DOMAIN <<>> = {}
<1>1. <<>> \in Seq({})
  BY EmptySeq
<1>2. IsSeq(<<>>)
  BY <1>1, SeqIsSeq
<1>3. QED
  BY <1>2

LEMMA SeqLen ==
    ASSUME NEW s, IsSeq(s)
    PROVE  Len(s) \in Nat /\ DOMAIN s = 1..Len(s)
BY LenProperties DEF IsSeq

\* What Append() does.
LEMMA Appended ==
    ASSUME NEW s, IsSeq(s), NEW e
    PROVE  /\ IsSeq(Append(s, e))
           /\ Len(Append(s, e)) = Len(s) + 1
           /\ \A i \in 1..Len(s) : Append(s, e)[i] = s[i]
           /\ Append(s, e)[Len(s) + 1] = e
<1> DEFINE S == { s[i] : i \in DOMAIN s } \cup {e}
<1>1. s \in Seq(S) /\ e \in S
  BY SeqMonotonic DEF IsSeq
<1> HIDE DEF S
<1>2. /\ Append(s, e) \in Seq(S)
      /\ Len(Append(s, e)) = Len(s) + 1
      /\ \A i \in 1..Len(s) : Append(s, e)[i] = s[i]
      /\ Append(s, e)[Len(s) + 1] = e
  BY <1>1, AppendProperties
<1>3. IsSeq(Append(s, e))
  BY <1>2, SeqIsSeq
<1>4. QED
  BY <1>2, <1>3

\* What Tail() does.
LEMMA Tailed ==
    ASSUME NEW s, IsSeq(s), s # <<>>
    PROVE  /\ IsSeq(Tail(s))
           /\ Len(Tail(s)) = Len(s) - 1 /\ Len(s) \in Nat \ {0}
           /\ \A i \in 1..Len(s) - 1 : Tail(s)[i] = s[i + 1]
           /\ Head(s) = s[1]
<1> DEFINE S == { s[i] : i \in DOMAIN s }
<1>1. s \in Seq(S)
  BY DEF IsSeq
<1> HIDE DEF S
<1>2. /\ Tail(s) \in Seq(S)
      /\ Len(Tail(s)) = Len(s) - 1
      /\ \A i \in 1 .. Len(Tail(s)) : Tail(s)[i] = s[i + 1]
  BY <1>1, HeadTailProperties
<1>3. Len(s) \in Nat \ {0}
  BY <1>1, EmptySeq
<1>4. Head(s) = s[1]
  BY <1>1
<1>5. IsSeq(Tail(s))
  BY <1>2, SeqIsSeq
<1>6. QED
  BY <1>2, <1>3, <1>4, <1>5

\* What is left when the first n elements are taken, and those.
LEMMA Split ==
    ASSUME NEW s, IsSeq(s), NEW n \in 1..Len(s)
    PROVE  /\ IsSeq(SubSeq(s, 1, n)) /\ IsSeq(SubSeq(s, n + 1, Len(s)))
           /\ Len(SubSeq(s, 1, n)) = n
           /\ Len(SubSeq(s, n + 1, Len(s))) = Len(s) - n
           /\ \A i \in 1..n : SubSeq(s, 1, n)[i] = s[i]
           /\ \A i \in 1..Len(s) - n : SubSeq(s, n + 1, Len(s))[i] = s[n + i]
<1> DEFINE S == { s[i] : i \in DOMAIN s }
<1>1. s \in Seq(S)
  BY DEF IsSeq
<1> HIDE DEF S
<1>2. SubSeq(s, 1, n) \in Seq(S) /\ SubSeq(s, n + 1, Len(s)) \in Seq(S)
  BY <1>1
<1>3. Len(SubSeq(s, 1, n)) = n
  BY <1>1
<1>4. Len(SubSeq(s, n + 1, Len(s))) = Len(s) - n
  BY <1>1
<1>5. \A i \in 1..n : SubSeq(s, 1, n)[i] = s[i]
  BY <1>1
<1>6. \A i \in 1..Len(s) - n : SubSeq(s, n + 1, Len(s))[i] = s[n + i]
  BY <1>1
<1>7. IsSeq(SubSeq(s, 1, n)) /\ IsSeq(SubSeq(s, n + 1, Len(s)))
  BY <1>2, SeqIsSeq
<1>8. QED
  BY <1>3, <1>4, <1>5, <1>6, <1>7, Zenon

\* What a concatenation is.
IsJoin(u, s, t) ==
    /\ IsSeq(u) /\ Len(u) = Len(s) + Len(t)
    /\ \A i \in 1..Len(s) : u[i] = s[i]
    /\ \A i \in 1..Len(t) : u[Len(s) + i] = t[i]

LEMMA Joined ==
    ASSUME NEW s, IsSeq(s), NEW t, IsSeq(t)
    PROVE  IsJoin(s \o t, s, t)
<1> DEFINE S == { s[i] : i \in DOMAIN s } \cup { t[i] : i \in DOMAIN t }
<1>1. s \in Seq(S) /\ t \in Seq(S)
  BY SeqMonotonic DEF IsSeq
<1>2. Len(s) \in Nat /\ Len(t) \in Nat
  BY SeqLen
<1> HIDE DEF S
<1>3. /\ s \o t \in Seq(S) /\ Len(s \o t) = Len(s) + Len(t)
      /\ \A i \in 1 .. Len(s) + Len(t) :
           (s \o t)[i] = IF i <= Len(s) THEN s[i] ELSE t[i - Len(s)]
  BY <1>1, ConcatProperties
<1>4. IsSeq(s \o t)
  BY <1>3, SeqIsSeq
<1>5. ASSUME NEW i \in 1..Len(t) PROVE (s \o t)[Len(s) + i] = t[i]
  BY <1>2, <1>3
<1>6. QED
  BY <1>2, <1>3, <1>4, <1>5 DEF IsJoin

-----------------------------------------------------------------------------
(***************************************************************************)
(* TcpServer.  A stopped server whose closing tasks have run has no        *)
(* listener; each accept fiber goes back to a start(); who waits in a      *)
(* backlog waits in one.                                                   *)
(***************************************************************************)
USE TcpAssumption, RpcAssumption DEF TcpAssumption, RpcAssumption

Sessions == {"out", "backlog", "scheduled", "recv", "handle", "send", "spins", "left", "closed", "gone"}

ListenInv ==
    /\ m_is_stop \in BOOLEAN /\ open = m_sockets /\ m_sockets \subseteq Addresses
    /\ stops \in Nat /\ starts \in 0..MaxStarts
    /\ starts = 0 => m_is_stop /\ stops = 0
    /\ m_is_stop /\ starts > 0 /\ stops = 0 => open = {}

AcceptInv ==
    /\ scheduled \in [Addresses -> Nat] /\ accepting \in [Addresses -> Nat]
    /\ \A a \in Addresses : scheduled[a] + accepting[a] <= starts

BacklogInv ==
    /\ session \in [Clients -> Sessions] /\ backlog \in [Addresses -> SUBSET Clients]
    /\ \A a \in Addresses : \A c \in backlog[a] : session[c] = "backlog"
    /\ \A a, b \in Addresses : \A c \in backlog[a] : c \in backlog[b] => a = b

TcpInv == ListenInv /\ AcceptInv /\ BacklogInv

\* How a client's connection may move while the server accepts.
Accepted(c) ==
    \/ session'[c] = session[c]
    \/ session[c] = "out" /\ session'[c] = "backlog"
    \/ session[c] = "backlog" /\ session'[c] \in {"scheduled", "gone"}

LEMMA InitTcpInv == TcpInit => TcpInv
BY DEF TcpInit, TcpInv, ListenInv, AcceptInv, BacklogInv, Sessions

\* The listeners and the closing tasks.
LEMMA KeepListenInv == TcpInv /\ TcpNext => ListenInv'
<1> SUFFICES ASSUME TcpInv, TcpNext PROVE ListenInv'
  OBVIOUS
<1> USE DEF TcpInv, ListenInv
<1>1. ASSUME NEW as \in SUBSET Addresses, NEW fails \in SUBSET as, Bind(as, fails)
      PROVE  ListenInv'
  <2>1. m_sockets = {} /\ open = {} /\ open \cup as = as /\ starts = 0
    BY <1>1 DEF Bind
  <2>2. open' = m_sockets' /\ m_sockets' \subseteq Addresses
    BY <1>1, <2>1 DEF Bind
  <2>3. UNCHANGED <<m_is_stop, stops, starts>>
    BY <1>1 DEF Bind
  <2>4. QED
    BY <2>1, <2>2, <2>3
<1>2. CASE Start
  <2>1. starts' \in 0..MaxStarts /\ starts' > 0
    BY <1>2 DEF Start
  <2>2. ~m_is_stop' /\ m_is_stop' \in BOOLEAN /\ UNCHANGED <<m_sockets, open, stops>>
    BY <1>2 DEF Start
  <2>3. QED
    BY <2>1, <2>2
<1>3. CASE Stop
  BY <1>3 DEF Stop
<1>4. CASE StopTask
  BY <1>4 DEF StopTask
<1>5. ASSUME NEW a \in Addresses,
             StartAccept(a) \/ AcceptFails(a) \/ \E c \in Clients : Accept(a, c) \/ Connect(a, c)
      PROVE  ListenInv'
  BY <1>5 DEF StartAccept, AcceptFails, Accept, Connect
<1>6. QED
  BY <1>1, <1>2, <1>3, <1>4, <1>5 DEF TcpNext, BindAny, AcceptStep

\* The accept fibers.
LEMMA KeepAcceptInv == TcpInv /\ TcpNext => AcceptInv'
<1> SUFFICES ASSUME TcpInv, TcpNext PROVE AcceptInv'
  OBVIOUS
<1> USE DEF TcpInv, AcceptInv
<1>0. starts \in Nat /\ \A b \in Addresses : scheduled[b] \in Nat /\ accepting[b] \in Nat
  BY DEF ListenInv
<1>1. ASSUME NEW as \in SUBSET Addresses, NEW fails \in SUBSET as, Bind(as, fails)
      PROVE  AcceptInv'
  BY <1>1 DEF Bind
<1>2. CASE Start
  <2>1. ASSUME NEW a \in Addresses
        PROVE  scheduled'[a] \in Nat /\ scheduled'[a] <= scheduled[a] + 1
    BY <1>0, <1>2 DEF Start
  <2>2. scheduled' \in [Addresses -> Nat]
    BY <1>2, <2>1 DEF Start
  <2>3. QED
    BY <1>0, <1>2, <2>1, <2>2 DEF Start
<1>3. CASE Stop
  BY <1>3 DEF Stop
<1>4. CASE StopTask
  BY <1>4 DEF StopTask
<1>5. ASSUME NEW a \in Addresses, StartAccept(a)
      PROVE  AcceptInv'
  BY <1>0, <1>5 DEF StartAccept, Enters
<1>6. ASSUME NEW a \in Addresses, AcceptFails(a)
      PROVE  AcceptInv'
  BY <1>0, <1>6 DEF AcceptFails
<1>7. ASSUME NEW a \in Addresses, NEW c \in Clients, Accept(a, c)
      PROVE  AcceptInv'
  BY <1>0, <1>7 DEF Accept, Enters
<1>8. ASSUME NEW a \in Addresses, NEW c \in Clients, Connect(a, c)
      PROVE  AcceptInv'
  BY <1>8 DEF Connect
<1>9. QED
  BY <1>1, <1>2, <1>3, <1>4, <1>5, <1>6, <1>7, <1>8 DEF TcpNext, BindAny, AcceptStep

\* The backlogs, and how a connection moves.
LEMMA KeepBacklogInv ==
    TcpInv /\ TcpNext => BacklogInv' /\ \A c \in Clients : Accepted(c)
<1> SUFFICES ASSUME TcpInv, TcpNext PROVE BacklogInv' /\ \A c \in Clients : Accepted(c)
  OBVIOUS
<1> USE DEF TcpInv, BacklogInv, Accepted
<1>1. ASSUME NEW as \in SUBSET Addresses, NEW fails \in SUBSET as, Bind(as, fails)
      PROVE  BacklogInv' /\ \A c \in Clients : Accepted(c)
  BY <1>1 DEF Bind
<1>2. CASE Start \/ Stop
  BY <1>2 DEF Start, Stop
<1>3. CASE StopTask
  <2>1. ASSUME NEW c \in Clients
        PROVE  session'[c] = IF \E a \in m_sockets : c \in backlog[a] THEN "gone" ELSE session[c]
    BY <1>3 DEF StopTask
  <2>2. \A c \in Clients : session'[c] \in Sessions /\ Accepted(c)
    BY <2>1 DEF ListenInv, Sessions
  <2>3. ASSUME NEW a \in Addresses, NEW c \in backlog'[a]
        PROVE  c \in Clients /\ c \in backlog[a] /\ session'[c] = "backlog"
    <3>1. a \notin m_sockets /\ c \in backlog[a] /\ c \in Clients
      BY <1>3, <2>3 DEF StopTask
    <3>2. ~ \E b \in m_sockets : c \in backlog[b]
      BY <3>1 DEF ListenInv
    <3>3. QED
      BY <2>1, <3>1, <3>2
  <2>4. session' \in [Clients -> Sessions] /\ backlog' \in [Addresses -> SUBSET Clients]
    BY <1>3, <2>2 DEF StopTask
  <2>5. QED
    BY <2>2, <2>3, <2>4
<1>4. ASSUME NEW a \in Addresses, StartAccept(a) \/ AcceptFails(a)
      PROVE  BacklogInv' /\ \A c \in Clients : Accepted(c)
  BY <1>4 DEF StartAccept, AcceptFails
<1>5. ASSUME NEW a \in Addresses, NEW c \in Clients, Accept(a, c)
      PROVE  BacklogInv' /\ \A d \in Clients : Accepted(d)
  BY <1>5 DEF Accept, Goes, Sessions
<1>6. ASSUME NEW a \in Addresses, NEW c \in Clients, Connect(a, c)
      PROVE  BacklogInv' /\ \A d \in Clients : Accepted(d)
  BY <1>6 DEF Connect, Goes, Sessions
<1>7. QED
  BY <1>1, <1>2, <1>3, <1>4, <1>5, <1>6 DEF TcpNext, BindAny, AcceptStep

\* A connection that was accepted goes on to another place.
LEMMA SessionMoves ==
    ASSUME TcpInv, NEW c \in Clients, NEW s \in Sessions, session[c] # "backlog",
           Goes(c, s), UNCHANGED tcpRest
    PROVE  /\ TcpInv'
           /\ session'[c] = s
           /\ \A d \in Clients : d # c => session'[d] = session[d]
<1>1. session' = [session EXCEPT ![c] = s] /\ session \in [Clients -> Sessions]
  BY DEF Goes, TcpInv, BacklogInv
<1>2. ListenInv' /\ AcceptInv'
  BY DEF TcpInv, ListenInv, AcceptInv, tcpRest
<1>3. BacklogInv'
  BY <1>1 DEF TcpInv, BacklogInv, tcpRest
<1>4. QED
  BY <1>1, <1>2, <1>3 DEF TcpInv

-----------------------------------------------------------------------------
(***************************************************************************)
(* HttpServer.  Taken(c) half tokens of what the client asked have been    *)
(* read, the wire holds the others.  A request is six of them.             *)
(***************************************************************************)
Taken(c) == 6 * Len(asked[c]) - Len(wire[c])

HttpDomains == /\ DOMAIN wire = Clients /\ DOMAIN asked = Clients /\ DOMAIN answers = Clients
               /\ DOMAIN parser = Clients /\ DOMAIN clean = Clients

WireOf(c) ==
    /\ IsSeq(wire[c]) /\ IsSeq(asked[c]) /\ IsSeq(answers[c])
    /\ Taken(c) >= 0
    /\ \A q \in 1..Len(asked[c]), x \in 1..6 :
         6 * (q - 1) + x > Taken(c) =>
           wire[c][6 * (q - 1) + x - Taken(c)] = Halves(asked[c][q])[x]

\* Each answer stands for a request that was read to its end, by whatever
\* reads.
CountOf(c) ==
    /\ 6 * Len(answers[c]) <= Taken(c)
    /\ session[c] \in {"out", "backlog", "scheduled", "gone"} =>
         Taken(c) = 0 /\ answers[c] = <<>>
    /\ session[c] = "recv" => ~parser[c].finished
    /\ session[c] \in {"handle", "send"} => 6 * (Len(answers[c]) + 1) <= Taken(c)

\* The request being answered is the next one, and the parser has of it what
\* was read, if the reads were tidy.
Matched(c) ==
    \A i \in 1..Len(answers[c]) : /\ answers[c][i].path = asked[c][i].path
                                  /\ answers[c][i].body = asked[c][i].path
Reading(c) ==
    \E r \in {0, 2, 4} : /\ Taken(c) = 6 * Len(answers[c]) + r
                         /\ r >= 2 => parser[c].path = asked[c][Len(answers[c]) + 1].path
HasRead(c) ==
    /\ Taken(c) = 6 * (Len(answers[c]) + 1)
    /\ parser[c].path = asked[c][Len(answers[c]) + 1].path
    /\ parser[c].body = asked[c][Len(answers[c]) + 1].path

CleanOf(c) ==
    clean[c] => /\ Matched(c)
                /\ session[c] = "recv" => Reading(c)
                /\ session[c] \in {"handle", "send"} => HasRead(c)

HttpOf(c) == WireOf(c) /\ CountOf(c) /\ CleanOf(c)

HttpInv == HttpDomains /\ \A c \in Clients : HttpOf(c)

LEMMA InitHttpInv == TcpInit /\ HttpInit => HttpInv
<1> SUFFICES ASSUME TcpInit, HttpInit PROVE HttpInv
  OBVIOUS
<1>1. HttpDomains
  BY DEF HttpInit, HttpDomains
<1>2. ASSUME NEW c \in Clients PROVE HttpOf(c)
  <2>1. /\ wire[c] = <<>> /\ asked[c] = <<>> /\ answers[c] = <<>> /\ session[c] = "out"
        /\ Taken(c) = 0
    BY DEF TcpInit, HttpInit, Taken
  <2>2. WireOf(c)
    BY <2>1, EmptyIsSeq DEF WireOf
  <2>3. CountOf(c) /\ CleanOf(c)
    BY <2>1 DEF CountOf, CleanOf, Matched
  <2>4. QED
    BY <2>2, <2>3 DEF HttpOf
<1>3. QED
  BY <1>1, <1>2 DEF HttpInv

\* What the six half tokens of a request are.
LEMMA HalvesAre ==
    ASSUME NEW r
    PROVE  /\ IsSeq(Halves(r)) /\ Len(Halves(r)) = 6
           /\ \A x \in 1..6 : /\ EndsAt(Halves(r)[x]) <=> x = 6
                              /\ Halves(r)[x].half = IF x \in {2, 4, 6} THEN 2 ELSE 1
                              /\ Halves(r)[x].token = "url" <=> x \in {1, 2}
                              /\ Halves(r)[x].token = "body" <=> x \in {5, 6}
           /\ Halves(r)[2].value = r.path /\ Halves(r)[6].value = r.path
<1> DEFINE H == { Halves(r)[x] : x \in 1..6 }
<1>1. Len(Halves(r)) = 6 /\ Halves(r) \in Seq({ Halves(r)[x] : x \in DOMAIN Halves(r) })
  BY DEF Halves
<1>2. \A x \in 1..6 : /\ EndsAt(Halves(r)[x]) <=> x = 6
                      /\ Halves(r)[x].half = IF x \in {2, 4, 6} THEN 2 ELSE 1
                      /\ Halves(r)[x].token = "url" <=> x \in {1, 2}
                      /\ Halves(r)[x].token = "body" <=> x \in {5, 6}
  BY DEF Halves, EndsAt
<1>3. Halves(r)[2].value = r.path /\ Halves(r)[6].value = r.path
  BY DEF Halves
<1>4. QED
  BY <1>1, <1>2, <1>3 DEF IsSeq

\* What Len() is of the three sequences, and what is on the wire at a place.
LEMMA Lengths ==
    ASSUME NEW c \in Clients, WireOf(c)
    PROVE  /\ Len(wire[c]) \in Nat /\ Len(asked[c]) \in Nat /\ Len(answers[c]) \in Nat
           /\ Taken(c) \in Nat /\ Len(wire[c]) = 6 * Len(asked[c]) - Taken(c)
<1>1. Len(wire[c]) \in Nat /\ Len(asked[c]) \in Nat /\ Len(answers[c]) \in Nat
  BY SeqLen DEF WireOf
<1>2. Taken(c) >= 0
  BY DEF WireOf
<1>3. QED
  BY <1>1, <1>2 DEF Taken

LEMMA Sixths ==
    ASSUME NEW k \in Nat
    PROVE  \E d \in Nat, m \in 0..5 : k = 6 * d + m
<1> DEFINE d == k \div 6
           m == k % 6
<1>1. d \in Nat /\ m \in 0..5 /\ k = 6 * d + m
  OBVIOUS
<1> HIDE DEF d, m
<1>2. QED
  BY <1>1

LEMMA OnWire ==
    ASSUME NEW c \in Clients, WireOf(c), NEW i \in 1..Len(wire[c])
    PROVE  \E q \in 1..Len(asked[c]), x \in 1..6 :
             Taken(c) + i = 6 * (q - 1) + x /\ wire[c][i] = Halves(asked[c][q])[x]
<1>1. /\ Len(wire[c]) \in Nat /\ Len(asked[c]) \in Nat
      /\ Taken(c) \in Nat /\ Len(wire[c]) = 6 * Len(asked[c]) - Taken(c)
  BY Lengths
<1>2. Taken(c) + i - 1 \in Nat
  BY <1>1
<1>3. PICK d \in Nat, m \in 0..5 : Taken(c) + i - 1 = 6 * d + m
  BY <1>2, Sixths
<1>4. PICK q \in Int, x \in Int : q = d + 1 /\ x = m + 1
  OBVIOUS
<1>5. /\ q \in 1..Len(asked[c]) /\ x \in 1..6 /\ Taken(c) + i = 6 * (q - 1) + x
      /\ 6 * (q - 1) + x > Taken(c) /\ 6 * (q - 1) + x - Taken(c) = i
  BY SMTT(30), <1>1, <1>3, <1>4
<1>6. wire[c][6 * (q - 1) + x - Taken(c)] = Halves(asked[c][q])[x]
  BY <1>5 DEF WireOf
<1>7. QED
  BY <1>5, <1>6

-----------------------------------------------------------------------------
(***************************************************************************)
(* What a read of an HTTP session gives.                                   *)
(***************************************************************************)
LEMMA TheLast ==
    ASSUME NEW token, NEW hs, NEW old, NEW k \in Int, k \in Of(token, hs),
           \A j \in Of(token, hs) : j \in Int /\ j <= k
    PROVE  Given(token, hs, old) = IF hs[k].half = 2 /\ k > 1 THEN hs[k].value ELSE Cut
<1> DEFINE last == CHOOSE i \in Of(token, hs) : \A j \in Of(token, hs) : j <= i
<1>1. last \in Of(token, hs) /\ \A j \in Of(token, hs) : j <= last
  OBVIOUS
<1>2. last = k
  <2> HIDE DEF last
  <2>1. last \in Int /\ last <= k /\ k <= last
    BY <1>1
  <2>2. QED
    BY <2>1
<1>3. Of(token, hs) # {}
  OBVIOUS
<1>4. Given(token, hs, old) = IF hs[last].half = 2 /\ last > 1 THEN hs[last].value ELSE Cut
  BY <1>3 DEF Given
<1>5. QED
  BY <1>2, <1>4, Zenon

\* The half tokens of a read, and how many were taken after it.
IsRead(c, n, hs) ==
    /\ n \in Nat \ {0} /\ Len(hs) = n /\ DOMAIN hs = 1..n /\ Head(hs) = hs[1]
    /\ \A i \in 1..n : \E q \in 1..Len(asked[c]), x \in 1..6 :
         Taken(c) + i = 6 * (q - 1) + x /\ hs[i] = Halves(asked[c][q])[x]

LEMMA ReadAre ==
    ASSUME NEW c \in Clients, WireOf(c), NEW n \in 1..Len(wire[c]),
           NEW hs, hs = SubSeq(wire[c], 1, n)
    PROVE  IsRead(c, n, hs)
<1>1. Len(wire[c]) \in Nat /\ IsSeq(wire[c])
  BY Lengths DEF WireOf
<1>2. IsSeq(hs) /\ Len(hs) = n /\ \A i \in 1..n : hs[i] = wire[c][i]
  BY <1>1, Split
<1>3. n \in Nat \ {0}
  BY <1>1
<1>4. hs # <<>>
  BY <1>2, <1>3, EmptyIsSeq
<1>5. DOMAIN hs = 1..n /\ Head(hs) = hs[1]
  BY <1>2, <1>4, SeqLen, Tailed
<1>6. ASSUME NEW i \in 1..n
      PROVE  \E q \in 1..Len(asked[c]), x \in 1..6 :
               Taken(c) + i = 6 * (q - 1) + x /\ hs[i] = Halves(asked[c][q])[x]
  <2>1. i \in 1..Len(wire[c]) /\ hs[i] = wire[c][i]
    BY <1>1, <1>2, <1>3
  <2>2. QED
    BY <2>1, OnWire
<1>7. QED
  BY <1>2, <1>3, <1>5, <1>6 DEF IsRead

\* hs are the n half tokens of a request that come behind its first r.
PartOf(hs, n, r, req) ==
    /\ r + n \in {2, 4, 6}
    /\ \A i \in 1..n : r + i \in 1..6 /\ hs[i] = Halves(req)[r + i]

\* A tidy read of what a request still has is a part of that request.
LEMMA TidyRead ==
    ASSUME NEW c \in Clients, WireOf(c), NEW n \in 1..Len(wire[c]),
           NEW hs, hs = SubSeq(wire[c], 1, n), Tidy(hs),
           NEW A \in Nat, NEW r \in {0, 2, 4}, Taken(c) = 6 * A + r
    PROVE  PartOf(hs, n, r, asked[c][A + 1])
<1>0. IsRead(c, n, hs)
  BY ReadAre
<1>1. /\ n \in Nat \ {0} /\ Len(hs) = n /\ DOMAIN hs = 1..n
      /\ \A i \in 1..n : \E q \in 1..Len(asked[c]), x \in 1..6 :
           Taken(c) + i = 6 * (q - 1) + x /\ hs[i] = Halves(asked[c][q])[x]
  BY <1>0 DEF IsRead
<1>2. Len(asked[c]) \in Nat
  BY Lengths
<1>3. r + n <= 6
  <2> SUFFICES ASSUME r + n > 6 PROVE FALSE
    BY <1>1
  <2>1. 6 - r \in 1..n - 1 /\ 6 - r \in 1..n
    BY <1>1
  <2>2. PICK q \in 1..Len(asked[c]), x \in 1..6 :
          Taken(c) + (6 - r) = 6 * (q - 1) + x /\ hs[6 - r] = Halves(asked[c][q])[x]
    BY <1>1, <2>1
  <2>3. x = 6
    BY SMTT(30), <1>2, <2>2
  <2>4. EndsAt(hs[6 - r])
    BY <2>2, <2>3 DEF Halves, EndsAt
  <2>5. QED
    BY <1>1, <2>1, <2>4 DEF Tidy
<1>4. ASSUME NEW i \in 1..n
      PROVE  r + i \in 1..6 /\ hs[i] = Halves(asked[c][A + 1])[r + i]
  <2>1. PICK q \in 1..Len(asked[c]), x \in 1..6 :
          Taken(c) + i = 6 * (q - 1) + x /\ hs[i] = Halves(asked[c][q])[x]
    BY <1>1
  <2>2. /\ i \in 1..6 /\ r + i \in 1..6 /\ q \in Nat
        /\ 6 * A + r + i = 6 * (q - 1) + x
    BY <1>1, <1>2, <1>3, <2>1
  <2>3. q = A + 1 /\ x = r + i
    BY <2>1, <2>2
  <2>4. QED
    BY <2>1, <2>2, <2>3
<1>5. r + n \in {2, 4, 6}
  <2>1. n \in 1..n
    BY <1>1
  <2>2. r + n \in 1..6 /\ hs[n].half = 2 /\ hs[n] = Halves(asked[c][A + 1])[r + n]
    BY <1>1, <1>4, <2>1 DEF Tidy
  <2>3. r + n \in {2, 4, 6}
    BY <2>2 DEF Halves, EndsAt
  <2>4. QED
    BY <2>3
<1>6. QED
  BY <1>4, <1>5 DEF PartOf

\* So it gives the request's path, and its end its body.
Parses(p, hs, n, r, req) ==
    /\ OnUrl(p, hs) = req.path
    /\ r + n = 6 => OnBody(p, hs) = req.path
    /\ (\E i \in DOMAIN hs : EndsAt(hs[i])) <=> r + n = 6

LEMMA TidyParsed ==
    ASSUME NEW n \in Nat \ {0}, NEW hs, DOMAIN hs = 1..n, NEW r \in {0, 2, 4},
           NEW req, PartOf(hs, n, r, req),
           NEW p, r >= 2 => p.path = req.path
    PROVE  Parses(p, hs, n, r, req)
<1>0. r + n \in {2, 4, 6} /\ \A i \in 1..n : r + i \in 1..6 /\ hs[i] = Halves(req)[r + i]
  BY DEF PartOf
<1>1. OnUrl(p, hs) = req.path
  <2>1. CASE r = 0
    <3>1. n >= 2 /\ 1 \in 1..n /\ 2 \in 1..n
      BY <1>0, <2>1
    <3>2. ASSUME NEW i \in 1..n PROVE hs[i].token = "url" <=> i \in {1, 2}
      <4>1. i \in 1..6 /\ hs[i] = Halves(req)[i]
        BY <1>0, <2>1
      <4>2. QED
        BY <4>1 DEF Halves, EndsAt
    <3>3. Of("url", hs) = {1, 2}
      BY <3>1, <3>2 DEF Of
    <3>4. hs[2].half = 2 /\ hs[2].value = req.path
      <4>1. 2 \in 1..6 /\ hs[2] = Halves(req)[2] /\ 2 \in {2, 4, 6} /\ 2 \in {2, 6}
        BY <1>0, <2>1, <3>1
      <4>2. QED
        BY <4>1 DEF Halves, EndsAt
    <3>5. Given("url", hs, p.path) = hs[2].value
      <4>1. 2 \in Int /\ 2 \in Of("url", hs) /\ \A j \in Of("url", hs) : j \in Int /\ j <= 2
        BY <3>3
      <4>2. Given("url", hs, p.path) = IF hs[2].half = 2 /\ 2 > 1 THEN hs[2].value ELSE Cut
        BY <4>1, TheLast, Zenon
      <4>3. QED
        BY <3>4, <4>2
    <3>6. QED
      BY <3>4, <3>5 DEF OnUrl
  <2>2. CASE r >= 2
    <3>1. ASSUME NEW i \in 1..n PROVE hs[i].token # "url"
      <4>1. r + i \in 1..6 /\ r + i \notin {1, 2} /\ hs[i] = Halves(req)[r + i]
        BY <1>0, <2>2
      <4>2. QED
        BY <4>1 DEF Halves, EndsAt
    <3>2. Of("url", hs) = {}
      BY <3>1 DEF Of
    <3>3. QED
      BY <2>2, <3>2 DEF OnUrl, Given
  <2>3. QED
    BY <2>1, <2>2
<1>2. ASSUME r + n = 6 PROVE OnBody(p, hs) = req.path
  <2>1. n > 1 /\ n \in 1..n /\ r + n = 6
    BY <1>0, <1>2
  <2>2. hs[n] = Halves(req)[6]
    BY <1>0, <2>1
  <2>3. hs[n].half = 2 /\ hs[n].value = req.path /\ hs[n].token = "body"
    <3>1. 6 \in 1..6 /\ 6 \in {2, 4, 6} /\ 6 \in {2, 6} /\ 6 \in {5, 6}
      OBVIOUS
    <3>2. QED
      BY <2>2, <3>1 DEF Halves, EndsAt
  <2>4. n \in Of("body", hs) /\ \A j \in Of("body", hs) : j \in Int /\ j <= n
    BY <2>1, <2>3 DEF Of
  <2>5. Given("body", hs, p.body) = IF hs[n].half = 2 /\ n > 1 THEN hs[n].value ELSE Cut
    BY <2>4, TheLast
  <2>6. QED
    BY <2>1, <2>3, <2>5 DEF OnBody
<1>3. ASSUME NEW i \in 1..n PROVE EndsAt(hs[i]) <=> r + i = 6
  BY <1>0 DEF Halves, EndsAt
<1>4. (\E i \in DOMAIN hs : EndsAt(hs[i])) <=> r + n = 6
  BY <1>0, <1>3
<1>5. QED
  BY <1>1, <1>2, <1>4 DEF Parses

-----------------------------------------------------------------------------
(***************************************************************************)
(* The steps of an HTTP server.  Other(c) is what a step of another        *)
(* client's connection leaves of c's.                                      *)
(***************************************************************************)
Other(c) == /\ wire'[c] = wire[c] /\ asked'[c] = asked[c] /\ answers'[c] = answers[c]
            /\ parser'[c] = parser[c] /\ clean'[c] = clean[c]

\* A connection of which nothing changed but perhaps the place it is at.
LEMMA SameHttp ==
    ASSUME NEW c \in Clients, HttpOf(c), Other(c),
           \/ session'[c] = session[c]
           \/ /\ session'[c] \in {"backlog", "scheduled", "gone"}
              /\ session[c] \in {"out", "backlog", "scheduled"}
           \/ session'[c] \in {"closed", "spins", "left"}
           \/ session[c] = "handle" /\ session'[c] = "send"
    PROVE  HttpOf(c)'
<1>1. Taken(c)' = Taken(c)
  BY DEF Other, Taken
<1>2. WireOf(c)'
  BY <1>1 DEF Other, HttpOf, WireOf
<1>3. CountOf(c)'
  BY <1>1 DEF Other, HttpOf, CountOf
<1>4. Matched(c)' = Matched(c) /\ Reading(c)' = Reading(c) /\ HasRead(c)' = HasRead(c)
  BY <1>1 DEF Other, Matched, Reading, HasRead
<1>5. CleanOf(c)'
  BY <1>4 DEF Other, HttpOf, CleanOf
<1>6. QED
  BY <1>2, <1>3, <1>5 DEF HttpOf

\* Every connection but c is left alone.
LEMMA OneHttp ==
    ASSUME HttpInv, NEW c \in Clients, HttpDomains', HttpOf(c)',
           \A d \in Clients : d # c => Other(d) /\ session'[d] = session[d]
    PROVE  HttpInv'
<1>1. ASSUME NEW d \in Clients, d # c PROVE HttpOf(d)'
  <2>1. HttpOf(d) /\ Other(d) /\ session'[d] = session[d]
    BY <1>1 DEF HttpInv
  <2>2. QED
    BY <2>1, SameHttp
<1>2. QED
  BY <1>1 DEF HttpInv

\* A request is added behind what is on the wire.
LEMMA SendKeepsHttp ==
    ASSUME HttpInv, NEW c \in Clients, NEW r \in Requests, HttpSend(c, r)
    PROVE  HttpInv'
<1>1. HttpOf(c) /\ HttpDomains
  BY DEF HttpInv
<1>2. /\ asked' = [asked EXCEPT ![c] = Append(@, r)]
      /\ wire' = [wire EXCEPT ![c] = @ \o Halves(r)]
      /\ UNCHANGED <<session, parser, answers, clean>>
  BY DEF HttpSend, tcpVars
<1>3. /\ asked'[c] = Append(asked[c], r) /\ wire'[c] = wire[c] \o Halves(r)
      /\ \A d \in Clients : d # c => Other(d) /\ session'[d] = session[d]
      /\ HttpDomains'
  BY <1>1, <1>2 DEF HttpDomains, Other
<1>4. /\ IsSeq(wire[c]) /\ IsSeq(asked[c]) /\ IsSeq(answers[c]) /\ IsSeq(Halves(r)) /\ Len(Halves(r)) = 6
  BY <1>1, HalvesAre DEF HttpOf, WireOf
<1>5. /\ Len(wire[c]) \in Nat /\ Len(asked[c]) \in Nat /\ Len(answers[c]) \in Nat
      /\ Taken(c) \in Nat /\ Len(wire[c]) = 6 * Len(asked[c]) - Taken(c)
  BY <1>1, Lengths DEF HttpOf
<1>6. /\ IsSeq(asked'[c]) /\ Len(asked'[c]) = Len(asked[c]) + 1
      /\ \A i \in 1..Len(asked[c]) : asked'[c][i] = asked[c][i]
      /\ asked'[c][Len(asked[c]) + 1] = r
  BY <1>3, <1>4, Appended
<1>7. /\ IsSeq(wire'[c]) /\ Len(wire'[c]) = Len(wire[c]) + 6
      /\ \A i \in 1..Len(wire[c]) : wire'[c][i] = wire[c][i]
      /\ \A i \in 1..6 : wire'[c][Len(wire[c]) + i] = Halves(r)[i]
  <2>1. IsJoin(wire'[c], wire[c], Halves(r))
    BY <1>3, <1>4, Joined
  <2>2. Len(Halves(r)) = 6
    BY <1>4
  <2>3. QED
    BY <2>1, <2>2 DEF IsJoin
<1>8. Taken(c)' = Taken(c)
  <2>1. Taken(c)' = 6 * Len(asked'[c]) - Len(wire'[c])
    BY DEF Taken
  <2>2. QED
    BY <1>5, <1>6, <1>7, <2>1
<1>9. WireOf(c)'
  <2>1. ASSUME NEW q \in 1..Len(asked'[c]), NEW x \in 1..6, 6 * (q - 1) + x > Taken(c)
        PROVE  wire'[c][6 * (q - 1) + x - Taken(c)] = Halves(asked'[c][q])[x]
    <3>1. CASE q \in 1..Len(asked[c])
      <4>1. 6 * (q - 1) + x - Taken(c) \in 1..Len(wire[c])
        BY SMTT(30), <1>5, <2>1, <3>1
      <4>2. wire[c][6 * (q - 1) + x - Taken(c)] = Halves(asked[c][q])[x]
        BY <1>1, <2>1, <3>1 DEF HttpOf, WireOf
      <4>3. asked'[c][q] = asked[c][q]
        BY <1>6, <3>1
      <4>4. QED
        BY <1>7, <4>1, <4>2, <4>3
    <3>2. CASE q = Len(asked[c]) + 1
      <4>1. 6 * (q - 1) + x - Taken(c) = Len(wire[c]) + x
        BY <1>5, <3>2
      <4>2. asked'[c][q] = r
        BY <1>6, <3>2
      <4>3. QED
        BY <1>7, <4>1, <4>2
    <3>3. QED
      BY <1>5, <1>6, <3>1, <3>2
  <2>2. Taken(c)' >= 0 /\ IsSeq(answers'[c])
    BY <1>2, <1>4, <1>5, <1>8
  <2>3. QED
    BY <1>6, <1>7, <1>8, <2>1, <2>2 DEF WireOf
<1>10. CountOf(c)'
  BY <1>1, <1>2, <1>8 DEF HttpOf, CountOf
<1>11. CleanOf(c)'
  <2> SUFFICES ASSUME clean[c]
      PROVE  /\ Matched(c)'
             /\ session[c] = "recv" => Reading(c)'
             /\ session[c] \in {"handle", "send"} => HasRead(c)'
    BY <1>2 DEF CleanOf
  <2>1. \A i \in 1..Len(answers[c]) : asked'[c][i] = asked[c][i]
    <3>1. 6 * Len(answers[c]) <= Taken(c)
      BY <1>1 DEF HttpOf, CountOf
    <3>2. Len(answers[c]) <= Len(asked[c])
      BY <1>5, <3>1
    <3>3. QED
      BY <1>5, <1>6, <3>2
  <2>2. 6 * Len(answers[c]) < Taken(c) => asked'[c][Len(answers[c]) + 1] = asked[c][Len(answers[c]) + 1]
    <3>1. 6 * Len(answers[c]) < Taken(c) => Len(answers[c]) + 1 \in 1..Len(asked[c])
      BY <1>5
    <3>2. QED
      BY <1>6, <3>1
  <2>3. Matched(c)'
    BY <1>1, <1>2, <2>1 DEF HttpOf, CleanOf, Matched
  <2>4. ASSUME session[c] = "recv" PROVE Reading(c)'
    <3>1. PICK k \in {0, 2, 4} : /\ Taken(c) = 6 * Len(answers[c]) + k
                                 /\ k >= 2 => parser[c].path = asked[c][Len(answers[c]) + 1].path
      BY <1>1, <2>4 DEF HttpOf, CleanOf, Reading
    <3>2. k >= 2 => 6 * Len(answers[c]) < Taken(c)
      BY <1>5, <3>1
    <3>3. k >= 2 => parser'[c].path = asked'[c][Len(answers'[c]) + 1].path
      BY <1>2, <2>2, <3>1, <3>2
    <3>4. Taken(c)' = 6 * Len(answers'[c]) + k
      BY <1>2, <1>8, <3>1
    <3>5. QED
      BY <3>3, <3>4 DEF Reading
  <2>5. ASSUME session[c] \in {"handle", "send"} PROVE HasRead(c)'
    <3>1. HasRead(c)
      BY <1>1, <2>5 DEF HttpOf, CleanOf
    <3>2. 6 * Len(answers[c]) < Taken(c)
      BY <1>5, <3>1 DEF HasRead
    <3>3. QED
      BY <1>2, <1>8, <2>2, <3>1, <3>2 DEF HasRead
  <2>6. QED
    BY <2>3, <2>4, <2>5
<1>12. QED
  BY <1>3, <1>9, <1>10, <1>11, OneHttp DEF HttpOf

\* What Goes() does to a connection.
LEMMA Gone ==
    ASSUME TcpInv, NEW c \in Clients, NEW s, Goes(c, s)
    PROVE  session'[c] = s /\ \A d \in Clients : d # c => session'[d] = session[d]
BY DEF TcpInv, BacklogInv, Goes

LEMMA FreshIs == ~Fresh.finished
<1>1. Fresh.finished = FALSE
  BY DEF Fresh
<1>2. QED
  BY <1>1, Zenon

\* A session begins with nothing read and a parser of its own.
LEMMA SessionKeepsHttp ==
    ASSUME TcpInv, HttpInv, NEW c \in Clients, HttpSession(c)
    PROVE  HttpInv'
<1>1. HttpOf(c) /\ HttpDomains /\ session[c] = "scheduled"
  BY DEF HttpInv, HttpSession
<1>2. session'[c] = "recv" /\ \A d \in Clients : d # c => session'[d] = session[d]
  BY Gone DEF HttpSession
<1>3. /\ parser' = [parser EXCEPT ![c] = Fresh]
      /\ UNCHANGED <<wire, asked, answers, clean>>
  BY DEF HttpSession
<1>4. /\ parser'[c] = Fresh /\ \A d \in Clients : d # c => Other(d)
      /\ HttpDomains'
  BY <1>1, <1>3 DEF HttpDomains, Other
<1>5. Taken(c) = 0 /\ answers[c] = <<>> /\ Taken(c)' = Taken(c)
  BY <1>1, <1>3 DEF HttpOf, CountOf, Taken
<1>6. WireOf(c)'
  <2>1. Taken(c)' = Taken(c) /\ WireOf(c)
    BY <1>1, <1>5 DEF HttpOf
  <2>2. QED
    BY <1>3, <2>1 DEF WireOf
<1>7. ~parser'[c].finished
  BY <1>4, FreshIs, Zenon
<1>8. Taken(c)' = 6 * Len(answers'[c]) + 0 /\ 6 * Len(answers'[c]) <= Taken(c)'
  <2>1. Len(answers'[c]) = 0 /\ Taken(c)' = 0
    BY <1>3, <1>5, EmptyIsSeq
  <2>2. QED
    BY <2>1
<1>9. CountOf(c)'
  BY <1>2, <1>7, <1>8 DEF CountOf
<1>10. Reading(c)'
  <2>1. 0 \in {0, 2, 4} /\ ~(0 >= 2)
    OBVIOUS
  <2>2. QED
    BY <1>8, <2>1 DEF Reading
<1>11. Matched(c)'
  <2>1. Len(answers'[c]) = 0
    BY <1>3, <1>5, EmptyIsSeq
  <2>2. 1..Len(answers'[c]) = {}
    BY <2>1
  <2>3. QED
    BY <2>2 DEF Matched
<1>12. CleanOf(c)'
  BY <1>2, <1>10, <1>11 DEF CleanOf
<1>13. QED
  BY <1>2, <1>4, <1>6, <1>9, <1>12, OneHttp DEF HttpOf

\* A response is that of the next request, and nothing of the one after it
\* was read when the reads were tidy.
LEMMA ResponseKeepsHttp ==
    ASSUME TcpInv, HttpInv, NEW c \in Clients, SendResponse(c)
    PROVE  HttpInv'
<1> DEFINE to == IF Response(c).close THEN "closed" ELSE "recv"
<1>1. HttpOf(c) /\ HttpDomains /\ session[c] = "send"
  BY DEF HttpInv, SendResponse
<1>2. session'[c] \in {"closed", "recv"} /\ \A d \in Clients : d # c => session'[d] = session[d]
  <2>1. session'[c] = to /\ \A d \in Clients : d # c => session'[d] = session[d]
    BY Gone DEF SendResponse
  <2>2. QED
    BY <2>1
<1>3. /\ answers' = [answers EXCEPT ![c] = Append(@, Response(c))]
      /\ parser' = [parser EXCEPT ![c] = Fresh]
      /\ UNCHANGED <<wire, asked, clean>>
  BY DEF SendResponse
<1>4. /\ answers'[c] = Append(answers[c], Response(c)) /\ parser'[c] = Fresh
      /\ \A d \in Clients : d # c => Other(d)
      /\ HttpDomains'
  BY <1>1, <1>3 DEF HttpDomains, Other
<1>5. /\ Len(asked[c]) \in Nat /\ Len(answers[c]) \in Nat /\ Taken(c) \in Nat
      /\ 6 * (Len(answers[c]) + 1) <= Taken(c)
  BY <1>1, Lengths DEF HttpOf, CountOf
<1>6. IsSeq(answers[c])
  BY <1>1 DEF HttpOf, WireOf
<1>7. /\ IsSeq(answers'[c]) /\ Len(answers'[c]) = Len(answers[c]) + 1
      /\ \A i \in 1..Len(answers[c]) : answers'[c][i] = answers[c][i]
      /\ answers'[c][Len(answers[c]) + 1] = Response(c)
  BY <1>4, <1>6, Appended
<1>8. Taken(c)' = Taken(c)
  BY <1>3 DEF Taken
<1>9. WireOf(c)'
  BY <1>1, <1>3, <1>7, <1>8 DEF HttpOf, WireOf
<1>10. ~parser'[c].finished /\ 6 * Len(answers'[c]) <= Taken(c)'
  <2>1. ~parser'[c].finished
    BY <1>4, FreshIs, Zenon
  <2>2. QED
    BY <1>5, <1>7, <1>8, <2>1
<1>11. CountOf(c)'
  BY <1>2, <1>10 DEF CountOf
<1>12. ASSUME clean[c] PROVE Matched(c)' /\ Reading(c)'
  <2>1. Matched(c) /\ HasRead(c)
    BY <1>1, <1>12 DEF HttpOf, CleanOf
  <2>2. Response(c).path = asked[c][Len(answers[c]) + 1].path /\ Response(c).body = asked[c][Len(answers[c]) + 1].path
    BY <2>1 DEF HasRead, Response
  <2>3. ASSUME NEW i \in 1..Len(answers[c]) + 1
        PROVE  answers'[c][i].path = asked[c][i].path /\ answers'[c][i].body = asked[c][i].path
    <3>1. CASE i \in 1..Len(answers[c])
      BY <1>7, <2>1, <3>1 DEF Matched
    <3>2. CASE i = Len(answers[c]) + 1
      BY <1>7, <2>2, <3>2
    <3>3. QED
      BY <1>5, <3>1, <3>2
  <2>4. Matched(c)'
    BY <1>3, <1>7, <2>3 DEF Matched
  <2>5. Taken(c)' = 6 * Len(answers'[c]) + 0
    BY <1>5, <1>7, <1>8, <2>1 DEF HasRead
  <2>6. Reading(c)'
    BY <2>5 DEF Reading
  <2>7. QED
    BY <2>4, <2>6
<1>13. CleanOf(c)'
  BY <1>2, <1>3, <1>12 DEF CleanOf
<1>14. QED
  BY <1>2, <1>4, <1>9, <1>11, <1>13, OneHttp DEF HttpOf

\* What a read leaves on the wire is still what was asked.
LEMMA RecvKeepsWire ==
    ASSUME HttpInv, NEW c \in Clients, NEW n \in 1..Len(wire[c]), NEW fails \in BOOLEAN, Recv(c, n, fails)
    PROVE  WireOf(c)' /\ Taken(c)' = Taken(c) + n
<1>1. WireOf(c) /\ HttpDomains
  BY DEF HttpInv, HttpOf
<1>2. /\ wire'[c] = SubSeq(wire[c], n + 1, Len(wire[c]))
      /\ UNCHANGED <<asked, answers>>
  BY <1>1 DEF Recv, HttpDomains
<1>3. /\ Len(wire[c]) \in Nat /\ Len(asked[c]) \in Nat
      /\ Taken(c) \in Nat /\ Len(wire[c]) = 6 * Len(asked[c]) - Taken(c)
  BY <1>1, Lengths
<1>4. n \in Nat /\ n <= Len(wire[c])
  BY <1>3
<1>5. IsSeq(wire[c]) /\ IsSeq(asked[c]) /\ IsSeq(answers[c])
  BY <1>1 DEF WireOf
<1>6. /\ IsSeq(wire'[c]) /\ Len(wire'[c]) = Len(wire[c]) - n
      /\ \A i \in 1..Len(wire[c]) - n : wire'[c][i] = wire[c][n + i]
  BY ZenonT(40), <1>2, <1>5, Split
<1>7. Taken(c)' = Taken(c) + n
  <2>1. Taken(c)' = 6 * Len(asked[c]) - Len(wire'[c])
    BY <1>2 DEF Taken
  <2>2. QED
    BY <1>3, <1>4, <1>6, <2>1
<1>8. ASSUME NEW q \in 1..Len(asked[c]), NEW x \in 1..6, 6 * (q - 1) + x > Taken(c) + n
      PROVE  wire'[c][6 * (q - 1) + x - (Taken(c) + n)] = Halves(asked[c][q])[x]
  <2>1. PICK i \in Int : i = 6 * (q - 1) + x - (Taken(c) + n)
    BY <1>3, <1>4
  <2>2. i \in 1..Len(wire[c]) - n /\ n + i = 6 * (q - 1) + x - Taken(c) /\ 6 * (q - 1) + x > Taken(c)
    <3>1. q \in Int /\ q <= Len(asked[c]) /\ x \in Int /\ x <= 6
      BY <1>3
    <3>2. 6 * (q - 1) + x <= Len(wire[c]) + Taken(c)
      BY <1>3, <3>1
    <3>3. i >= 1 /\ i <= Len(wire[c]) - n
      BY SMTT(30), <1>3, <1>4, <1>8, <2>1, <3>1, <3>2
    <3>4. n + i = 6 * (q - 1) + x - Taken(c) /\ 6 * (q - 1) + x > Taken(c)
      BY SMTT(30), <1>3, <1>4, <1>8, <2>1, <3>1
    <3>5. QED
      BY <1>3, <1>4, <3>3, <3>4
  <2>3. wire'[c][i] = wire[c][n + i]
    BY <1>6, <2>2
  <2>4. wire[c][6 * (q - 1) + x - Taken(c)] = Halves(asked[c][q])[x]
    BY <1>1, <2>2 DEF WireOf
  <2>5. QED
    BY <2>1, <2>2, <2>3, <2>4
<1>9. Taken(c)' >= 0
  BY <1>3, <1>4, <1>7
<1>10. QED
  <2>1. \A q \in 1..Len(asked'[c]), x \in 1..6 :
          6 * (q - 1) + x > Taken(c)' =>
            wire'[c][6 * (q - 1) + x - Taken(c)'] = Halves(asked'[c][q])[x]
    BY <1>2, <1>7, <1>8
  <2>2. IsSeq(asked'[c]) /\ IsSeq(answers'[c])
    BY <1>2, <1>5
  <2>3. QED
    BY <1>6, <1>7, <1>9, <2>1, <2>2 DEF WireOf

\* A read, however it cuts what was asked.
LEMMA RecvKeepsHttp ==
    ASSUME TcpInv, HttpInv, NEW c \in Clients, NEW n \in 1..Len(wire[c]), NEW fails \in BOOLEAN,
           Recv(c, n, fails)
    PROVE  HttpInv'
<1> DEFINE hs == SubSeq(wire[c], 1, n)
           p  == Execute(parser[c], hs)
           to == IF fails THEN "closed" ELSE IF p.finished THEN "handle" ELSE "recv"
           A  == Len(answers[c])
<1>1. HttpOf(c) /\ HttpDomains /\ session[c] = "recv"
  BY DEF HttpInv, Recv
<1>2. /\ parser' = [parser EXCEPT ![c] = p]
      /\ clean' = [clean EXCEPT ![c] = @ /\ Tidy(hs)]
      /\ wire' = [wire EXCEPT ![c] = SubSeq(@, n + 1, Len(@))]
      /\ Goes(c, to) /\ UNCHANGED <<asked, answers>>
  BY DEF Recv
<1>3. session'[c] = to /\ \A d \in Clients : d # c => session'[d] = session[d]
  BY <1>2, Gone
<1>4. /\ parser'[c] = p /\ clean'[c] = (clean[c] /\ Tidy(hs))
      /\ \A d \in Clients : d # c => Other(d)
      /\ HttpDomains'
  BY <1>1, <1>2 DEF HttpDomains, Other
<1>5. WireOf(c)' /\ Taken(c)' = Taken(c) + n
  BY RecvKeepsWire
<1>6. /\ p.finished = OnComplete(parser[c], hs) /\ p.path = OnUrl(parser[c], hs)
      /\ p.body = OnBody(parser[c], hs)
  BY DEF Execute
<1> HIDE DEF p
<1>7. /\ session'[c] \in {"closed", "handle", "recv"}
      /\ session'[c] = "handle" => p.finished
      /\ session'[c] = "recv" => ~p.finished
  BY <1>3
<1> HIDE DEF to
<1>8. IsRead(c, n, hs)
  BY <1>1, ReadAre DEF HttpOf
<1> HIDE DEF hs
<1>9. A \in Nat /\ Taken(c) \in Nat /\ Len(asked[c]) \in Nat /\ n \in Nat /\ 6 * A <= Taken(c)
  BY <1>1, <1>8, Lengths DEF HttpOf, CountOf, IsRead
<1>10. ~parser[c].finished
  BY <1>1 DEF HttpOf, CountOf
<1>11. ASSUME p.finished PROVE 6 * (A + 1) <= Taken(c) + n
  <2>1. PICK i \in DOMAIN hs : EndsAt(hs[i])
    BY <1>6, <1>10, <1>11 DEF OnComplete
  <2>2. i \in 1..n
    BY <1>8 DEF IsRead
  <2>3. PICK q \in 1..Len(asked[c]), x \in 1..6 :
          Taken(c) + i = 6 * (q - 1) + x /\ hs[i] = Halves(asked[c][q])[x]
    BY <1>8, <2>2 DEF IsRead
  <2>4. x = 6
    BY <2>1, <2>3 DEF Halves, EndsAt
  <2>5. q \in Int /\ i \in Int /\ 1 <= i /\ i <= n /\ Taken(c) + i = 6 * q
    BY SMTT(30), <1>9, <2>2, <2>3, <2>4
  <2>6. q >= A + 1
    BY SMTT(30), <1>9, <2>5
  <2>7. QED
    BY SMTT(30), <1>9, <2>5, <2>6
<1>12. CountOf(c)'
  <2>1. UNCHANGED answers /\ 6 * A <= Taken(c)'
    BY <1>2, <1>5, <1>9
  <2>2. session'[c] = "handle" => 6 * (A + 1) <= Taken(c)'
    BY <1>5, <1>7, <1>11
  <2>3. session'[c] = "recv" => ~parser'[c].finished
    BY <1>4, <1>7, Zenon
  <2>4. QED
    BY <1>7, <2>1, <2>2, <2>3 DEF CountOf
<1>13. ASSUME clean'[c]
       PROVE  /\ Matched(c)'
              /\ session'[c] = "recv" => Reading(c)'
              /\ session'[c] = "handle" => HasRead(c)'
  <2>1. clean[c] /\ Tidy(hs)
    BY <1>4, <1>13, Zenon
  <2>2. Matched(c) /\ Reading(c)
    BY <1>1, <2>1 DEF HttpOf, CleanOf
  <2>3. Matched(c)'
    BY <1>2, <2>2 DEF Matched
  <2>4. PICK r \in {0, 2, 4} : /\ Taken(c) = 6 * A + r
                               /\ r >= 2 => parser[c].path = asked[c][A + 1].path
    BY <2>2 DEF Reading
  <2>5. PartOf(hs, n, r, asked[c][A + 1])
    BY <1>1, <1>9, <2>1, <2>4, TidyRead DEF HttpOf, hs
  <2>6. n \in Nat \ {0} /\ DOMAIN hs = 1..n
    BY <1>8 DEF IsRead
  <2> HIDE DEF A
  <2>7. /\ OnUrl(parser[c], hs) = asked[c][A + 1].path
        /\ r + n = 6 => OnBody(parser[c], hs) = asked[c][A + 1].path
        /\ (\E i \in DOMAIN hs : EndsAt(hs[i])) <=> r + n = 6
    <3>1. Parses(parser[c], hs, n, r, asked[c][A + 1])
      BY <2>4, <2>5, <2>6, TidyParsed
    <3>2. QED
      BY <3>1 DEF Parses
  <2>8. p.finished <=> r + n = 6
    BY <1>6, <1>10, <2>7, Zenon DEF OnComplete
  <2>9. Taken(c)' = 6 * A + (r + n)
    BY <1>5, <1>9, <2>4
  <2>10. parser'[c].path = asked'[c][A + 1].path /\ (r + n = 6 => parser'[c].body = asked'[c][A + 1].path)
    BY <1>2, <1>4, <1>6, <2>7
  <2>11. A = Len(answers'[c])
    BY <1>2 DEF A
  <2>12. ASSUME session'[c] = "recv" PROVE Reading(c)'
    <3>1. ~p.finished
      BY <1>7, <2>12
    <3>2. r + n \in {2, 4}
      BY <2>5, <2>8, <3>1 DEF PartOf
    <3>3. QED
      BY <2>9, <2>10, <2>11, <3>2 DEF Reading
  <2>13. ASSUME session'[c] = "handle" PROVE HasRead(c)'
    <3>1. p.finished
      BY <1>7, <2>13
    <3>2. r + n = 6
      BY <2>8, <3>1
    <3>3. Taken(c)' = 6 * (A + 1)
      BY <1>9, <2>9, <3>2
    <3>4. QED
      BY <2>10, <2>11, <3>2, <3>3 DEF HasRead
  <2>14. QED
    BY <2>3, <2>12, <2>13
<1>14. CleanOf(c)'
  BY <1>7, <1>13 DEF CleanOf
<1>15. QED
  BY <1>3, <1>4, <1>5, <1>12, <1>14, OneHttp DEF HttpOf

\* The steps that only move a connection on.
LEMMA OthersKeepHttp ==
    ASSUME TcpInv, HttpInv, NEW c \in Clients, RecvEnds(c) \/ Handle(c) \/ SendFails(c)
    PROVE  HttpInv'
<1>1. HttpOf(c) /\ HttpDomains
  BY DEF HttpInv
<1>2. UNCHANGED <<wire, asked, answers, parser, clean>>
  BY DEF RecvEnds, Handle, SendFails
<1>3. HttpDomains' /\ \A d \in Clients : Other(d)
  BY <1>1, <1>2 DEF HttpDomains, Other
<1>4. /\ \A d \in Clients : d # c => session'[d] = session[d]
      /\ \/ session'[c] \in {"closed", "spins"}
         \/ session[c] = "handle" /\ session'[c] = "send"
  BY Gone DEF RecvEnds, Handle, SendFails
<1>5. HttpOf(c)'
  BY <1>1, <1>3, <1>4, SameHttp
<1>6. QED
  BY <1>3, <1>4, <1>5, OneHttp

\* The servlets, and the steps of TcpServer.
LEMMA QuietKeepsHttp ==
    ASSUME HttpInv, UNCHANGED <<wire, asked, answers, parser, clean>>, \A c \in Clients : Accepted(c)
    PROVE  HttpInv'
<1>1. HttpDomains' /\ \A d \in Clients : Other(d)
  BY DEF HttpInv, HttpDomains, Other
<1>2. ASSUME NEW c \in Clients PROVE HttpOf(c)'
  <2>1. HttpOf(c) /\ Other(c) /\ Accepted(c)
    BY <1>1, <1>2 DEF HttpInv
  <2>2. QED
    BY <2>1, SameHttp DEF Accepted
<1>3. QED
  BY <1>1, <1>2 DEF HttpInv

LEMMA KeepHttpInv == TcpInv /\ HttpInv /\ HttpNext => TcpInv' /\ HttpInv'
<1> SUFFICES ASSUME TcpInv, HttpInv, HttpNext PROVE TcpInv' /\ HttpInv'
  OBVIOUS
<1>1. CASE TcpNext /\ UNCHANGED httpVars
  <2>1. TcpInv' /\ \A c \in Clients : Accepted(c)
    BY <1>1, KeepListenInv, KeepAcceptInv, KeepBacklogInv DEF TcpInv
  <2>2. QED
    BY <1>1, <2>1, QuietKeepsHttp DEF httpVars
<1>2. ASSUME NEW c \in Clients, SessionStep(c) \/ SendFails(c)
      PROVE  TcpInv' /\ HttpInv'
  <2>1. session[c] # "backlog" /\ UNCHANGED tcpRest
    BY <1>2 DEF SessionStep, HttpSession, Recv, RecvEnds, Handle, SendResponse, SendFails
  <2>2. \E s \in Sessions : Goes(c, s)
    BY <1>2 DEF SessionStep, HttpSession, Recv, RecvEnds, Handle, SendResponse, SendFails, Sessions
  <2>3. TcpInv'
    BY <2>1, <2>2, SessionMoves
  <2>4. HttpInv'
    BY <1>2, SessionKeepsHttp, RecvKeepsHttp, OthersKeepHttp, ResponseKeepsHttp DEF SessionStep
  <2>5. QED
    BY <2>3, <2>4
<1>3. ASSUME NEW c \in Clients, NEW r \in Requests, HttpSend(c, r)
      PROVE  TcpInv' /\ HttpInv'
  <2>1. UNCHANGED tcpVars
    BY <1>3 DEF HttpSend
  <2>2. TcpInv'
    BY <2>1 DEF tcpVars, TcpInv, ListenInv, AcceptInv, BacklogInv
  <2>3. QED
    BY <1>3, <2>2, SendKeepsHttp
<1>4. ASSUME Changing PROVE TcpInv' /\ HttpInv'
  <2>1. \A c \in Clients : Accepted(c)
    BY <1>4 DEF Changing, tcpVars, Accepted
  <2>2. TcpInv'
    BY <1>4 DEF Changing, tcpVars, TcpInv, ListenInv, AcceptInv, BacklogInv
  <2>3. QED
    BY <1>4, <2>1, <2>2, QuietKeepsHttp DEF Changing
<1>5. QED
  BY <1>1, <1>2, <1>3, <1>4 DEF HttpNext, AddServlet, DelServlet, AddGlob, DelGlob

-----------------------------------------------------------------------------
(***************************************************************************)
(* RpcServer.  Received(c) of what the client sent have been received, and *)
(* each of those is, in the order they arrived in, a task until its answer *)
(* is written, so that no two tasks or answers stand for the same one.     *)
(***************************************************************************)
Received(c) == Len(sent[c]) - Len(inbox[c])

QueueOf(c) ==
    /\ IsSeq(sent[c]) /\ IsSeq(inbox[c]) /\ Len(sent[c]) <= MaxMessages /\ Received(c) >= 0
    /\ \A i \in 1..Len(sent[c]) : sent[c][i].id = i
    /\ \A i \in 1..Len(inbox[c]) : inbox[c][i] = sent[c][Received(c) + i]

\* A recurring timer for the session and one for each message of it.
TimersOf(c) ==
    /\ session[c] \in {"out", "backlog", "scheduled", "gone"} => timers[c] = 0 /\ Received(c) = 0
    /\ session[c] \in {"recv", "left", "closed"} => timers[c] = Received(c) + 1
    /\ session[c] \notin {"handle", "send", "spins"}

Answered(c, id) == \E i \in 1..Len(replies[c]) : replies[c][i].id = id
IsResult(m, reply) == (reply = "result") <=> (m.type = "call" /\ m.key \in Methods)

RepliesOf(c) ==
    /\ IsSeq(replies[c])
    /\ \A i \in 1..Len(replies[c]) :
         /\ replies[c][i].id \in 1..Received(c)
         /\ IsResult(sent[c][replies[c][i].id], replies[c][i].reply)
    /\ \A i, j \in 1..Len(replies[c]) : replies[c][i].id = replies[c][j].id => i = j

TaskOf(t) ==
    /\ t = [client |-> t.client, msg |-> t.msg, at |-> t.at, reply |-> t.reply]
    /\ t.client \in Clients /\ t.at \in {"handle", "send", "spins"}
    /\ t.msg.id \in 1..Received(t.client) /\ t.msg = sent[t.client][t.msg.id]
    /\ ~Answered(t.client, t.msg.id)
    /\ t.at = "send" => IsResult(t.msg, t.reply)

TasksInv ==
    /\ \A t \in tasks : TaskOf(t)
    /\ \A t, u \in tasks : t.client = u.client /\ t.msg.id = u.msg.id => t = u

\* A server that is being destroyed has nothing left to do.
DestroyInv ==
    cleaner # "running" =>
      /\ tasks = {} /\ ~publishing
      /\ m_is_stop /\ stops = 0 /\ starts = MaxStarts
      /\ \A a \in Addresses : scheduled[a] = 0 /\ accepting[a] = 0
      /\ \A c \in Clients : session[c] \notin {"scheduled", "recv"}

RpcDomains == /\ DOMAIN sent = Clients /\ DOMAIN inbox = Clients
              /\ DOMAIN replies = Clients /\ timers \in [Clients -> Nat]

RpcOf(c) == QueueOf(c) /\ TimersOf(c) /\ RepliesOf(c)

RpcInv == RpcDomains /\ (\A c \in Clients : RpcOf(c)) /\ TasksInv /\ DestroyInv

LEMMA InitRpcInv == TcpInit /\ RpcInit => RpcInv
<1> SUFFICES ASSUME TcpInit, RpcInit PROVE RpcInv
  OBVIOUS
<1>1. RpcDomains
  BY DEF RpcInit, RpcDomains
<1>2. TasksInv /\ DestroyInv
  BY DEF RpcInit, TasksInv, DestroyInv
<1>3. ASSUME NEW c \in Clients PROVE RpcOf(c)
  <2>1. /\ sent[c] = <<>> /\ inbox[c] = <<>> /\ replies[c] = <<>> /\ timers[c] = 0 /\ session[c] = "out"
        /\ Len(sent[c]) = 0 /\ Len(inbox[c]) = 0 /\ Len(replies[c]) = 0
    BY DEF TcpInit, RpcInit
  <2>2. Received(c) = 0
    BY <2>1 DEF Received
  <2>3. IsSeq(sent[c]) /\ IsSeq(inbox[c]) /\ IsSeq(replies[c])
    BY <2>1, EmptyIsSeq
  <2>4. QueueOf(c) /\ RepliesOf(c)
    BY <2>1, <2>2, <2>3 DEF QueueOf, RepliesOf
  <2>5. TimersOf(c)
    BY <2>1, <2>2 DEF TimersOf
  <2>6. QED
    BY <2>4, <2>5 DEF RpcOf
<1>4. QED
  BY <1>1, <1>2, <1>3 DEF RpcInv

LEMMA Counts ==
    ASSUME NEW c \in Clients, RpcOf(c)
    PROVE  /\ Len(sent[c]) \in Nat /\ Len(inbox[c]) \in Nat /\ Len(replies[c]) \in Nat
           /\ Received(c) \in Nat /\ Received(c) <= Len(sent[c])
           /\ Len(inbox[c]) = Len(sent[c]) - Received(c)
<1>1. Len(sent[c]) \in Nat /\ Len(inbox[c]) \in Nat /\ Len(replies[c]) \in Nat
  BY SeqLen DEF RpcOf, QueueOf, RepliesOf
<1>2. Received(c) >= 0
  BY DEF RpcOf, QueueOf
<1>3. Received(c) = Len(sent[c]) - Len(inbox[c])
  BY DEF Received
<1>4. Received(c) \in Int
  BY <1>1, <1>3
<1>5. Received(c) \in Nat
  BY <1>2, <1>4
<1>6. Received(c) <= Len(sent[c])
  <2>1. \A a, b \in Nat : a - b <= a
    OBVIOUS
  <2>2. QED
    BY <1>1, <1>3, <2>1, Zenon
<1>7. Len(inbox[c]) = Len(sent[c]) - Received(c)
  BY <1>1, <1>3, <1>4
<1>8. QED
  BY <1>1, <1>5, <1>6, <1>7

\* What a step of the sending or receiving of c's messages leaves alone.
Grows(c) == /\ Received(c) \in Nat /\ Received(c)' \in Nat /\ Received(c)' >= Received(c)
            /\ Received(c) <= Len(sent[c]) /\ Len(sent[c]) \in Nat
            /\ \A i \in 1..Len(sent[c]) : sent'[c][i] = sent[c][i]
            /\ replies'[c] = replies[c]

LEMMA TaskStays ==
    ASSUME NEW t, TaskOf(t), Grows(t.client)
    PROVE  TaskOf(t)'
<1>1. t.msg.id \in 1..Received(t.client) /\ t.msg = sent[t.client][t.msg.id]
  BY DEF TaskOf
<1>2. t.msg.id \in 1..Received(t.client)' /\ t.msg.id \in 1..Len(sent[t.client])
  BY <1>1 DEF Grows
<1>3. t.msg = sent'[t.client][t.msg.id]
  BY <1>1, <1>2 DEF Grows
<1>4. Answered(t.client, t.msg.id)' = Answered(t.client, t.msg.id)
  BY DEF Grows, Answered
<1>5. QED
  BY <1>2, <1>3, <1>4 DEF TaskOf

LEMMA RepliesStay ==
    ASSUME NEW c \in Clients, RepliesOf(c), Grows(c)
    PROVE  RepliesOf(c)'
<1>1. ASSUME NEW i \in 1..Len(replies[c])
      PROVE  /\ replies'[c][i].id \in 1..Received(c)'
             /\ IsResult(sent'[c][replies'[c][i].id], replies'[c][i].reply)
  <2>1. replies[c][i].id \in 1..Received(c) /\ IsResult(sent[c][replies[c][i].id], replies[c][i].reply)
    BY DEF RepliesOf
  <2>2. replies[c][i].id \in 1..Received(c)' /\ replies[c][i].id \in 1..Len(sent[c])
    BY <2>1 DEF Grows
  <2>3. sent'[c][replies[c][i].id] = sent[c][replies[c][i].id] /\ replies'[c] = replies[c]
    BY <2>2 DEF Grows
  <2>4. QED
    BY <2>1, <2>2, <2>3
<1>2. replies'[c] = replies[c]
  BY DEF Grows
<1>3. QED
  BY <1>1, <1>2 DEF RepliesOf, IsResult

\* A connection of which nothing changed but perhaps the place it is at.
SameRpcOf(c) == /\ sent'[c] = sent[c] /\ inbox'[c] = inbox[c]
                /\ replies'[c] = replies[c] /\ timers'[c] = timers[c]

LEMMA SameGrows ==
    ASSUME NEW c \in Clients, RpcOf(c), sent'[c] = sent[c], inbox'[c] = inbox[c], replies'[c] = replies[c]
    PROVE  Grows(c) /\ Received(c)' = Received(c)
<1>1. Received(c)' = Received(c)
  BY DEF Received
<1>2. QED
  BY <1>1, Counts DEF Grows

LEMMA SameRpc ==
    ASSUME NEW c \in Clients, RpcOf(c), SameRpcOf(c),
           \/ Accepted(c)
           \/ session[c] = "recv" /\ session'[c] = "left"
           \/ session[c] = "left" /\ session'[c] = "closed"
    PROVE  RpcOf(c)'
<1>1. Grows(c) /\ Received(c)' = Received(c)
  BY SameGrows DEF SameRpcOf
<1>2. QueueOf(c)'
  BY <1>1 DEF SameRpcOf, RpcOf, QueueOf
<1>3. TimersOf(c)'
  BY <1>1 DEF SameRpcOf, RpcOf, TimersOf, Accepted
<1>4. RepliesOf(c)'
  BY <1>1, RepliesStay DEF RpcOf
<1>5. QED
  BY <1>2, <1>3, <1>4 DEF RpcOf

\* The tasks when no answer is written and no task added.
LEMMA TasksStay ==
    ASSUME RpcInv, \A c \in Clients : Grows(c), tasks' \subseteq tasks
    PROVE  TasksInv'
<1>1. ASSUME NEW t \in tasks' PROVE TaskOf(t)'
  <2>1. TaskOf(t) /\ t.client \in Clients
    BY DEF RpcInv, TasksInv, TaskOf
  <2>2. QED
    BY <2>1, TaskStays
<1>2. QED
  BY <1>1 DEF RpcInv, TasksInv

\* A client sends a message.
LEMMA SendKeepsRpc ==
    ASSUME RpcInv, NEW c \in Clients, NEW m \in Calls, RpcSend(c, m)
    PROVE  RpcInv'
<1> DEFINE msg == [id |-> Len(sent[c]) + 1, type |-> m.type, key |-> m.key]
<1>1. /\ session[c] \in {"scheduled", "recv"} /\ Len(sent[c]) < MaxMessages
      /\ sent' = [sent EXCEPT ![c] = Append(@, msg)] /\ inbox' = [inbox EXCEPT ![c] = Append(@, msg)]
      /\ UNCHANGED <<tcpVars, tasks, replies, timers, publishing, cleaner>>
  BY DEF RpcSend
<1>2. RpcDomains /\ RpcOf(c)
  BY DEF RpcInv
<1>3. /\ sent'[c] = Append(sent[c], msg) /\ inbox'[c] = Append(inbox[c], msg) /\ RpcDomains'
      /\ \A d \in Clients : d # c => SameRpcOf(d)
  BY <1>1, <1>2 DEF RpcDomains, SameRpcOf
<1>4. msg.id = Len(sent[c]) + 1
  OBVIOUS
<1> HIDE DEF msg
<1>5. IsSeq(sent[c]) /\ IsSeq(inbox[c])
  BY <1>2 DEF RpcOf, QueueOf
<1>6. /\ IsSeq(sent'[c]) /\ Len(sent'[c]) = Len(sent[c]) + 1
      /\ \A i \in 1..Len(sent[c]) : sent'[c][i] = sent[c][i]
      /\ sent'[c][Len(sent[c]) + 1] = msg
  BY <1>3, <1>5, Appended
<1>7. /\ IsSeq(inbox'[c]) /\ Len(inbox'[c]) = Len(inbox[c]) + 1
      /\ \A i \in 1..Len(inbox[c]) : inbox'[c][i] = inbox[c][i]
      /\ inbox'[c][Len(inbox[c]) + 1] = msg
  BY <1>3, <1>5, Appended
<1>8. /\ Len(sent[c]) \in Nat /\ Len(inbox[c]) \in Nat
      /\ Received(c) \in Nat /\ Received(c) <= Len(sent[c])
      /\ Len(inbox[c]) = Len(sent[c]) - Received(c)
  BY <1>2, Counts
<1>9. Received(c)' = Received(c)
  <2>1. Received(c)' = (Len(sent[c]) + 1) - (Len(inbox[c]) + 1)
    BY <1>6, <1>7 DEF Received
  <2>2. QED
    BY <1>8, <2>1
<1>10. Grows(c)
  BY <1>1, <1>6, <1>8, <1>9 DEF Grows
<1>11. QueueOf(c)'
  <2>1. ASSUME NEW i \in 1..Len(sent[c]) + 1 PROVE sent'[c][i].id = i
    <3>1. CASE i \in 1..Len(sent[c])
      BY <1>2, <1>6, <3>1 DEF RpcOf, QueueOf
    <3>2. CASE i = Len(sent[c]) + 1
      BY <1>4, <1>6, <3>2
    <3>3. QED
      BY <1>8, <3>1, <3>2
  <2>2. ASSUME NEW i \in 1..Len(inbox[c]) + 1 PROVE inbox'[c][i] = sent'[c][Received(c) + i]
    <3>1. CASE i \in 1..Len(inbox[c])
      <4>1. inbox[c][i] = sent[c][Received(c) + i]
        BY <1>2, <3>1 DEF RpcOf, QueueOf
      <4>2. Received(c) + i \in 1..Len(sent[c])
        BY <1>8, <3>1
      <4>3. QED
        BY <1>6, <1>7, <3>1, <4>1, <4>2
    <3>2. CASE i = Len(inbox[c]) + 1
      <4>1. Received(c) + i = Len(sent[c]) + 1
        BY <1>8, <3>2
      <4>2. QED
        BY <1>6, <1>7, <3>2, <4>1
    <3>3. QED
      BY <1>8, <3>1, <3>2
  <2>3. Len(sent'[c]) <= MaxMessages
    BY <1>1, <1>6, <1>8
  <2>4. Received(c)' >= 0
    BY <1>8, <1>9
  <2>5. QED
    BY <1>6, <1>7, <1>9, <2>1, <2>2, <2>3, <2>4 DEF QueueOf
<1>12. session' = session /\ timers' = timers
  BY <1>1 DEF tcpVars
<1>13. TimersOf(c)'
  BY <1>2, <1>9, <1>12 DEF RpcOf, TimersOf
<1>14. RepliesOf(c)'
  BY <1>2, <1>10, RepliesStay DEF RpcOf
<1>15. ASSUME NEW d \in Clients PROVE RpcOf(d)' /\ Grows(d)
  <2>1. CASE d = c
    BY <1>10, <1>11, <1>13, <1>14, <2>1 DEF RpcOf
  <2>2. CASE d # c
    <3>1. RpcOf(d) /\ SameRpcOf(d) /\ Accepted(d)
      BY <1>3, <1>12, <2>2 DEF RpcInv, Accepted
    <3>2. QED
      BY <3>1, SameRpc, SameGrows DEF SameRpcOf
  <2>3. QED
    BY <2>1, <2>2
<1>16. TasksInv'
  BY <1>1, <1>15, TasksStay
<1>17. DestroyInv'
  BY <1>1 DEF RpcInv, DestroyInv, tcpVars
<1>18. QED
  BY <1>3, <1>15, <1>16, <1>17 DEF RpcInv

\* A connection is begun, ends or is left: only the place it is at changes,
\* and its first timer is started.
LEMMA MoveKeepsRpc ==
    ASSUME TcpInv, RpcInv, NEW c \in Clients, HandleClient(c) \/ RecvFails(c) \/ SessionEnds(c)
    PROVE  RpcInv'
<1>1. /\ \A d \in Clients : d # c => session'[d] = session[d]
      /\ \/ session[c] = "scheduled" /\ session'[c] = "recv" /\ Update(c)
         \/ session[c] = "recv" /\ session'[c] = "left" /\ timers' = timers
         \/ session[c] = "left" /\ session'[c] = "closed" /\ timers' = timers
  BY Gone DEF HandleClient, RecvFails, SessionEnds
<1>2. UNCHANGED <<m_is_stop, scheduled, accepting, stops, starts, sent, inbox, tasks, replies, publishing, cleaner>>
  BY DEF HandleClient, RecvFails, SessionEnds, tcpRestR
<1>3. RpcDomains' /\ \A d \in Clients : d # c => SameRpcOf(d)
  BY <1>1, <1>2 DEF RpcInv, RpcDomains, SameRpcOf, Update
<1>4. \A d \in Clients : RpcOf(d)
  BY DEF RpcInv
<1>5. \A d \in Clients : Grows(d) /\ Received(d)' = Received(d)
  BY <1>2, <1>4, SameGrows
<1>6. RpcOf(c)'
  <2>1. CASE session[c] = "scheduled" /\ session'[c] = "recv" /\ Update(c)
    <3>1. timers'[c] = timers[c] + 1 /\ timers[c] = 0 /\ Received(c) = 0
      BY <1>4, <2>1 DEF RpcInv, RpcDomains, Update, RpcOf, TimersOf
    <3>2. TimersOf(c)'
      BY <1>5, <2>1, <3>1 DEF TimersOf
    <3>3. QueueOf(c)'
      BY <1>2, <1>4, <1>5 DEF RpcOf, QueueOf
    <3>4. RepliesOf(c)'
      BY <1>4, <1>5, RepliesStay DEF RpcOf
    <3>5. QED
      BY <3>2, <3>3, <3>4 DEF RpcOf
  <2>2. CASE timers' = timers /\ session'[c] # "recv"
    <3>1. SameRpcOf(c)
      BY <1>2, <2>2 DEF SameRpcOf
    <3>2. QED
      BY <1>1, <1>4, <2>2, <3>1, SameRpc
  <2>3. QED
    BY <1>1, <2>1, <2>2
<1>7. ASSUME NEW d \in Clients, d # c PROVE RpcOf(d)'
  <2>1. SameRpcOf(d) /\ Accepted(d)
    BY <1>1, <1>3, <1>7 DEF Accepted
  <2>2. QED
    BY <1>4, <2>1, SameRpc
<1>8. TasksInv'
  BY <1>2, <1>5, TasksStay
<1>9. DestroyInv'
  <2>1. cleaner # "running" => \A d \in Clients : session'[d] \notin {"scheduled", "recv"}
    BY <1>1 DEF RpcInv, DestroyInv
  <2>2. QED
    BY <1>2, <2>1 DEF RpcInv, DestroyInv
<1>10. QED
  BY <1>3, <1>6, <1>7, <1>8, <1>9 DEF RpcInv

\* A message is received and becomes a task.
LEMMA RequestKeepsRpc ==
    ASSUME RpcInv, NEW c \in Clients, RecvRequest(c)
    PROVE  RpcInv'
<1>0. PICK new : new = [client |-> c, msg |-> Head(inbox[c]), at |-> "handle", reply |-> "none"]
  OBVIOUS
<1>1. /\ session[c] = "recv" /\ inbox[c] # <<>>
      /\ inbox' = [inbox EXCEPT ![c] = Tail(@)] /\ timers' = [timers EXCEPT ![c] = @ + 1]
      /\ tasks' = tasks \cup {new}
      /\ UNCHANGED <<tcpVars, sent, replies, publishing, cleaner>>
  BY <1>0 DEF RecvRequest, Update
<1>2. RpcDomains /\ RpcOf(c)
  BY DEF RpcInv
<1>3. /\ inbox'[c] = Tail(inbox[c]) /\ timers'[c] = timers[c] + 1 /\ RpcDomains'
      /\ \A d \in Clients : d # c => SameRpcOf(d)
  BY <1>1, <1>2 DEF RpcDomains, SameRpcOf
<1>4. /\ IsSeq(inbox'[c]) /\ Len(inbox'[c]) = Len(inbox[c]) - 1 /\ Len(inbox[c]) \in Nat \ {0}
      /\ \A i \in 1..Len(inbox[c]) - 1 : inbox'[c][i] = inbox[c][i + 1]
      /\ Head(inbox[c]) = inbox[c][1]
  BY <1>1, <1>2, <1>3, Tailed DEF RpcOf, QueueOf
<1>5. /\ Len(sent[c]) \in Nat /\ Received(c) \in Nat /\ Received(c) <= Len(sent[c])
      /\ Len(inbox[c]) = Len(sent[c]) - Received(c)
  BY <1>2, Counts
<1>6. Received(c)' = Received(c) + 1
  <2>1. Received(c)' = Len(sent[c]) - (Len(inbox[c]) - 1)
    BY <1>1, <1>4 DEF Received
  <2>2. QED
    BY <1>4, <1>5, <2>1
<1>7. Received(c) + 1 \in 1..Len(sent[c])
  BY <1>4, <1>5
<1>8. Head(inbox[c]) = sent[c][Received(c) + 1] /\ sent[c][Received(c) + 1].id = Received(c) + 1
  <2>1. 1 \in 1..Len(inbox[c])
    BY <1>4
  <2>2. QED
    BY <1>2, <1>4, <1>7, <2>1 DEF RpcOf, QueueOf
<1>9. Grows(c)
  BY <1>1, <1>5, <1>6 DEF Grows
<1>10. QueueOf(c)'
  <2>1. ASSUME NEW i \in 1..Len(inbox[c]) - 1
        PROVE  inbox'[c][i] = sent[c][Received(c) + 1 + i]
    <3>1. i + 1 \in 1..Len(inbox[c]) /\ Received(c) + (i + 1) = Received(c) + 1 + i
      BY <1>4, <1>5
    <3>2. inbox[c][i + 1] = sent[c][Received(c) + (i + 1)]
      BY <1>2, <3>1 DEF RpcOf, QueueOf
    <3>3. QED
      BY <1>4, <3>1, <3>2
  <2>2. Received(c)' >= 0
    BY <1>5, <1>6
  <2>3. \A i \in 1..Len(inbox'[c]) : inbox'[c][i] = sent'[c][Received(c)' + i]
    BY <1>1, <1>4, <1>6, <2>1
  <2>4. QED
    BY <1>1, <1>2, <1>4, <2>2, <2>3 DEF RpcOf, QueueOf
<1>11. session' = session
  BY <1>1 DEF tcpVars
<1>12. TimersOf(c)'
  <2>1. timers[c] = Received(c) + 1
    BY <1>1, <1>2 DEF RpcOf, TimersOf
  <2>2. timers'[c] = Received(c)' + 1
    BY <1>3, <1>6, <2>1
  <2>3. QED
    BY <1>1, <1>11, <2>2 DEF TimersOf
<1>13. RepliesOf(c)'
  BY <1>2, <1>9, RepliesStay DEF RpcOf
<1>14. ASSUME NEW d \in Clients PROVE RpcOf(d)' /\ Grows(d)
  <2>1. CASE d = c
    BY <1>9, <1>10, <1>12, <1>13, <2>1 DEF RpcOf
  <2>2. CASE d # c
    <3>1. RpcOf(d) /\ SameRpcOf(d) /\ Accepted(d)
      BY <1>3, <1>11, <2>2 DEF RpcInv, Accepted
    <3>2. QED
      BY <3>1, SameRpc, SameGrows DEF SameRpcOf
  <2>3. QED
    BY <2>1, <2>2
<1>15. ~Answered(c, Received(c) + 1)
  <2>1. ASSUME NEW i \in 1..Len(replies[c]) PROVE replies[c][i].id # Received(c) + 1
    <3>1. replies[c][i].id \in 1..Received(c)
      BY <1>2 DEF RpcOf, RepliesOf
    <3>2. QED
      BY <1>5, <3>1
  <2>2. QED
    BY <2>1 DEF Answered
<1>16. /\ new.client = c /\ new.msg = sent[c][Received(c) + 1] /\ new.msg.id = Received(c) + 1
       /\ new.at = "handle" /\ new.reply = "none"
       /\ new = [client |-> new.client, msg |-> new.msg, at |-> new.at, reply |-> new.reply]
  BY <1>0, <1>8
<1>17. TaskOf(new)'
  <2>1. new.msg.id \in 1..Received(c)'
    BY <1>5, <1>6, <1>16
  <2>2. ~Answered(c, new.msg.id)'
    BY <1>1, <1>15, <1>16 DEF Answered
  <2>3. QED
    BY <1>1, <1>16, <2>1, <2>2 DEF TaskOf
<1>18. TasksInv'
  <2>1. ASSUME NEW t \in tasks PROVE TaskOf(t) /\ TaskOf(t)'
    <3>1. TaskOf(t) /\ t.client \in Clients
      BY DEF RpcInv, TasksInv, TaskOf
    <3>2. QED
      BY <1>14, <3>1, TaskStays
  <2>2. ASSUME NEW t \in tasks, t.client = c PROVE t.msg.id # new.msg.id
    <3>1. t.msg.id \in 1..Received(c)
      BY <2>1, <2>2 DEF TaskOf
    <3>2. QED
      BY <1>5, <1>16, <3>1
  <2>3. \A t, u \in tasks : t.client = u.client /\ t.msg.id = u.msg.id => t = u
    BY DEF RpcInv, TasksInv
  <2>4. QED
    BY <1>1, <1>16, <1>17, <2>1, <2>2, <2>3 DEF TasksInv
<1>19. DestroyInv'
  BY <1>1 DEF RpcInv, DestroyInv, tcpVars
<1>20. QED
  BY <1>3, <1>14, <1>18, <1>19 DEF RpcInv

\* A task goes on with the answer it will write, or drops its message.
LEMMA TaskKeepsRpc ==
    ASSUME RpcInv, NEW t \in tasks, NEW S, tasks' = (tasks \ {t}) \cup S,
           \A u \in S : TaskOf(u) /\ u.client = t.client /\ u.msg = t.msg,
           \A u, v \in S : u = v,
           UNCHANGED <<tcpVars, sent, inbox, replies, timers, publishing, cleaner>>
    PROVE  RpcInv'
<1>1. ASSUME NEW d \in Clients PROVE RpcOf(d)' /\ Grows(d)
  <2>1. RpcOf(d) /\ SameRpcOf(d) /\ Accepted(d)
    BY DEF RpcInv, Accepted, SameRpcOf, tcpVars
  <2>2. QED
    BY <2>1, SameRpc, SameGrows DEF SameRpcOf
<1>2. \A u \in tasks : TaskOf(u)
  BY DEF RpcInv, TasksInv
<1>3. \A u, v \in tasks : u.client = v.client /\ u.msg.id = v.msg.id => u = v
  BY DEF RpcInv, TasksInv
<1>4. ASSUME NEW u \in tasks' PROVE TaskOf(u)'
  <2>1. TaskOf(u) /\ u.client \in Clients
    BY <1>2 DEF TaskOf
  <2>2. QED
    BY <1>1, <2>1, TaskStays
<1>5. \A u, v \in tasks' : u.client = v.client /\ u.msg.id = v.msg.id => u = v
  <2>1. ASSUME NEW u \in S, NEW v \in tasks \ {t} PROVE ~(u.client = v.client /\ u.msg.id = v.msg.id)
    BY <1>3
  <2>2. QED
    BY <1>3, <2>1
<1>6. TasksInv'
  BY <1>4, <1>5 DEF TasksInv
<1>7. DestroyInv'
  BY DEF RpcInv, DestroyInv, tcpVars
<1>8. RpcDomains'
  BY DEF RpcInv, RpcDomains
<1>9. QED
  BY <1>1, <1>6, <1>7, <1>8 DEF RpcInv

LEMMA BecomesKeepsRpc ==
    ASSUME RpcInv, NEW t \in tasks, NEW at \in {"send", "spins"}, NEW reply, Becomes(t, at, reply),
           at = "send" => IsResult(t.msg, reply),
           UNCHANGED <<tcpVars, sent, inbox, replies, timers, publishing, cleaner>>
    PROVE  RpcInv'
<1>1. TaskOf(t)
  BY DEF RpcInv, TasksInv
<1>2. PICK u : u = [client |-> t.client, msg |-> t.msg, at |-> at, reply |-> reply]
  OBVIOUS
<1>4. tasks' = (tasks \ {t}) \cup {u}
  BY <1>2 DEF Becomes
<1>5. /\ u.client = t.client /\ u.msg = t.msg /\ u.at = at /\ u.reply = reply
      /\ u = [client |-> u.client, msg |-> u.msg, at |-> u.at, reply |-> u.reply]
  BY <1>2
<1>6. TaskOf(u)
  BY <1>1, <1>5 DEF TaskOf
<1>7. PICK S : S = {u}
  OBVIOUS
<1>8. /\ tasks' = (tasks \ {t}) \cup S
      /\ \A v \in S : TaskOf(v) /\ v.client = t.client /\ v.msg = t.msg
      /\ \A v, w \in S : v = w
  BY <1>4, <1>5, <1>6, <1>7
<1>9. QED
  BY <1>8, TaskKeepsRpc

\* An answer is written, and its task is done.
LEMMA RespondKeepsRpc ==
    ASSUME RpcInv, NEW t \in tasks, Respond(t)
    PROVE  RpcInv'
<1>1. TaskOf(t) /\ t.client \in Clients
  BY DEF RpcInv, TasksInv, TaskOf
<1>2. PICK c \in Clients : c = t.client
  BY <1>1
<1>3. PICK r : r = [id |-> t.msg.id, reply |-> t.reply]
  OBVIOUS
<1>4. /\ t.at = "send" /\ replies' = [replies EXCEPT ![c] = Append(@, r)]
      /\ tasks' = tasks \ {t}
      /\ UNCHANGED <<tcpVars, sent, inbox, timers, publishing, cleaner>>
  BY <1>2, <1>3 DEF Respond
<1>5. RpcDomains /\ RpcOf(c)
  BY DEF RpcInv
<1>6. /\ replies'[c] = Append(replies[c], r) /\ RpcDomains'
      /\ \A d \in Clients : d # c => SameRpcOf(d)
  BY <1>4, <1>5 DEF RpcDomains, SameRpcOf
<1>7. /\ IsSeq(replies'[c]) /\ Len(replies'[c]) = Len(replies[c]) + 1 /\ Len(replies[c]) \in Nat
      /\ \A i \in 1..Len(replies[c]) : replies'[c][i] = replies[c][i]
      /\ replies'[c][Len(replies[c]) + 1] = r
  BY <1>5, <1>6, Appended, SeqLen DEF RpcOf, RepliesOf
<1>8. Received(c)' = Received(c) /\ sent' = sent /\ session' = session
  BY <1>4 DEF Received, tcpVars
<1>9. /\ r.id \in 1..Received(c) /\ IsResult(sent[c][r.id], r.reply) /\ ~Answered(c, r.id)
      /\ r.id = t.msg.id
  BY <1>1, <1>2, <1>3, <1>4 DEF TaskOf
<1>10. RepliesOf(c)'
  <2>1. ASSUME NEW i \in 1..Len(replies[c]) + 1
        PROVE  replies'[c][i].id \in 1..Received(c) /\ IsResult(sent[c][replies'[c][i].id], replies'[c][i].reply)
    <3>1. CASE i \in 1..Len(replies[c])
      BY <1>5, <1>7, <3>1 DEF RpcOf, RepliesOf
    <3>2. CASE i = Len(replies[c]) + 1
      BY <1>7, <1>9, <3>2
    <3>3. QED
      BY <1>7, <3>1, <3>2
  <2>2. ASSUME NEW i \in 1..Len(replies[c]) PROVE replies'[c][i].id # r.id
    BY <1>7, <1>9 DEF Answered
  <2>3. \A i, j \in 1..Len(replies[c]) : replies'[c][i].id = replies'[c][j].id => i = j
    BY <1>5, <1>7 DEF RpcOf, RepliesOf
  <2>4. \A i \in 1..Len(replies[c]) + 1 : i \in 1..Len(replies[c]) \/ i = Len(replies[c]) + 1
    BY <1>7
  <2>5. \A i, j \in 1..Len(replies[c]) + 1 : replies'[c][i].id = replies'[c][j].id => i = j
    BY <1>7, <2>2, <2>3, <2>4
  <2>6. QED
    BY <1>7, <1>8, <2>1, <2>5 DEF RepliesOf
<1>11. QueueOf(c)' /\ TimersOf(c)'
  BY <1>4, <1>5, <1>8 DEF RpcOf, QueueOf, TimersOf
<1>12. ASSUME NEW d \in Clients, d # c PROVE RpcOf(d)' /\ Grows(d)
  <2>1. RpcOf(d) /\ SameRpcOf(d) /\ Accepted(d)
    BY <1>6, <1>8, <1>12 DEF RpcInv, Accepted
  <2>2. QED
    BY <2>1, SameRpc, SameGrows DEF SameRpcOf
<1>13. ASSUME NEW u \in tasks, u # t PROVE TaskOf(u)'
  <2>1. TaskOf(u) /\ u.client \in Clients
    BY DEF RpcInv, TasksInv, TaskOf
  <2>2. CASE u.client # c
    BY <1>12, <2>1, <2>2, TaskStays
  <2>3. CASE u.client = c
    <3>1. u.msg.id # r.id
      BY <1>2, <1>9, <1>13, <2>3 DEF RpcInv, TasksInv
    <3>2. ~Answered(c, u.msg.id)
      BY <2>1, <2>3 DEF TaskOf
    <3>3. ~Answered(c, u.msg.id)'
      <4>1. ASSUME NEW i \in 1..Len(replies[c]) + 1 PROVE replies'[c][i].id # u.msg.id
        <5>1. CASE i \in 1..Len(replies[c])
          BY <1>7, <3>2, <5>1 DEF Answered
        <5>2. CASE i = Len(replies[c]) + 1
          BY <1>7, <3>1, <5>2
        <5>3. QED
          BY <1>7, <5>1, <5>2
      <4>2. QED
        BY <1>7, <4>1 DEF Answered
    <3>4. QED
      BY <1>8, <2>1, <2>3, <3>3 DEF TaskOf
  <2>4. QED
    BY <2>2, <2>3
<1>14. TasksInv'
  BY <1>4, <1>13 DEF RpcInv, TasksInv
<1>15. DestroyInv'
  BY <1>4 DEF RpcInv, DestroyInv, tcpVars
<1>16. QED
  BY <1>6, <1>10, <1>11, <1>12, <1>14, <1>15 DEF RpcInv, RpcOf

LEMMA AnswersKeepRpc ==
    ASSUME RpcInv, NEW t \in tasks, Answers(t)
    PROVE  RpcInv'
<1>1. CASE HandleMethodCall(t)
  <2>1. \E reply : Becomes(t, "send", reply) /\ IsResult(t.msg, reply)
    BY <1>1 DEF HandleMethodCall, IsResult
  <2>2. QED
    BY <1>1, <2>1, BecomesKeepsRpc DEF HandleMethodCall
<1>2. CASE HandleHeartbeat(t)
  <2>1. IsResult(t.msg, "heartbeat")
    BY <1>2 DEF HandleHeartbeat, IsResult
  <2>2. QED
    BY <1>2, <2>1, BecomesKeepsRpc DEF HandleHeartbeat
<1>3. CASE HandleSubscribe(t)
  <2>1. IsResult(t.msg, "leftover")
    BY <1>3 DEF HandleSubscribe, IsResult
  <2>2. QED
    BY <1>3, <2>1, BecomesKeepsRpc DEF HandleSubscribe
<1>4. CASE HandleOther(t)
  <2>1. PICK S : S = {}
    OBVIOUS
  <2>2. /\ tasks' = (tasks \ {t}) \cup S
        /\ \A v \in S : TaskOf(v) /\ v.client = t.client /\ v.msg = t.msg
        /\ \A v, w \in S : v = w
    BY <1>4, <2>1 DEF HandleOther
  <2>3. QED
    BY <1>4, <2>2, TaskKeepsRpc DEF HandleOther
<1>5. CASE RespondSpins(t)
  BY <1>5, BecomesKeepsRpc DEF RespondSpins
<1>6. QED
  BY <1>1, <1>2, <1>3, <1>4, <1>5, RespondKeepsRpc DEF Answers

\* The steps of TcpServer, the timers, publications, the cleaner and the
\* destructor.
LEMMA QuietKeepsRpc ==
    ASSUME RpcInv, UNCHANGED <<sent, inbox, tasks, replies, timers>>, \A c \in Clients : Accepted(c),
           DestroyInv'
    PROVE  RpcInv'
<1>1. ASSUME NEW c \in Clients PROVE RpcOf(c)' /\ Grows(c)
  <2>1. RpcOf(c) /\ SameRpcOf(c) /\ Accepted(c)
    BY DEF RpcInv, SameRpcOf
  <2>2. QED
    BY <2>1, SameRpc, SameGrows DEF SameRpcOf
<1>2. TasksInv'
  BY <1>1, TasksStay
<1>3. RpcDomains'
  BY DEF RpcInv, RpcDomains
<1>4. QED
  BY <1>1, <1>2, <1>3 DEF RpcInv

LEMMA TcpStays ==
    ASSUME TcpInv, UNCHANGED tcpVars
    PROVE  TcpInv' /\ \A c \in Clients : Accepted(c)
BY DEF tcpVars, TcpInv, ListenInv, AcceptInv, BacklogInv, Accepted

LEMMA KeepRpcInv == TcpInv /\ RpcInv /\ RpcNext => TcpInv' /\ RpcInv'
<1> SUFFICES ASSUME TcpInv, RpcInv, RpcNext PROVE TcpInv' /\ RpcInv'
  OBVIOUS
<1>1. CASE TcpNext /\ cleaner = "running" /\ UNCHANGED rpcVars
  <2>1. TcpInv' /\ \A c \in Clients : Accepted(c)
    BY <1>1, KeepListenInv, KeepAcceptInv, KeepBacklogInv DEF TcpInv
  <2>2. DestroyInv' /\ UNCHANGED <<sent, inbox, tasks, replies, timers>>
    BY <1>1 DEF rpcVars, DestroyInv
  <2>3. QED
    BY <2>1, <2>2, QuietKeepsRpc
<1>2. ASSUME NEW c \in Clients, HandleClient(c) \/ RecvFails(c) \/ SessionEnds(c)
      PROVE  TcpInv' /\ RpcInv'
  <2>1. session[c] # "backlog" /\ UNCHANGED tcpRest
    BY <1>2 DEF HandleClient, RecvFails, SessionEnds, tcpRest, tcpRestR
  <2>2. \E s \in Sessions : Goes(c, s)
    BY <1>2 DEF HandleClient, RecvFails, SessionEnds, Sessions
  <2>3. TcpInv'
    BY <2>1, <2>2, SessionMoves
  <2>4. QED
    BY <1>2, <2>3, MoveKeepsRpc
<1>3. ASSUME NEW c \in Clients, RecvRequest(c) PROVE TcpInv' /\ RpcInv'
  BY <1>3, TcpStays, RequestKeepsRpc DEF RecvRequest
<1>4. ASSUME NEW c \in Clients, NEW m \in Calls, RpcSend(c, m) PROVE TcpInv' /\ RpcInv'
  BY <1>4, TcpStays, SendKeepsRpc DEF RpcSend
<1>5. ASSUME NEW t \in tasks, Answers(t) PROVE TcpInv' /\ RpcInv'
  <2>1. UNCHANGED tcpVars
    BY <1>5 DEF Answers, HandleMethodCall, HandleHeartbeat, HandleSubscribe, HandleOther, Respond, RespondSpins
  <2>2. QED
    BY <1>5, <2>1, TcpStays, AnswersKeepRpc
<1>6. ASSUME UNCHANGED <<tcpVars, sent, inbox, tasks, replies, timers>>, DestroyInv'
      PROVE  TcpInv' /\ RpcInv'
  BY <1>6, TcpStays, QuietKeepsRpc
<1>7. ASSUME NEW c \in Clients, AliveTimeout(c) PROVE TcpInv' /\ RpcInv'
  <2>1. DestroyInv'
    BY <1>7 DEF AliveTimeout, RpcInv, DestroyInv, tcpVars
  <2>2. QED
    BY <1>6, <1>7, <2>1 DEF AliveTimeout
<1>8. ASSUME Clean \/ (\E m \in Calls : Publish(m.key)) PROVE TcpInv' /\ RpcInv'
  <2>1. DestroyInv'
    BY <1>8 DEF Clean, Publish, DestroyInv
  <2>2. QED
    BY <1>6, <1>8, <2>1 DEF Clean, Publish
<1>9. CASE Destroy
  <2>1. DestroyInv'
    BY <1>9 DEF Destroy, Unused, DestroyInv, tcpVars
  <2>2. QED
    BY <1>6, <1>9, <2>1 DEF Destroy
<1>10. CASE CleanerStops
  <2>1. DestroyInv'
    BY <1>10 DEF CleanerStops, RpcInv, DestroyInv, tcpVars
  <2>2. QED
    BY <1>6, <1>10, <2>1 DEF CleanerStops
<1>11. QED
  BY <1>1, <1>2, <1>3, <1>4, <1>5, <1>7, <1>8, <1>9, <1>10 DEF RpcNext, RpcStep

-----------------------------------------------------------------------------
\* The invariant of the server a behaviour has; the other one is as it was.
ServersInv ==
    /\ TcpInv
    /\ \/ kind = "http" /\ HttpInv /\ RpcInit
       \/ kind = "rpc" /\ RpcInv /\ HttpInit

LEMMA InitServersInv == Init => ServersInv
BY InitTcpInv, InitHttpInv, InitRpcInv DEF Init, ServersInv

LEMMA KeepServersInv == ServersInv /\ [Next]_vars => ServersInv'
<1> SUFFICES ASSUME ServersInv, [Next]_vars PROVE ServersInv'
  OBVIOUS
<1>1. CASE kind = "http" /\ HttpNext /\ UNCHANGED <<kind, rpcVars>>
  <2>1. TcpInv /\ HttpInv /\ RpcInit
    BY <1>1 DEF ServersInv
  <2>2. TcpInv' /\ HttpInv'
    BY <1>1, <2>1, KeepHttpInv
  <2>3. RpcInit'
    BY <1>1, <2>1 DEF RpcInit, rpcVars
  <2>4. QED
    BY <1>1, <2>2, <2>3 DEF ServersInv
<1>2. CASE kind = "rpc" /\ RpcNext /\ UNCHANGED <<kind, httpVars>>
  <2>1. TcpInv /\ RpcInv /\ HttpInit
    BY <1>2 DEF ServersInv
  <2>2. TcpInv' /\ RpcInv'
    BY <1>2, <2>1, KeepRpcInv
  <2>3. HttpInit'
    BY <1>2, <2>1 DEF HttpInit, httpVars
  <2>4. QED
    BY <1>2, <2>2, <2>3 DEF ServersInv
<1>3. CASE UNCHANGED vars
  <2>1. TcpInv' /\ \A c \in Clients : Accepted(c)
    BY <1>3, TcpStays DEF vars, ServersInv
  <2>2. HttpInv => HttpInv'
    BY <1>3, <2>1, QuietKeepsHttp DEF vars, httpVars
  <2>3. RpcInv => RpcInv'
    <3>1. DestroyInv => DestroyInv'
      BY <1>3 DEF vars, tcpVars, rpcVars, DestroyInv
    <3>2. UNCHANGED <<sent, inbox, tasks, replies, timers>>
      BY <1>3 DEF vars, rpcVars
    <3>3. QED
      BY <2>1, <3>1, <3>2, QuietKeepsRpc DEF RpcInv
  <2>4. RpcInit => RpcInit'
    BY <1>3 DEF vars, rpcVars, RpcInit
  <2>5. HttpInit => HttpInit'
    BY <1>3 DEF vars, httpVars, HttpInit
  <2>6. QED
    BY <1>3, <2>1, <2>2, <2>3, <2>4, <2>5 DEF ServersInv, vars
<1>4. QED
  BY <1>1, <1>2, <1>3 DEF Next

-----------------------------------------------------------------------------
(***************************************************************************)
(* What the invariant gives.                                               *)
(***************************************************************************)
LEMMA UpTo ==
    ASSUME NEW n \in Nat
    PROVE  IsFiniteSet(1..n) /\ Cardinality(1..n) = n
<1>1. 1 \in Int /\ n \in Int
  OBVIOUS
<1>2. IsFiniteSet(1..n) /\ Cardinality(1..n) = IF 1 > n THEN 0 ELSE n - 1 + 1
  BY <1>1, FS_Interval, Zenon
<1>3. QED
  BY <1>2

\* A client has no more answers than messages, since no two are of the same.
LEMMA NoMoreReplies ==
    ASSUME NEW c \in Clients, RpcOf(c)
    PROVE  Len(replies[c]) <= Len(sent[c])
<1>1. /\ Len(sent[c]) \in Nat /\ Len(replies[c]) \in Nat
      /\ Received(c) \in Nat /\ Received(c) <= Len(sent[c])
  BY Counts
<1> SUFFICES ASSUME Len(replies[c]) > Received(c) PROVE FALSE
  BY <1>1
<1> DEFINE S == 1..Len(replies[c])
           T == 1..Received(c)
           f == [i \in S |-> replies[c][i].id]
<1>2. f \in [S -> T]
  BY DEF RpcOf, RepliesOf
<1>3. IsFiniteSet(S) /\ Cardinality(S) = Len(replies[c])
  BY <1>1, UpTo
<1>4. IsFiniteSet(T) /\ Cardinality(T) = Received(c)
  BY <1>1, UpTo
<1>5. Cardinality(T) < Cardinality(S)
  BY <1>1, <1>3, <1>4
<1>6. PICK i, j \in S : i # j /\ f[i] = f[j]
  <2> HIDE DEF S, T, f
  <2>1. QED
    BY <1>2, <1>3, <1>4, <1>5, FS_PigeonHole
<1>7. replies[c][i].id = replies[c][j].id
  BY <1>6
<1>8. QED
  BY <1>6, <1>7 DEF RpcOf, RepliesOf

LEMMA NoMoreAnswers ==
    ASSUME HttpInv, NEW c \in Clients
    PROVE  Len(answers[c]) <= Len(asked[c])
<1>1. HttpOf(c)
  BY DEF HttpInv
<1>2. /\ Len(wire[c]) \in Nat /\ Len(asked[c]) \in Nat /\ Len(answers[c]) \in Nat
      /\ Taken(c) \in Nat /\ Len(wire[c]) = 6 * Len(asked[c]) - Taken(c)
      /\ 6 * Len(answers[c]) <= Taken(c)
  BY <1>1, Lengths DEF HttpOf, CountOf
<1>3. QED
  BY <1>2

LEMMA SoundListeners ==
    ASSUME TcpInv
    PROVE  /\ m_sockets \subseteq open /\ open \subseteq Addresses
           /\ \A a \in Addresses : scheduled[a] \in 0 .. MaxStarts /\ accepting[a] \in 0 .. MaxStarts
           /\ session \in [Clients -> {"out", "backlog", "scheduled", "recv", "handle", "send",
                                       "spins", "left", "closed", "gone"}]
<1>1. ASSUME NEW a \in Addresses
      PROVE  scheduled[a] \in 0 .. MaxStarts /\ accepting[a] \in 0 .. MaxStarts
  BY DEF TcpInv, ListenInv, AcceptInv
<1>2. m_sockets \subseteq open /\ open \subseteq Addresses
  BY DEF TcpInv, ListenInv
<1>3. session \in [Clients -> Sessions]
  BY DEF TcpInv, BacklogInv
<1>4. QED
  BY <1>1, <1>2, <1>3 DEF Sessions

LEMMA SoundTimers ==
    ASSUME RpcInv, TcpInv
    PROVE  timers \in [Clients -> 0 .. MaxMessages + 1]
<1>0. timers \in [Clients -> Nat]
  BY DEF RpcInv, RpcDomains
<1>1. ASSUME NEW c \in Clients PROVE timers[c] \in 0 .. MaxMessages + 1
  <2>1. RpcOf(c) /\ session[c] \in Sessions
    BY DEF RpcInv, TcpInv, BacklogInv
  <2>2. Received(c) \in Nat /\ Received(c) <= Len(sent[c]) /\ Len(sent[c]) \in Nat /\ Len(sent[c]) <= MaxMessages
    BY <2>1, Counts DEF RpcOf, QueueOf
  <2>3. timers[c] = 0 \/ timers[c] = Received(c) + 1
    BY <2>1 DEF RpcOf, TimersOf, Sessions
  <2>4. QED
    BY <2>2, <2>3
<1>2. QED
  BY <1>0, <1>1

LEMMA ServersInvSound == ServersInv => AnswersMatch /\ RepliesMatch /\ ServersSound
<1> SUFFICES ASSUME ServersInv PROVE AnswersMatch /\ RepliesMatch /\ ServersSound
  OBVIOUS
<1>1. TcpInv
  BY DEF ServersInv
<1>2. CASE kind = "http" /\ HttpInv /\ RpcInit
  <2>1. ASSUME NEW c \in Clients
        PROVE  /\ replies[c] = <<>> /\ Len(replies[c]) = 0 /\ DOMAIN replies[c] = {} /\ Len(sent[c]) = 0
    BY <1>2, EmptyIsSeq DEF RpcInit
  <2>2. ASSUME NEW c \in Clients PROVE DOMAIN answers[c] = 1..Len(answers[c])
    BY <1>2, SeqLen DEF HttpInv, HttpOf, WireOf
  <2>3. AnswersMatch
    <3>1. ASSUME NEW c \in Clients, clean[c] PROVE Matched(c)
      BY <1>2, <3>1 DEF HttpInv, HttpOf, CleanOf
    <3>2. QED
      BY <2>2, <3>1 DEF AnswersMatch, Matched
  <2>4. RepliesMatch
    BY <2>1 DEF RepliesMatch
  <2>5. \A c \in Clients : Len(answers[c]) <= Len(asked[c]) /\ Len(replies[c]) <= Len(sent[c])
    BY <1>2, <2>1, NoMoreAnswers
  <2>6. timers \in [Clients -> 0 .. MaxMessages + 1] /\ tasks = {} /\ cleaner = "running"
    BY <1>2 DEF RpcInit
  <2>7. TypeOK
    BY <1>1, <2>5, <2>6, SoundListeners DEF TypeOK
  <2>8. DestroyedIdle
    BY <2>6 DEF DestroyedIdle
  <2>9. QED
    BY <2>3, <2>4, <2>7, <2>8 DEF ServersSound
<1>3. CASE kind = "rpc" /\ RpcInv /\ HttpInit
  <2>1. ASSUME NEW c \in Clients
        PROVE  answers[c] = <<>> /\ Len(answers[c]) = 0 /\ DOMAIN answers[c] = {} /\ Len(asked[c]) = 0
    BY <1>3, EmptyIsSeq DEF HttpInit
  <2>2. AnswersMatch
    BY <2>1 DEF AnswersMatch
  <2>3. RepliesMatch
    <3> SUFFICES ASSUME NEW c \in Clients, NEW i \in DOMAIN replies[c]
        PROVE  /\ replies[c][i].id \in DOMAIN sent[c]
               /\ \A j \in DOMAIN replies[c] : replies[c][j].id = replies[c][i].id => j = i
               /\ IsResult(sent[c][replies[c][i].id], replies[c][i].reply)
      BY DEF RepliesMatch, IsResult
    <3>1. RpcOf(c)
      BY <1>3 DEF RpcInv
    <3>2. DOMAIN replies[c] = 1..Len(replies[c]) /\ DOMAIN sent[c] = 1..Len(sent[c])
      BY <3>1, SeqLen DEF RpcOf, QueueOf, RepliesOf
    <3>3. Received(c) \in Nat /\ Len(sent[c]) \in Nat /\ Received(c) <= Len(sent[c])
      BY <3>1, Counts
    <3>4. replies[c][i].id \in 1..Received(c)
      BY <3>1, <3>2 DEF RpcOf, RepliesOf
    <3>5. replies[c][i].id \in DOMAIN sent[c]
      BY <3>2, <3>3, <3>4
    <3>6. QED
      BY <3>1, <3>2, <3>5 DEF RpcOf, RepliesOf
  <2>4. \A c \in Clients : Len(answers[c]) <= Len(asked[c]) /\ Len(replies[c]) <= Len(sent[c])
    BY <1>3, <2>1, NoMoreReplies DEF RpcInv
  <2>5. \A t \in tasks : t.at \in {"handle", "send", "spins"}
    BY <1>3 DEF RpcInv, TasksInv, TaskOf
  <2>6. TypeOK
    BY <1>1, <1>3, <2>4, <2>5, SoundListeners, SoundTimers DEF TypeOK
  <2>7. DestroyedIdle
    <3> SUFFICES ASSUME cleaner # "running"
        PROVE  /\ tasks = {} /\ open = {} /\ ~publishing
               /\ \A a \in Addresses : scheduled[a] + accepting[a] = 0
      BY DEF DestroyedIdle
    <3>1. /\ tasks = {} /\ ~publishing /\ m_is_stop /\ stops = 0 /\ starts = MaxStarts
          /\ \A a \in Addresses : scheduled[a] = 0 /\ accepting[a] = 0
      BY <1>3 DEF RpcInv, DestroyInv
    <3>2. open = {}
      BY <1>1, <3>1 DEF TcpInv, ListenInv
    <3>3. QED
      BY <3>1, <3>2
  <2>8. QED
    BY <2>2, <2>3, <2>6, <2>7 DEF ServersSound
<1>4. QED
  BY <1>2, <1>3 DEF ServersInv

LEMMA ServersInvariant == Spec => []ServersInv
BY InitServersInv, KeepServersInv, PTL DEF Spec

\* However the bytes are split, the i-th answer of an HTTP connection whose
\* reads were tidy carries the i-th request's path and body, for any number
\* of clients, requests and changes to the servlets
\* (HttpSession::recv_request, http_parse.cpp).
THEOREM AnswersAreMatched == Spec => []AnswersMatch
BY ServersInvariant, ServersInvSound, PTL

\* Every answer of the RPC server is that of one request of that client which
\* had no answer, and a result just for a call of a registered method, in
\* whatever order the tasks ran (RpcServer::handle_client, handle_method_call).
THEOREM RepliesAreMatched == Spec => []RepliesMatch
BY ServersInvariant, ServersInvSound, PTL

\* The servers' states, and that a destroyed server has no fiber, task, lock
\* or listener left (RpcServer::~RpcServer, TcpServer::stop).
THEOREM ServersAreSound == Spec => []ServersSound
BY ServersInvariant, ServersInvSound, PTL
==============================================================================
