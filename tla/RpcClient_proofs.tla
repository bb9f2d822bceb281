--------------------------- MODULE RpcClient_proofs ---------------------------
(***************************************************************************)
(* Proofs about RpcClient for any callers and calls, any capacity of the   *)
(* sending channel and any number of sequence numbers: an answer reaches   *)
(* the call it answers, and the table of waiting calls is sound.  Both     *)
(* rest on NumberFree: the counter does not come round to a number that is *)
(* still in use, which is shown of a client that makes no more calls than  *)
(* there are numbers (FewCalls).                                           *)
(***************************************************************************)
EXTENDS RpcClient, FiniteSetTheorems, TLAPS

USE RpcClientAssumption DEF RpcClientAssumption

\* A request that is in m_channel, or that the server has or has answered.
UnderWay(m) == m \in net \/ \E j \in DOMAIN queue : queue[j] = m

\* The number the next call takes is not that of a call in progress, of an entry
\* of m_response_handle, or of a request or an answer still under way.
NumberFree ==
    (\E c \in Callers : pc[c] = "register") =>
        /\ seq \notin DOMAIN handle
        /\ \A c \in Callers : Calling(c) => id[c] # seq
        /\ \A m \in Requests : UnderWay(m) => m.id # seq
        /\ received # Null => received.id # seq

-----------------------------------------------------------------------------
\* Types, and the callers' positions.
Table(h) == DOMAIN h \subseteq Ids /\ h \in [DOMAIN h -> Calls]
Waiting(q) == q \in Seq(Requests \cup {Heartbeat}) /\ Len(q) <= Capacity

ClientTypes ==
    /\ client \in Clients
    /\ isClose \in BOOLEAN /\ heartClose \in BOOLEAN /\ queueOpen \in BOOLEAN
    /\ sender \in BOOLEAN /\ heart \in BOOLEAN /\ heard \in BOOLEAN
    /\ conn \in {"new", "up", "closed"} /\ mutex \in {"none", "user", "recv", "beat"}
    /\ closing \in SUBSET Calls /\ seq \in Ids
    /\ fired \in SUBSET Calls
    /\ recv \in {"off", "scheduled", "recv", "handle", "closing", "dropped", "end"}
    /\ received \in Answers \cup {Null}
    /\ beat \in {"idle", "closing", "push", "mark"} /\ user \in {"open", "done"}
    /\ peer \in BOOLEAN /\ net \in SUBSET (Requests \cup {Heartbeat})

CallTypes ==
    /\ pc \in [Callers -> {"idle", "register", "push", "wait", "erase"}]
    /\ call \in [Callers -> Nat]
    /\ id \in [Callers -> Ids]
    /\ box \in [Callers -> Answers \cup {Empty, Shut, Null}]
    /\ response \in [Callers -> Answers \cup {Null}]
    /\ late \in [Callers -> BOOLEAN] /\ timeout \in [Callers -> BOOLEAN]
    /\ timer \in SUBSET Callers

Positions ==
    /\ \A c \in Callers : call[c] <= client.calls[c]
    /\ \A c \in Callers : pc[c] # "idle" => call[c] >= 1
    /\ \A c \in timer : pc[c] = "wait"

Types == ClientTypes /\ CallTypes /\ Positions /\ Table(handle) /\ Waiting(queue)

LEMMA TypesTypeOK == Types => TypeOK
<1> SUFFICES ASSUME Types PROVE TypeOK
  OBVIOUS
<1>1. \A i \in DOMAIN queue : queue[i] \in Requests \cup {Heartbeat}
  BY DEF Types, Waiting
<1>2. \A i \in DOMAIN handle : handle[i] \in Calls
  BY DEF Types, Table
<1>3. \A c \in Callers : call[c] \in 0..client.calls[c]
  BY DEF Types, ClientTypes, CallTypes, Positions
<1>4. /\ {isClose, heartClose, queueOpen, sender, heart, heard} \subseteq BOOLEAN
      /\ {late, timeout} \subseteq [Callers -> BOOLEAN]
  BY DEF Types, ClientTypes, CallTypes
<1>5. \A c \in Callers :
        /\ id[c] \in Ids
        /\ box[c] \in Answers \cup {Empty, Shut, Null} /\ response[c] \in Answers \cup {Null}
  BY DEF Types, CallTypes
<1> HIDE DEF Ids, Answers, Requests, Calls
<1> QED
  BY <1>1, <1>2, <1>3, <1>4, <1>5 DEF Types, ClientTypes, CallTypes, Positions, Table, Waiting, TypeOK

\* The numbered calls of a client.
LEMMA CallPairs ==
    /\ \A k \in Calls : k[1] \in Callers /\ k[2] \in Nat /\ k[2] >= 1 /\ k = <<k[1], k[2]>>
    /\ \A k \in Clients : \A c \in Callers : \A n \in 1..k.calls[c] : <<c, n>> \in Calls
<1>1. ASSUME NEW k \in Calls
      PROVE  k[1] \in Callers /\ k[2] \in Nat /\ k[2] >= 1 /\ k = <<k[1], k[2]>>
  <2>1. PICK c \in Callers, b \in Clients : k \in {c} \X (1..b.calls[c])
    BY DEF Calls
  <2>2. QED
    BY <2>1
<1>2. ASSUME NEW k \in Clients, NEW c \in Callers, NEW n \in 1..k.calls[c]
      PROVE  <<c, n>> \in Calls
  <2> DEFINE own(b, d) == {b} \X (1..d.calls[b])
  <2>1. <<c, n>> \in own(c, k)
    OBVIOUS
  <2>2. Calls = UNION {own(b, d) : b \in Callers, d \in Clients}
    BY DEF Calls
  <2> HIDE DEF own
  <2>3. QED
    BY <2>1, <2>2
<1> QED
  BY <1>1, <1>2

LEMMA OwnCall ==
    ASSUME Types, NEW c \in Callers, call[c] >= 1
    PROVE  <<c, call[c]>> \in Calls
<1>1. client \in Clients /\ client.calls \in [Callers -> Nat] /\ call[c] \in 1..client.calls[c]
  BY DEF Types, ClientTypes, CallTypes, Positions
<1> QED
  BY <1>1, CallPairs

\* The messages are told apart by their kind.
LEMMA Kinds ==
    /\ \A m \in Requests : m.kind = "request" /\ m.id \in Ids /\ m.of \in Calls
    /\ \A a \in Answers : a.kind \in AnswerKinds /\ a.id \in Ids /\ a.of \in Calls
    /\ Heartbeat.kind = "heartbeat" /\ Null.kind = "null" /\ Empty.kind = "nothing"
    /\ Shut.kind = "closed"
    /\ \A i, k : Request(i, k).kind = "request" /\ Request(i, k).id = i /\ Request(i, k).of = k
    /\ \A i \in Ids : \A k \in Calls : Request(i, k) \in Requests
BY DEF Requests, Answers, Heartbeat, Null, Empty, Shut, Mark, Request

\* emplace() adds an entry, erase() removes one.
LEMMA Emplaced ==
    ASSUME Table(handle), NEW i \in Ids, NEW k \in Calls
    PROVE  Table(Emplace(i, k))
<1> HIDE DEF Ids, Calls
<1> QED
  BY DEF Table, Emplace

LEMMA Erased ==
    ASSUME Table(handle), NEW i
    PROVE  Table(Unregister(i))
BY DEF Table, Unregister

\* Puts a message into m_channel, unless it is closed.
LEMMA Offered ==
    ASSUME Waiting(queue), NEW m \in Requests \cup {Heartbeat}, Offer(m)
    PROVE  Waiting(queue')
<1> HIDE DEF Requests, Heartbeat
<1>1. CASE queueOpen
  <2>1. Len(queue) < Capacity /\ queue' = Append(queue, m)
    BY <1>1 DEF Offer
  <2>2. QED
    BY <2>1 DEF Waiting
<1>2. CASE ~queueOpen
  BY <1>2 DEF Offer
<1> QED
  BY <1>1, <1>2

LEMMA NoneWaiting == Waiting(<<>>) /\ Table(<<>>)
<1>1. Waiting(<<>>)
  BY DEF Waiting
<1>2. DOMAIN <<>> = {}
  OBVIOUS
<1>3. <<>> \in [DOMAIN <<>> -> Calls]
  OBVIOUS
<1> QED
  BY <1>1, <1>2, <1>3 DEF Table

-----------------------------------------------------------------------------
LEMMA InitTypes == Init => Types
<1> SUFFICES ASSUME Init PROVE Types
  OBVIOUS
<1> HIDE DEF Calls, Requests, Answers
<1>1. Waiting(queue) /\ Table(handle)
  BY NoneWaiting DEF Init
<1>2. \A c \in Callers : client.calls[c] \in Nat
  BY DEF Init
<1>3. 0 \in Ids
  BY DEF Ids
<1>4. ClientTypes
  BY <1>3 DEF Init, ClientTypes
<1>5. CallTypes
  BY <1>3 DEF Init, CallTypes
<1>6. Positions
  BY <1>2 DEF Init, Positions
<1> QED
  BY <1>1, <1>4, <1>5, <1>6 DEF Types

LEMMA CallerTypes ==
    ASSUME Types, NEW c \in Callers, Start(c) \/ Register(c) \/ Push(c) \/ Pop(c) \/ Return(c)
    PROVE  Types'
<1> HIDE DEF Calls, Requests, Answers, Table, Waiting, Empty, Shut, Null, Heartbeat
<1>1. CASE Start(c)
  <2>1. ClientTypes' /\ Table(handle)' /\ Waiting(queue)'
    BY <1>1 DEF Types, ClientTypes, Start, closeVars, timerVars, heartVars, netVars
  <2>2. client.calls[c] \in Nat
    BY DEF Types, ClientTypes
  <2>3. CallTypes' /\ Positions'
    BY <1>1, <2>2 DEF Types, CallTypes, Positions, Start, Goto, timerVars
  <2>4. QED
    BY <2>1, <2>3 DEF Types
<1>2. CASE Register(c)
  <2>1. <<c, call[c]>> \in Calls
    BY <1>2, OwnCall DEF Register, Types, Positions
  <2>2. handle' = Emplace(seq, <<c, call[c]>>)
    BY <1>2 DEF Register
  <2>3. Table(handle')
    BY <2>1, <2>2, Emplaced DEF Types, ClientTypes
  <2>4. seq' \in Ids
    BY <1>2 DEF Register, NextId, Ids, Types, ClientTypes
  <2>5. ClientTypes' /\ Waiting(queue)'
    BY <1>2, <2>4 DEF Types, ClientTypes, Register, closeVars, timerVars, heartVars, netVars
  <2>6. CallTypes' /\ Positions'
    BY <1>2 DEF Types, ClientTypes, CallTypes, Positions, Register, Goto, timerVars
  <2>7. QED
    BY <2>3, <2>5, <2>6 DEF Types
<1>3. CASE Push(c)
  <2>1. Request(id[c], <<c, call[c]>>) \in Requests
    BY <1>3, OwnCall, Kinds DEF Push, Types, CallTypes, Positions
  <2>2. Waiting(queue')
    BY <1>3, <2>1, Offered DEF Types, Push
  <2>3. ClientTypes' /\ Table(handle)'
    BY <1>3 DEF Types, ClientTypes, Push, closeVars, heartVars, netVars
  <2>4. CallTypes' /\ Positions'
    BY <1>3 DEF Types, CallTypes, Positions, Push, Goto
  <2>5. QED
    BY <2>2, <2>3, <2>4 DEF Types
<1>4. CASE Pop(c)
  <2>1. ClientTypes' /\ Table(handle)' /\ Waiting(queue)'
    BY <1>4 DEF Types, ClientTypes, Pop, closeVars, heartVars, netVars
  <2>2. CallTypes' /\ Positions'
    BY <1>4 DEF Types, CallTypes, Positions, Pop, Goto
  <2>3. QED
    BY <2>1, <2>2 DEF Types
<1>5. CASE Return(c)
  <2>1. Table(handle')
    BY <1>5, Erased DEF Types, Return
  <2>2. 0 \in Ids
    BY DEF Ids
  <2>3. ClientTypes' /\ Waiting(queue)'
    BY <1>5 DEF Types, ClientTypes, Return, closeVars, heartVars, netVars
  <2>4. CallTypes' /\ Positions'
    BY <1>5, <2>2 DEF Types, CallTypes, Positions, Return, Goto
  <2>5. QED
    BY <2>1, <2>3, <2>4 DEF Types
<1> QED
  BY <1>1, <1>2, <1>3, <1>4, <1>5

LEMMA TimerTypes ==
    ASSUME Types
    PROVE  /\ \A c \in Callers : Expire(c) => Types'
           /\ \A k \in fired : CallTimeout(k) => Types'
<1> HIDE DEF Calls, Requests, Answers, Table, Waiting, Empty, Shut, Null, Heartbeat
<1>1. ASSUME NEW c \in Callers, Expire(c) PROVE Types'
  <2>1. <<c, call[c]>> \in Calls
    BY <1>1, OwnCall DEF Expire, Types, Positions
  <2>2. ClientTypes' /\ Table(handle)' /\ Waiting(queue)'
    BY <1>1, <2>1 DEF Types, ClientTypes, Expire, closeVars, heartVars, netVars
  <2>3. CallTypes' /\ Positions'
    BY <1>1 DEF Types, CallTypes, Positions, Expire, callVars
  <2>4. QED
    BY <2>2, <2>3 DEF Types
<1>2. ASSUME NEW k \in fired, CallTimeout(k) PROVE Types'
  <2>1. k[1] \in Callers
    BY <1>2, CallPairs DEF Types, ClientTypes
  <2>2. ClientTypes' /\ Table(handle)' /\ Waiting(queue)'
    BY <1>2 DEF Types, ClientTypes, CallTimeout, closeVars, heartVars, netVars
  <2>3. box' \in [Callers -> Answers \cup {Empty, Shut, Null}]
    BY <1>2, <2>1 DEF Types, CallTypes, CallTimeout
  <2>4. timeout' \in [Callers -> BOOLEAN]
    <3>1. Calling(k[1]) \in BOOLEAN
      BY DEF Calling
    <3>2. \/ timeout' = timeout \/ timeout' = [timeout EXCEPT ![k[1]] = TRUE]
          \/ timeout' = [timeout EXCEPT ![k[1]] = Calling(k[1])]
      BY <1>2 DEF CallTimeout
    <3> HIDE DEF Calling
    <3>3. QED
      BY <2>1, <3>1, <3>2 DEF Types, CallTypes
  <2>5. CallTypes' /\ Positions'
    BY <1>2, <2>3, <2>4 DEF Types, CallTypes, Positions, CallTimeout, callVars
  <2>6. QED
    BY <2>2, <2>5 DEF Types
<1> QED
  BY <1>1, <1>2

LEMMA FiberTypes ==
    ASSUME Types
    PROVE  /\ Send \/ SenderEnd \/ RecvStart \/ RecvNull \/ HandleMethodResponse => Types'
           /\ \A m \in net : Recv(m) => Types'
<1> HIDE DEF Calls, Requests, Answers, Table, Waiting, Empty, Shut, Null, Heartbeat
<1>1. CASE Send
  <2>1. Head(queue) \in Requests \cup {Heartbeat} /\ Waiting(Tail(queue))
    BY <1>1 DEF Types, Send, Waiting
  <2>2. ClientTypes' /\ Table(handle)' /\ Waiting(queue)'
    BY <1>1, <2>1 DEF Types, ClientTypes, Send, closeVars, timerVars, heartVars
  <2>3. CallTypes' /\ Positions'
    BY <1>1 DEF Types, CallTypes, Positions, Send, callVars, timerVars
  <2>4. QED
    BY <2>2, <2>3 DEF Types
<1>2. CASE SenderEnd \/ RecvStart \/ RecvNull
  <2>1. ClientTypes' /\ Table(handle)' /\ Waiting(queue)'
    <3>1. CASE SenderEnd
      <4>1. /\ sender' \in BOOLEAN
            /\ UNCHANGED <<client, conn, closeVars, handle, seq, queue, queueOpen, fired, recv,
                           received, heartVars, user, netVars>>
        BY <3>1 DEF SenderEnd, timerVars
      <4>2. QED
        BY <4>1 DEF Types, ClientTypes, closeVars, heartVars, netVars
    <3>2. CASE RecvStart
      BY <3>2 DEF Types, ClientTypes, RecvStart, closeVars, timerVars, heartVars, netVars
    <3>3. CASE RecvNull
      BY <3>3 DEF Types, ClientTypes, RecvNull, closeVars, timerVars, heartVars, netVars
    <3>4. QED
      BY <1>2, <3>1, <3>2, <3>3
  <2>2. CallTypes' /\ Positions'
    BY <1>2 DEF Types, CallTypes, Positions, SenderEnd, RecvStart, RecvNull, callVars, timerVars
  <2>3. QED
    BY <2>1, <2>2 DEF Types
<1>3. CASE HandleMethodResponse
  <2>1. box' \in [Callers -> Answers \cup {Empty, Shut, Null}]
    <3>1. CASE box' = box
      BY <3>1 DEF Types, CallTypes
    <3>2. CASE box' # box
      <4>1. /\ received.id \in DOMAIN handle
            /\ box[handle[received.id][1]] = Empty
            /\ box' = [box EXCEPT ![handle[received.id][1]] = received]
        BY <1>3, <3>2 DEF HandleMethodResponse
      <4>2. received \in Answers \cup {Empty, Shut, Null}
        BY DEF Types, ClientTypes
      <4>3. QED
        BY <4>1, <4>2 DEF Types, CallTypes
    <3>3. QED
      BY <3>1, <3>2
  <2>2. ClientTypes' /\ Table(handle)' /\ Waiting(queue)'
    BY <1>3 DEF Types, ClientTypes, HandleMethodResponse, closeVars, timerVars, heartVars, netVars
  <2>3. CallTypes' /\ Positions'
    BY <1>3, <2>1 DEF Types, CallTypes, Positions, HandleMethodResponse, callVars, timerVars
  <2>4. QED
    BY <2>2, <2>3 DEF Types
<1>4. ASSUME NEW m \in net, Recv(m) PROVE Types'
  <2>1. received' \in Answers \cup {Null}
    <3>1. CASE m = Heartbeat
      BY <1>4, <3>1 DEF Types, ClientTypes, Recv
    <3>2. CASE m # Heartbeat
      <4>1. PICK k \in AnswerKinds : received' = [m EXCEPT !.kind = k]
        BY <1>4, <3>2 DEF Recv
      <4>2. m \in Requests
        BY <3>2 DEF Types, ClientTypes
      <4>3. received' \in Answers
        BY <4>1, <4>2 DEF Requests, Answers
      <4>4. QED
        BY <4>3
    <3>3. QED
      BY <3>1, <3>2
  <2>2. recv' \in {"recv", "handle"}
    BY <1>4 DEF Recv
  <2>3. ClientTypes' /\ Table(handle)' /\ Waiting(queue)'
    BY ZenonT(40), <1>4, <2>1, <2>2 DEF Types, ClientTypes, Recv, closeVars, timerVars
  <2>4. CallTypes' /\ Positions'
    BY <1>4 DEF Types, CallTypes, Positions, Recv, callVars, timerVars
  <2>5. QED
    BY <2>3, <2>4 DEF Types
<1> QED
  BY <1>1, <1>2, <1>3, <1>4

LEMMA CloseTypes ==
    ASSUME Types
    PROVE  /\ \A w \in {"user", "recv", "beat"} : CloseAgain(w) \/ CloseBegin(w) => Types'
           /\ \A k \in closing : ClosePush(k) => Types'
           /\ CloseEnd \/ BeatTick \/ BeatPush \/ BeatMark \/ PeerGone \/ Connect => Types'
<1> HIDE DEF Calls, Requests, Answers, Table, Waiting, Empty, Shut, Null, Heartbeat
<1>1. ASSUME NEW w \in {"user", "recv", "beat"}, CloseAgain(w) PROVE Types'
  <2>1. ClientTypes' /\ Table(handle)' /\ Waiting(queue)'
    BY <1>1 DEF Types, ClientTypes, CloseAgain, CanClose, Closed, closeVars, timerVars, netVars
  <2>2. CallTypes' /\ Positions'
    BY <1>1 DEF Types, CallTypes, Positions, CloseAgain, callVars, timerVars
  <2>3. QED
    BY <2>1, <2>2 DEF Types
<1>2. ASSUME NEW w \in {"user", "recv", "beat"}, CloseBegin(w) PROVE Types'
  <2>1. closing' \in SUBSET Calls
    BY <1>2 DEF Types, Table, CloseBegin
  <2>2. Waiting(queue')
    BY <1>2, NoneWaiting DEF CloseBegin
  <2>3. ClientTypes' /\ Table(handle)'
    <3>1. /\ isClose' \in BOOLEAN /\ heartClose' \in BOOLEAN /\ queueOpen' \in BOOLEAN
          /\ mutex' \in {"user", "recv", "beat"}
          /\ UNCHANGED <<client, conn, handle, seq, fired, recv, received, sender, heart, beat,
                         heard, user, netVars>>
      BY <1>2 DEF CloseBegin, timerVars
    <3>2. QED
      BY <2>1, <3>1 DEF Types, ClientTypes, netVars
  <2>4. CallTypes' /\ Positions'
    BY <1>2 DEF Types, CallTypes, Positions, CloseBegin, callVars, timerVars
  <2>5. QED
    BY <2>2, <2>3, <2>4 DEF Types
<1>3. ASSUME NEW k \in closing, ClosePush(k) PROVE Types'
  <2>1. box' = box \/ box' = [box EXCEPT ![k[1]] = Null]
    BY <1>3 DEF ClosePush
  <2>2. ClientTypes' /\ Table(handle)' /\ Waiting(queue)'
    BY <1>3 DEF Types, ClientTypes, ClosePush, timerVars, heartVars, netVars
  <2>3. CallTypes' /\ Positions'
    BY <1>3, <2>1 DEF Types, CallTypes, Positions, ClosePush, callVars, timerVars
  <2>4. QED
    BY <2>2, <2>3 DEF Types
<1>4. CASE CloseEnd
  <2>1. Table(handle')
    BY <1>4, NoneWaiting DEF CloseEnd
  <2>2. ClientTypes' /\ Waiting(queue)'
    BY ZenonT(40), <1>4 DEF Types, ClientTypes, CloseEnd, Closed, timerVars, netVars
  <2>3. CallTypes' /\ Positions'
    BY <1>4 DEF Types, CallTypes, Positions, CloseEnd, callVars, timerVars
  <2>4. QED
    BY <2>1, <2>2, <2>3 DEF Types
<1>5. CASE BeatTick \/ BeatMark \/ PeerGone
  <2>1. ClientTypes' /\ Table(handle)' /\ Waiting(queue)'
    <3>1. CASE BeatTick
      BY <3>1 DEF Types, ClientTypes, BeatTick, closeVars, timerVars, netVars
    <3>2. CASE BeatMark
      BY <3>2 DEF Types, ClientTypes, BeatMark, closeVars, timerVars, netVars
    <3>3. CASE PeerGone
      <4>1. /\ peer' \in BOOLEAN
            /\ UNCHANGED <<client, conn, closeVars, handle, seq, queue, queueOpen, fired, recv,
                           received, sender, heartVars, user, net>>
        BY <3>3 DEF PeerGone, timerVars
      <4>2. QED
        BY <4>1 DEF Types, ClientTypes, closeVars, heartVars
    <3>4. QED
      BY <1>5, <3>1, <3>2, <3>3
  <2>2. CallTypes' /\ Positions'
    BY <1>5 DEF Types, CallTypes, Positions, BeatTick, BeatMark, PeerGone, callVars, timerVars
  <2>3. QED
    BY <2>1, <2>2 DEF Types
<1>6. CASE BeatPush
  <2>1. Waiting(queue')
    <3>1. Offer(Heartbeat)
      BY <1>6 DEF BeatPush
    <3>2. QED
      BY <3>1, Offered DEF Types
  <2>2. ClientTypes' /\ Table(handle)'
    <3>1. /\ heard' \in BOOLEAN /\ beat' = "mark"
          /\ UNCHANGED <<client, conn, closeVars, handle, seq, queueOpen, fired, recv, received,
                         sender, heart, heartClose, user, netVars>>
      BY <1>6 DEF BeatPush, timerVars
    <3>2. QED
      BY <3>1 DEF Types, ClientTypes, closeVars, netVars
  <2>3. CallTypes' /\ Positions'
    BY <1>6 DEF Types, CallTypes, Positions, BeatPush, callVars, timerVars
  <2>4. QED
    BY <2>1, <2>2, <2>3 DEF Types
<1>7. CASE Connect
  <2>1. Waiting(queue')
    BY <1>7, NoneWaiting DEF Connect
  <2>2. client.auto \in BOOLEAN
    BY DEF Types, ClientTypes
  <2>3. ClientTypes' /\ Table(handle)'
    BY <1>7, <2>2 DEF Types, ClientTypes, Connect, timerVars, netVars
  <2>4. CallTypes' /\ Positions'
    BY <1>7 DEF Types, CallTypes, Positions, Connect, callVars, timerVars
  <2>5. QED
    BY <2>1, <2>3, <2>4 DEF Types
<1> QED
  BY <1>1, <1>2, <1>3, <1>4, <1>5, <1>6, <1>7

LEMMA NextTypes == Types /\ [Next]_vars => Types'
<1> SUFFICES ASSUME Types, [Next]_vars PROVE Types'
  OBVIOUS
<1>1. CASE UNCHANGED vars
  BY <1>1 DEF Types, ClientTypes, CallTypes, Positions, Table, Waiting, vars, closeVars, callVars,
              timerVars, heartVars, netVars
<1>2. CASE Next
  BY <1>2, CallerTypes, TimerTypes, FiberTypes, CloseTypes DEF Next, Caller, Receiver, Closer, Beat
<1> QED
  BY <1>1, <1>2

-----------------------------------------------------------------------------
(* An answer reaches its call *)

Own(c) == <<c, call[c]>>

\* What close() has done, and what it and the timer have told a call.
Told(c) ==
    /\ ~Calling(c) => box[c] = Empty /\ response[c] = Null /\ ~late[c]
    /\ late[c] => isClose /\ mutex = "none"
    /\ box[c] = Shut => timeout[c]
    /\ box[c] = Null => isClose /\ ~late[c] /\ Own(c) \notin closing
    /\ pc[c] = "erase" /\ response[c] = Null => timeout[c] \/ isClose

CloseInv ==
    /\ conn = "new" => /\ isClose /\ mutex = "none" /\ closing = {} /\ DOMAIN handle = {}
                       /\ \A c \in Callers : pc[c] = "idle"
    /\ mutex # "none" => isClose
    /\ closing # {} => mutex # "none"
    /\ recv = "handle" => received # Null
    /\ \A c \in Callers : Told(c)

\* A number leads to one call: the one that took it, the one whose request or
\* answer carries it.
Numbered(c) == Calling(c) /\ id[c] \in DOMAIN handle => handle[id[c]] = Own(c)
Given(c) ==
    /\ box[c] \in Answers => box[c].of = Own(c)
    /\ response[c] \in Answers => response[c].of = Own(c)

OwnInv ==
    /\ \A c \in Callers : Numbered(c) /\ Given(c)
    /\ \A m \in Requests : UnderWay(m) /\ m.id \in DOMAIN handle => handle[m.id] = m.of
    /\ received # Null /\ received.id \in DOMAIN handle => handle[received.id] = received.of

AnswerInv == Types /\ CloseInv /\ OwnInv

LEMMA Apart ==
    /\ Empty # Shut /\ Empty # Null /\ Shut # Null
    /\ Empty \notin Answers /\ Shut \notin Answers /\ Null \notin Answers
    /\ Heartbeat \notin Requests /\ Null \notin Requests
<1> HIDE DEF Answers, Requests, Empty, Shut, Null, Heartbeat
<1>1. Empty # Shut /\ Empty # Null /\ Shut # Null
  BY Kinds
<1>2. AnswerKinds \subseteq {"value", "empty", "mismatch"}
  BY RpcClientAssumption DEF RpcClientAssumption
<1>3. Empty \notin Answers
  BY Kinds, <1>2
<1>4. Shut \notin Answers
  BY Kinds, <1>2
<1>5. Null \notin Answers /\ Null \notin Requests /\ Heartbeat \notin Requests
  BY Kinds, <1>2
<1> QED
  BY <1>1, <1>3, <1>4, <1>5

LEMMA InitClose == Init => CloseInv
BY Apart DEF Init, CloseInv, Told, Calling

LEMMA CallerClose ==
    ASSUME Types, CloseInv, NEW c \in Callers,
           Start(c) \/ Register(c) \/ Push(c) \/ Pop(c) \/ Return(c)
    PROVE  CloseInv'
<1> HIDE DEF Calls, Requests, Answers, Table, Waiting, Empty, Shut, Null, Heartbeat
<1> USE DEF Types, CallTypes
<1>1. CASE Start(c)
  <2>1. ASSUME NEW d \in Callers PROVE Told(d)'
    <3>1. /\ UNCHANGED <<closing, isClose, mutex, late, response, box, timeout>>
          /\ ~Calling(c) /\ \A b \in Callers : Calling(b)' <=> Calling(b)
          /\ \A b \in Callers : b # c => Own(b)' = Own(b) /\ pc'[b] = pc[b]
          /\ pc'[c] \in {"idle", "register"}
      BY <1>1 DEF Calling, Own, Start, Goto, closeVars, timerVars
    <3>2. QED
      BY <3>1, Apart DEF CloseInv, Told
  <2>2. QED
    BY <1>1, <2>1 DEF CloseInv, Start, Goto, closeVars
<1>2. CASE Register(c)
  <2>1. ASSUME NEW d \in Callers PROVE Told(d)'
    BY <1>2, <2>1, Apart DEF CloseInv, Told, Own, Calling, Register, Goto, closeVars, timerVars
  <2>2. QED
    BY <1>2, <2>1 DEF CloseInv, Register, Goto, closeVars
<1>3. CASE Push(c)
  <2>1. ASSUME NEW d \in Callers PROVE Told(d)'
    BY <1>3, <2>1 DEF CloseInv, Told, Own, Calling, Push, Goto, closeVars, timerVars
  <2>2. QED
    BY <1>3, <2>1 DEF CloseInv, Push, Goto, closeVars
<1>4. CASE Pop(c)
  <2>1. ASSUME NEW d \in Callers PROVE Told(d)'
    BY <1>4, <2>1, Apart DEF CloseInv, Told, Own, Calling, Pop, Goto, closeVars, timerVars
  <2>2. QED
    BY <1>4, <2>1 DEF CloseInv, Pop, Goto, closeVars
<1>5. CASE Return(c)
  <2>1. ASSUME NEW d \in Callers PROVE Told(d)'
    BY <1>5, <2>1, Apart DEF CloseInv, Told, Own, Calling, Return, Goto, closeVars, timerVars
  <2>2. QED
    BY <1>5, <2>1 DEF CloseInv, Return, Goto, closeVars
<1> QED
  BY <1>1, <1>2, <1>3, <1>4, <1>5

LEMMA TimerClose ==
    ASSUME Types, CloseInv
    PROVE  /\ \A c \in Callers : Expire(c) => CloseInv'
           /\ \A k \in fired : CallTimeout(k) => CloseInv'
<1> HIDE DEF Calls, Requests, Answers, Table, Waiting, Empty, Shut, Null, Heartbeat
<1> USE DEF Types, CallTypes
<1>1. ASSUME NEW c \in Callers, Expire(c) PROVE CloseInv'
  BY <1>1 DEF CloseInv, Told, Own, Calling, Expire, closeVars, callVars
<1>2. ASSUME NEW k \in fired, CallTimeout(k) PROVE CloseInv'
  <2>1. k[1] \in Callers
    BY CallPairs DEF ClientTypes
  <2>2. ASSUME NEW d \in Callers PROVE Told(d)'
    <3>1. UNCHANGED <<pc, call, late, response, isClose, mutex, closing>>
      BY <1>2 DEF CallTimeout, callVars, closeVars
    <3>2. CASE d # k[1]
      <4>1. box'[d] = box[d] /\ timeout'[d] = timeout[d]
        BY <1>2, <2>1, <3>2 DEF CallTimeout
      <4>2. QED
        BY <3>1, <4>1 DEF CloseInv, Told, Own, Calling
    <3>3. CASE d = k[1] /\ Current(k)
      <4>1. box'[d] = Shut /\ timeout'[d] = TRUE /\ Calling(d)
        BY <1>2, <2>1, <3>3 DEF CallTimeout, Current
      <4>2. QED
        BY <3>1, <4>1, Apart DEF CloseInv, Told, Own, Calling
    <3>4. CASE d = k[1] /\ ~Current(k)
      <4>1. box'[d] = box[d]
        BY <1>2, <3>4 DEF CallTimeout
      <4>2. timeout'[d] = timeout[d] \/ timeout'[d] = Calling(d)
        BY <1>2, <2>1, <3>4 DEF CallTimeout
      <4>3. Calling(d) => (timeout[d] => timeout'[d])
        BY <4>2
      <4>4. ~Calling(d) => Told(d)'
        BY <3>1, <4>1, Apart DEF CloseInv, Told, Own, Calling
      <4>5. Calling(d) => Told(d)'
        BY <3>1, <4>1, <4>3, Apart DEF CloseInv, Told, Own, Calling
      <4>6. QED
        BY <4>4, <4>5
    <3>5. QED
      BY <3>2, <3>3, <3>4
  <2>3. QED
    BY <1>2, <2>2 DEF CloseInv, CallTimeout, closeVars, callVars
<1> QED
  BY <1>1, <1>2

LEMMA FiberClose ==
    ASSUME Types, CloseInv
    PROVE  /\ Send \/ SenderEnd \/ RecvStart \/ RecvNull \/ HandleMethodResponse => CloseInv'
           /\ \A m \in net : Recv(m) => CloseInv'
<1> HIDE DEF Calls, Requests, Answers, Table, Waiting, Empty, Shut, Null, Heartbeat
<1> USE DEF Types, CallTypes
<1>1. ASSUME UNCHANGED <<conn, isClose, mutex, closing, handle, pc, call, late, response, box, timeout>>
      PROVE  (recv' = "handle" => received' # Null) => CloseInv'
  BY <1>1 DEF CloseInv, Told, Own, Calling
<1>2. CASE Send \/ SenderEnd \/ RecvStart \/ RecvNull
  BY <1>1, <1>2 DEF CloseInv, Send, SenderEnd, RecvStart, RecvNull, closeVars, callVars, timerVars
<1>3. ASSUME NEW m \in net, Recv(m) PROVE CloseInv'
  <2>1. UNCHANGED <<conn, isClose, mutex, closing, handle, pc, call, late, response, box, timeout>>
    BY <1>3 DEF Recv, closeVars, callVars, timerVars
  <2>2. CASE m = Heartbeat
    BY <1>1, <1>3, <2>1, <2>2 DEF Recv, CloseInv
  <2>3. CASE m # Heartbeat
    <3>1. PICK k \in AnswerKinds : received' = [m EXCEPT !.kind = k]
      BY <1>3, <2>3 DEF Recv
    <3>2. m \in Requests
      BY <2>3 DEF ClientTypes
    <3>3. received' \in Answers
      BY <3>1, <3>2 DEF Requests, Answers
    <3>4. QED
      BY <1>1, <2>1, <3>3, Apart
  <2>4. QED
    BY <2>2, <2>3
<1>4. CASE HandleMethodResponse
  <2>1. UNCHANGED <<conn, isClose, mutex, closing, handle, pc, call, late, response, timeout>>
    BY <1>4 DEF HandleMethodResponse, closeVars, callVars, timerVars
  <2>2. CASE box' = box
    <3>1. recv' = "recv"
      BY <1>4 DEF HandleMethodResponse
    <3>2. QED
      BY <1>1, <2>1, <2>2, <3>1
  <2>3. CASE box' # box
    <3> DEFINE k == handle[received.id]
    <3>1. /\ received.id \in DOMAIN handle /\ Current(k)
          /\ box' = [box EXCEPT ![k[1]] = received] /\ recv = "handle"
      BY <1>4, <2>3 DEF HandleMethodResponse
    <3>2. PICK r : r = k
      OBVIOUS
    <3>3. r \in Calls /\ r[1] \in Callers
      BY <3>1, <3>2, CallPairs DEF Table
    <3>4. received \in Answers /\ recv' = "recv"
      BY <1>4, <3>1 DEF CloseInv, ClientTypes, HandleMethodResponse
    <3>5. /\ box'[r[1]] = received /\ Calling(r[1])
          /\ \A d \in Callers : d # r[1] => box'[d] = box[d]
      BY <3>1, <3>2, <3>3 DEF Current
    <3>6. ASSUME NEW d \in Callers PROVE Told(d)'
      BY <2>1, <3>4, <3>5, Apart DEF CloseInv, Told, Own, Calling
    <3>7. QED
      BY <2>1, <3>4, <3>6 DEF CloseInv
  <2>4. QED
    BY <2>2, <2>3
<1> QED
  BY <1>2, <1>3, <1>4

LEMMA CloserClose ==
    ASSUME Types, CloseInv
    PROVE  /\ \A w \in {"user", "recv", "beat"} : CloseAgain(w) \/ CloseBegin(w) => CloseInv'
           /\ \A k \in closing : ClosePush(k) => CloseInv'
           /\ CloseEnd \/ BeatTick \/ BeatPush \/ BeatMark \/ PeerGone \/ Connect => CloseInv'
<1> HIDE DEF Calls, Requests, Answers, Table, Waiting, Empty, Shut, Null, Heartbeat
<1> USE DEF Types, CallTypes
<1>1. ASSUME NEW w \in {"user", "recv", "beat"}, CloseAgain(w) PROVE CloseInv'
  <2>1. UNCHANGED <<conn, isClose, mutex, closing, handle, pc, call, late, response, box, timeout, received>>
    BY <1>1 DEF CloseAgain, closeVars, callVars, timerVars
  <2>2. recv' \in {recv, "end"}
    BY <1>1 DEF CloseAgain, Closed
  <2>3. QED
    BY <2>1, <2>2 DEF CloseInv, Told, Own, Calling
<1>2. ASSUME NEW w \in {"user", "recv", "beat"}, CloseBegin(w) PROVE CloseInv'
  <2>1. /\ UNCHANGED <<conn, handle, pc, call, late, response, box, timeout, recv, received>>
        /\ mutex = "none" /\ ~isClose /\ mutex' = w /\ isClose'
    BY <1>2 DEF CloseBegin, callVars, timerVars
  <2>2. ASSUME NEW d \in Callers PROVE Told(d)'
    BY <2>1 DEF CloseInv, Told, Own, Calling
  <2>3. QED
    BY <2>1, <2>2 DEF CloseInv
<1>3. ASSUME NEW k \in closing, ClosePush(k) PROVE CloseInv'
  <2>1. /\ UNCHANGED <<conn, isClose, mutex, handle, pc, call, late, response, timeout, recv, received>>
        /\ closing' = closing \ {k} /\ mutex # "none"
    BY <1>3 DEF CloseInv, ClosePush, callVars, timerVars
  <2>2. k[1] \in Callers /\ k = <<k[1], k[2]>>
    BY <1>3, CallPairs DEF ClientTypes
  <2>3. CASE box' = box
    BY <2>1, <2>3 DEF CloseInv, Told, Own, Calling
  <2>4. CASE box' # box
    <3>1. Current(k) /\ box' = [box EXCEPT ![k[1]] = Null]
      BY <1>3, <2>4 DEF ClosePush
    <3>2. /\ box'[k[1]] = Null /\ Calling(k[1]) /\ Own(k[1]) = k
          /\ \A d \in Callers : d # k[1] => box'[d] = box[d]
      BY <2>2, <3>1 DEF Current, Own
    <3>3. ASSUME NEW d \in Callers PROVE Told(d)'
      BY <2>1, <3>2, Apart DEF CloseInv, Told, Own, Calling
    <3>4. QED
      BY <2>1, <3>3 DEF CloseInv
  <2>5. QED
    BY <2>3, <2>4
<1>4. CASE CloseEnd
  <2>1. /\ UNCHANGED <<isClose, closing, pc, call, late, response, box, timeout, received>>
        /\ mutex # "none" /\ mutex' = "none" /\ closing = {} /\ conn' = "closed"
    BY <1>4 DEF CloseEnd, callVars, timerVars
  <2>2. recv' \in {recv, "end", "dropped"}
    BY <1>4 DEF CloseEnd, Closed
  <2>3. ASSUME NEW d \in Callers PROVE Told(d)'
    BY <2>1 DEF CloseInv, Told, Own, Calling
  <2>4. QED
    BY <2>1, <2>2, <2>3 DEF CloseInv
<1>5. CASE BeatTick \/ BeatPush \/ BeatMark \/ PeerGone
  <2>1. UNCHANGED <<conn, isClose, mutex, closing, handle, pc, call, late, response, box, timeout,
                    recv, received>>
    BY <1>5 DEF BeatTick, BeatPush, BeatMark, PeerGone, closeVars, callVars, timerVars
  <2>2. QED
    BY <2>1 DEF CloseInv, Told, Own, Calling
<1>6. CASE Connect
  <2>1. /\ UNCHANGED <<mutex, closing, handle, pc, call, late, response, box, timeout, received>>
        /\ conn = "new" /\ conn' = "up" /\ recv' = "scheduled"
    BY <1>6 DEF Connect, callVars, timerVars
  <2>2. ASSUME NEW d \in Callers PROVE Told(d)'
    BY <2>1, Apart DEF CloseInv, Told, Own, Calling
  <2>3. QED
    BY <2>1, <2>2 DEF CloseInv
<1> QED
  BY <1>1, <1>2, <1>3, <1>4, <1>5, <1>6

LEMMA NextClose == Types /\ CloseInv /\ [Next]_vars => CloseInv'
<1> SUFFICES ASSUME Types, CloseInv, [Next]_vars PROVE CloseInv'
  OBVIOUS
<1>1. CASE UNCHANGED vars
  BY <1>1 DEF CloseInv, Told, Own, Calling, vars, closeVars, callVars, timerVars
<1>2. CASE Next
  BY <1>2, CallerClose, TimerClose, FiberClose, CloserClose DEF Next, Caller, Receiver, Closer, Beat
<1> QED
  BY <1>1, <1>2

\* What is under way after a step.
LEMMA Carried ==
    ASSUME Types
    PROVE  /\ net' \subseteq net /\ queue' \in {queue, <<>>} =>
                \A m \in Requests : UnderWay(m)' => UnderWay(m)
           /\ Send => \A m \in Requests : UnderWay(m)' => UnderWay(m)
           /\ \A x \in Requests \cup {Heartbeat} : Offer(x) /\ net' = net =>
                \A m \in Requests : UnderWay(m)' => UnderWay(m) \/ m = x
<1> HIDE DEF Requests, Heartbeat
<1>1. ASSUME net' \subseteq net, queue' \in {queue, <<>>}, NEW m \in Requests, UnderWay(m)'
      PROVE  UnderWay(m)
  BY <1>1 DEF UnderWay
<1>2. ASSUME Send, NEW m \in Requests, UnderWay(m)'
      PROVE  UnderWay(m)
  <2>1. queue \in Seq(Requests \cup {Heartbeat}) /\ queue # <<>> /\ queue' = Tail(queue)
    BY <1>2 DEF Types, Waiting, Send
  <2>2. Head(queue) = queue[1] /\ 1 \in DOMAIN queue
    BY <2>1
  <2>3. \A j \in DOMAIN Tail(queue) : j + 1 \in DOMAIN queue /\ Tail(queue)[j] = queue[j + 1]
    BY <2>1
  <2>4. m \in net' => m \in net \/ m = queue[1]
    BY <1>2, <2>2 DEF Send
  <2>5. QED
    BY <1>2, <2>1, <2>2, <2>3, <2>4 DEF UnderWay
<1>3. ASSUME NEW x \in Requests \cup {Heartbeat}, Offer(x), net' = net, NEW m \in Requests, UnderWay(m)'
      PROVE  UnderWay(m) \/ m = x
  <2>1. CASE queue' = queue
    BY <1>3, <2>1 DEF UnderWay
  <2>2. CASE queue' = Append(queue, x)
    <3>1. queue \in Seq(Requests \cup {Heartbeat})
      BY DEF Types, Waiting
    <3>2. \A j \in DOMAIN Append(queue, x) :
            (j \in DOMAIN queue /\ Append(queue, x)[j] = queue[j]) \/ Append(queue, x)[j] = x
      BY <3>1
    <3>3. QED
      BY <1>3, <2>2, <3>2 DEF UnderWay
  <2>3. QED
    BY <1>3, <2>1, <2>2 DEF Offer
<1> QED
  BY <1>1, <1>2, <1>3

\* Entries that remain keep their call.
LEMMA OwnKept ==
    ASSUME Types, OwnInv, UNCHANGED received,
           DOMAIN handle' \subseteq DOMAIN handle,
           \A i \in DOMAIN handle' : handle'[i] = handle[i],
           \A m \in Requests : UnderWay(m)' => UnderWay(m)
    PROVE  (\A c \in Callers : Numbered(c)' /\ Given(c)') => OwnInv'
<1> HIDE DEF Requests, Null, UnderWay
<1> QED
  BY DEF OwnInv

LEMMA InitOwn == Init => OwnInv
<1> HIDE DEF Requests, Answers, Empty, Null
<1> SUFFICES ASSUME Init PROVE OwnInv
  OBVIOUS
<1>1. DOMAIN handle = {}
  BY DEF Init
<1> QED
  BY <1>1, Apart DEF Init, OwnInv, Numbered, Given, Calling

LEMMA CallerOwn ==
    ASSUME Types, CloseInv, OwnInv, NumberFree, NEW c \in Callers,
           Start(c) \/ Register(c) \/ Push(c) \/ Pop(c) \/ Return(c)
    PROVE  OwnInv'
<1> HIDE DEF Calls, Requests, Answers, Table, Waiting, Empty, Shut, Null, Heartbeat, UnderWay
<1> USE DEF Types, CallTypes
<1>1. CASE Start(c)
  <2>1. UNCHANGED <<handle, queue, net, received, id, box, response>>
    BY <1>1 DEF Start, netVars
  <2>2. ASSUME NEW d \in Callers PROVE Numbered(d)' /\ Given(d)'
    <3>1. CASE d = c
      <4>1. ~Calling(c) /\ ~Calling(c)' /\ box'[c] \notin Answers /\ response'[c] \notin Answers
        BY ZenonT(40), <1>1, <2>1, Apart DEF CloseInv, Told, Calling, Start, Goto
      <4>2. QED
        BY <3>1, <4>1 DEF Numbered, Given
    <3>2. CASE d # c
      <4>1. Own(d)' = Own(d) /\ (Calling(d)' <=> Calling(d))
        BY <1>1, <3>2 DEF Own, Calling, Start, Goto
      <4>2. QED
        BY <2>1, <4>1 DEF OwnInv, Numbered, Given
    <3>3. QED
      BY <3>1, <3>2
  <2>3. QED
    BY <2>1, <2>2, OwnKept, Carried
<1>2. CASE Register(c)
  <2>1. /\ UNCHANGED <<queue, net, received, box, response, call>>
        /\ handle' = Emplace(seq, Own(c)) /\ pc[c] = "register"
        /\ id' = [id EXCEPT ![c] = seq]
    BY <1>2 DEF Own, Register, netVars
  <2>2. /\ seq \notin DOMAIN handle /\ \A d \in Callers : Calling(d) => id[d] # seq
        /\ \A m \in Requests : UnderWay(m) => m.id # seq
        /\ received # Null => received.id # seq
    BY <2>1 DEF NumberFree
  <2>3. /\ DOMAIN handle' = DOMAIN handle \cup {seq} /\ handle'[seq] = Own(c)
        /\ \A i \in DOMAIN handle : handle'[i] = handle[i]
    BY <2>1, <2>2 DEF Emplace
  <2>4. \A m \in Requests : UnderWay(m)' => UnderWay(m)
    BY <2>1, Carried
  <2>5. ASSUME NEW d \in Callers PROVE Numbered(d)' /\ Given(d)'
    <3>1. Own(d)' = Own(d)
      BY <2>1 DEF Own
    <3>2. Numbered(d)'
      <4>1. CASE d = c
        <5>1. id'[c] = seq
          BY <2>1
        <5>2. QED
          BY <2>3, <3>1, <4>1, <5>1 DEF Numbered
      <4>2. CASE d # c
        <5>1. id'[d] = id[d] /\ (Calling(d)' <=> Calling(d))
          BY <1>2, <4>2 DEF Calling, Register, Goto
        <5>2. QED
          BY <2>2, <2>3, <3>1, <5>1 DEF OwnInv, Numbered
      <4>3. QED
        BY <4>1, <4>2
    <3>3. QED
      BY <2>1, <3>1, <3>2 DEF OwnInv, Given
  <2>6. \A m \in Requests : UnderWay(m)' /\ m.id \in DOMAIN handle' => handle'[m.id] = m.of
    BY <2>2, <2>3, <2>4 DEF OwnInv
  <2>7. received' # Null /\ received'.id \in DOMAIN handle' => handle'[received'.id] = received'.of
    BY <2>1, <2>2, <2>3 DEF OwnInv
  <2>8. QED
    BY <2>5, <2>6, <2>7 DEF OwnInv
<1>3. CASE Push(c)
  <2> DEFINE x == Request(id[c], Own(c))
  <2>1. /\ UNCHANGED <<handle, net, received, id, box, response, call>> /\ Offer(x)
        /\ pc[c] = "push"
    BY <1>3 DEF Own, Push, netVars
  <2>2. x \in Requests /\ x.id = id[c] /\ x.of = Own(c)
    BY <2>1, OwnCall, Kinds DEF Own, Positions
  <2> HIDE DEF x
  <2>3. \A m \in Requests : UnderWay(m)' => UnderWay(m) \/ m = x
    BY <2>1, <2>2, Carried
  <2>4. ASSUME NEW d \in Callers PROVE Numbered(d)' /\ Given(d)'
    <3>1. Own(d)' = Own(d) /\ (Calling(d)' <=> Calling(d))
      BY <1>3, <2>1 DEF Own, Calling, Push, Goto
    <3>2. QED
      BY <2>1, <3>1 DEF OwnInv, Numbered, Given
  <2>5. x.id \in DOMAIN handle => handle[x.id] = x.of
    BY <2>1, <2>2 DEF OwnInv, Numbered, Calling
  <2>6. \A m \in Requests : UnderWay(m)' /\ m.id \in DOMAIN handle' => handle'[m.id] = m.of
    BY <2>1, <2>3, <2>5 DEF OwnInv
  <2>7. QED
    BY <2>1, <2>4, <2>6 DEF OwnInv
<1>4. CASE Pop(c)
  <2>1. UNCHANGED <<handle, queue, net, received, id, call>>
    BY <1>4 DEF Pop, netVars
  <2>2. ASSUME NEW d \in Callers PROVE Numbered(d)' /\ Given(d)'
    <3>1. Own(d)' = Own(d) /\ (Calling(d)' <=> Calling(d))
      BY <1>4, <2>1 DEF Own, Calling, Pop, Goto
    <3>2. Numbered(d)'
      BY <2>1, <3>1 DEF OwnInv, Numbered
    <3>3. /\ box'[d] \in Answers => box'[d] = box[d]
          /\ response'[d] \in Answers => response'[d] \in {box[d], response[d]}
      BY <1>4, Apart DEF Pop
    <3>4. QED
      BY <3>1, <3>2, <3>3 DEF OwnInv, Given
  <2>3. QED
    BY <2>1, <2>2, OwnKept, Carried
<1>5. CASE Return(c)
  <2>1. UNCHANGED <<queue, net, received, call>>
    BY <1>5 DEF Return, netVars
  <2>2. /\ DOMAIN handle' \subseteq DOMAIN handle
        /\ \A i \in DOMAIN handle' : handle'[i] = handle[i]
    BY <1>5 DEF Return, Unregister
  <2>3. ASSUME NEW d \in Callers PROVE Numbered(d)' /\ Given(d)'
    <3>1. Own(d)' = Own(d)
      BY <2>1 DEF Own
    <3>2. CASE d = c
      <4>1. ~Calling(c)' /\ box'[c] \notin Answers /\ response'[c] \notin Answers
        BY <1>5, Apart DEF Calling, Return, Goto
      <4>2. QED
        BY <3>2, <4>1 DEF Numbered, Given
    <3>3. CASE d # c
      <4>1. id'[d] = id[d] /\ box'[d] = box[d] /\ response'[d] = response[d] /\ (Calling(d)' <=> Calling(d))
        BY <1>5, <3>3 DEF Calling, Return, Goto
      <4>2. QED
        BY <2>2, <3>1, <4>1 DEF OwnInv, Numbered, Given
    <3>4. QED
      BY <3>2, <3>3
  <2>4. QED
    BY <2>1, <2>2, <2>3, OwnKept, Carried
<1> QED
  BY <1>1, <1>2, <1>3, <1>4, <1>5

LEMMA FiberOwn ==
    ASSUME Types, CloseInv, OwnInv
    PROVE  /\ Send \/ SenderEnd \/ RecvStart \/ RecvNull \/ HandleMethodResponse => OwnInv'
           /\ \A m \in net : Recv(m) => OwnInv'
<1> HIDE DEF Calls, Requests, Answers, Table, Waiting, Empty, Shut, Null, Heartbeat, UnderWay
<1> USE DEF Types, CallTypes
<1>1. ASSUME UNCHANGED <<handle, pc, call, id, response, box>>
      PROVE  \A d \in Callers : Numbered(d)' /\ Given(d)'
  BY <1>1 DEF OwnInv, Numbered, Given, Own, Calling
<1>2. CASE Send \/ SenderEnd \/ RecvStart \/ RecvNull
  <2>1. UNCHANGED <<handle, pc, call, id, response, box, received>>
    BY <1>2 DEF Send, SenderEnd, RecvStart, RecvNull, callVars
  <2>2. \A m \in Requests : UnderWay(m)' => UnderWay(m)
    BY <1>2, Carried DEF SenderEnd, RecvStart, RecvNull, netVars
  <2>3. QED
    BY <1>1, <2>1, <2>2, OwnKept
<1>3. ASSUME NEW m \in net, Recv(m) PROVE OwnInv'
  <2>1. UNCHANGED <<handle, pc, call, id, response, box, queue>> /\ net' \subseteq net
    BY <1>3 DEF Recv, callVars
  <2>2. \A n \in Requests : UnderWay(n)' => UnderWay(n)
    BY <2>1, Carried
  <2>3. CASE m = Heartbeat
    BY <1>1, <1>3, <2>1, <2>2, <2>3, OwnKept DEF Recv
  <2>4. CASE m # Heartbeat
    <3>1. PICK k \in AnswerKinds : received' = [m EXCEPT !.kind = k]
      BY <1>3, <2>4 DEF Recv
    <3>2. m \in Requests /\ UnderWay(m)
      BY <2>4 DEF ClientTypes, UnderWay
    <3>3. received'.id = m.id /\ received'.of = m.of
      BY <3>1, <3>2 DEF Requests
    <3>4. QED
      BY <1>1, <2>1, <2>2, <3>2, <3>3 DEF OwnInv
  <2>5. QED
    BY <2>3, <2>4
<1>4. CASE HandleMethodResponse
  <2>1. UNCHANGED <<handle, pc, call, id, response, queue, net>> /\ received' = Null
    BY <1>4 DEF HandleMethodResponse, callVars, netVars
  <2>2. \A n \in Requests : UnderWay(n)' => UnderWay(n)
    BY <2>1, Carried
  <2>3. ASSUME NEW d \in Callers, box'[d] # box[d] PROVE box'[d].of = Own(d)
    <3>1. PICK k \in Calls : k = handle[received.id] /\ received.id \in DOMAIN handle /\ Current(k)
                             /\ box' = [box EXCEPT ![k[1]] = received] /\ received # Null
      BY <1>4, <2>3 DEF HandleMethodResponse, Table, CloseInv
    <3>2. d = k[1] /\ box'[d] = received
      BY <2>3, <3>1, CallPairs
    <3>3. received.of = k
      BY <3>1 DEF OwnInv
    <3>4. k = Own(d)
      BY <3>1, <3>2, CallPairs DEF Own, Current
    <3>5. QED
      BY <3>2, <3>3, <3>4
  <2>4. ASSUME NEW d \in Callers PROVE Numbered(d)' /\ Given(d)'
    BY <2>1, <2>3 DEF OwnInv, Numbered, Given, Own, Calling
  <2>5. QED
    BY <2>1, <2>2, <2>4 DEF OwnInv
<1> QED
  BY <1>2, <1>3, <1>4

LEMMA OtherOwn ==
    ASSUME Types, CloseInv, OwnInv
    PROVE  /\ \A c \in Callers : Expire(c) => OwnInv'
           /\ \A k \in fired : CallTimeout(k) => OwnInv'
           /\ \A w \in {"user", "recv", "beat"} : CloseAgain(w) \/ CloseBegin(w) => OwnInv'
           /\ \A k \in closing : ClosePush(k) => OwnInv'
           /\ CloseEnd \/ BeatTick \/ BeatPush \/ BeatMark \/ PeerGone \/ Connect => OwnInv'
<1> HIDE DEF Calls, Requests, Answers, Table, Waiting, Empty, Shut, Null, Heartbeat, UnderWay
<1> USE DEF Types, CallTypes
<1>1. ASSUME UNCHANGED <<pc, call, id, response, received>>,
             DOMAIN handle' \subseteq DOMAIN handle,
             \A i \in DOMAIN handle' : handle'[i] = handle[i],
             \A d \in Callers : box'[d] \in Answers => box'[d] = box[d],
             \A m \in Requests : UnderWay(m)' => UnderWay(m)
      PROVE  OwnInv'
  <2>1. ASSUME NEW d \in Callers PROVE Numbered(d)' /\ Given(d)'
    BY <1>1 DEF OwnInv, Numbered, Given, Own, Calling
  <2>2. QED
    BY <1>1, <2>1, OwnKept
<1>2. ASSUME NEW c \in Callers, Expire(c) PROVE OwnInv'
  BY <1>1, <1>2, Carried DEF Expire, callVars, netVars
<1>3. ASSUME NEW k \in fired, CallTimeout(k) PROVE OwnInv'
  <2>1. \A d \in Callers : box'[d] \in Answers => box'[d] = box[d]
    BY <1>3, Apart DEF CallTimeout
  <2>2. QED
    BY <1>1, <1>3, <2>1, Carried DEF CallTimeout, callVars, netVars
<1>4. ASSUME NEW w \in {"user", "recv", "beat"}, CloseAgain(w) \/ CloseBegin(w) PROVE OwnInv'
  BY <1>1, <1>4, Carried DEF CloseAgain, CloseBegin, callVars, netVars
<1>5. ASSUME NEW k \in closing, ClosePush(k) PROVE OwnInv'
  <2>1. \A d \in Callers : box'[d] \in Answers => box'[d] = box[d]
    BY <1>5, Apart DEF ClosePush
  <2>2. QED
    BY <1>1, <1>5, <2>1, Carried DEF ClosePush, callVars, netVars
<1>6. CASE CloseEnd
  <2>1. DOMAIN handle' = {}
    BY <1>6 DEF CloseEnd
  <2>2. QED
    BY <1>1, <1>6, <2>1, Carried DEF CloseEnd, callVars, netVars
<1>7. CASE BeatTick \/ BeatMark \/ PeerGone \/ Connect
  BY <1>1, <1>7, Carried DEF BeatTick, BeatMark, PeerGone, Connect, callVars, netVars
<1>8. CASE BeatPush
  <2>1. \A m \in Requests : UnderWay(m)' => UnderWay(m)
    BY <1>8, Carried, Apart DEF BeatPush, netVars
  <2>2. QED
    BY <1>1, <1>8, <2>1 DEF BeatPush, callVars
<1> QED
  BY <1>2, <1>3, <1>4, <1>5, <1>6, <1>7, <1>8

LEMMA NextOwn == Types /\ CloseInv /\ OwnInv /\ NumberFree /\ [Next]_vars => OwnInv'
<1> SUFFICES ASSUME Types, CloseInv, OwnInv, NumberFree, [Next]_vars PROVE OwnInv'
  OBVIOUS
<1>1. CASE UNCHANGED vars
  BY <1>1 DEF OwnInv, Numbered, Given, Own, Calling, UnderWay, vars, closeVars, callVars, netVars
<1>2. CASE Next
  BY <1>2, CallerOwn, FiberOwn, OtherOwn DEF Next, Caller, Receiver, Closer, Beat
<1> QED
  BY <1>1, <1>2

LEMMA InvAnswers == AnswerInv => AnswerIsOwn
<1> HIDE DEF Answers, Null
<1> SUFFICES ASSUME AnswerInv, NEW c \in Callers, pc[c] = "erase"
             PROVE  /\ response[c] # Null => response[c].of = <<c, call[c]>>
                    /\ Outcome(c) = "CLOSED" => isClose
  BY DEF AnswerIsOwn
<1>1. response[c] # Null => response[c].of = <<c, call[c]>>
  BY DEF AnswerInv, Types, CallTypes, OwnInv, Given, Own
<1>2. response[c] = Null /\ ~isClose => timeout[c]
  BY DEF AnswerInv, CloseInv, Told
<1>3. response[c] # Null /\ ~timeout[c] => Outcome(c) # "CLOSED"
  <2> SUFFICES ASSUME response[c] # Null, ~timeout[c] PROVE Outcome(c) # "CLOSED"
    OBVIOUS
  <2>1. response[c].kind \in {"value", "empty", "mismatch"}
    <3>1. response[c] \in Answers
      BY DEF AnswerInv, Types, CallTypes
    <3>2. response[c].kind \in AnswerKinds
      BY <3>1, Kinds
    <3>3. QED
      BY <3>2, RpcClientAssumption DEF RpcClientAssumption
  <2>2. QED
    BY <2>1 DEF Outcome
<1>4. timeout[c] => Outcome(c) = "TIMEOUT"
  BY DEF Outcome
<1> QED
  BY <1>1, <1>2, <1>3, <1>4

\* RpcClient::call: an answer reaches the call it answers and no other, and a
\* call is told that the client is closed only when it is, as long as the
\* sequence numbers do not come round to one that is still in use.
THEOREM AnswersCorrect == Spec /\ []NumberFree => []AnswerIsOwn
<1>1. Init => AnswerInv
  BY InitTypes, InitClose, InitOwn DEF AnswerInv
<1>2. AnswerInv /\ NumberFree /\ [Next]_vars => AnswerInv'
  BY NextTypes, NextClose, NextOwn DEF AnswerInv
<1> QED
  BY <1>1, <1>2, InvAnswers, PTL DEF Spec

-----------------------------------------------------------------------------
(* The table of waiting calls *)

\* The request of call k has been put into m_channel, or k has begun.
Pushed(k) == k[2] <= call[k[1]] /\ (k[2] = call[k[1]] => pc[k[1]] \notin {"register", "push"})
Begun(k) == k[2] <= call[k[1]] /\ (k[2] = call[k[1]] => pc[k[1]] # "register")

\* A request is sent once and answered once: it is in one place.
OnceInv ==
    /\ \A m, n \in net \cap Requests : m.of = n.of => m = n
    /\ \A i, j \in DOMAIN queue :
        queue[i] \in Requests /\ queue[j] \in Requests /\ queue[i].of = queue[j].of => i = j
    /\ \A i \in DOMAIN queue : \A m \in net \cap Requests :
        queue[i] \in Requests => queue[i].of # m.of
    /\ \A m \in Requests : UnderWay(m) => Pushed(m.of) /\ (received # Null => received.of # m.of)
    /\ received # Null => Pushed(received.of)

\* A call that has its answer expects no other.
Answered(c) ==
    /\ box[c] \in Answers \/ response[c] # Null =>
        /\ \A m \in Requests : UnderWay(m) => m.of # Own(c)
        /\ received # Null => received.of # Own(c)
    /\ pc[c] # "erase" => response[c] = Null
    /\ pc[c] \in {"push", "erase"} => box[c] \notin Answers
    /\ pc[c] = "erase" /\ box[c] = Empty /\ response[c] = Null => isClose /\ ~late[c]

AnsweredInv == \A c \in Callers : Answered(c)

\* A call's entry, before and during close(); what close() has left of it.
Listed(c) ==
    /\ Calling(c) /\ (isClose => mutex # "none" /\ ~late[c]) =>
        id[c] \in DOMAIN handle /\ handle[id[c]] = Own(c)
    /\ isClose /\ pc[c] \in {"push", "wait"} /\ box[c] = Empty /\ ~late[c] =>
        mutex # "none" /\ Own(c) \in closing

\* The entry k under the number i: until the client is closed that of a call in
\* progress, afterwards that of a call which has registered too late.
Entry(i, k) ==
    /\ Begun(k)
    /\ isClose /\ mutex = "none" /\ Current(k) => late[k[1]]
    /\ ~isClose => Current(k) /\ id[k[1]] = i

ListedInv ==
    /\ \A c \in Callers : Listed(c)
    /\ \A i \in DOMAIN handle : Entry(i, handle[i])

TableInv == AnswerInv /\ OnceInv /\ AnsweredInv /\ ListedInv

\* A call goes on from its registration to its end.
LEMMA Onward ==
    ASSUME Types, [Next]_vars
    PROVE  \A k \in Calls : (Pushed(k) => Pushed(k)') /\ (Begun(k) => Begun(k)')
<1> HIDE DEF Calls, Requests, Answers, Table, Waiting, Empty, Shut, Null, Heartbeat
<1> USE DEF Types, CallTypes
<1> SUFFICES ASSUME NEW k \in Calls
             PROVE  (Pushed(k) => Pushed(k)') /\ (Begun(k) => Begun(k)')
  OBVIOUS
<1>1. k[1] \in Callers /\ k[2] \in Nat
  BY CallPairs
<1>2. CASE UNCHANGED <<pc, call>>
  BY <1>2 DEF Pushed, Begun
<1>3. ASSUME NEW c \in Callers, Start(c) PROVE (Pushed(k) => Pushed(k)') /\ (Begun(k) => Begun(k)')
  <2>1. /\ call' = [call EXCEPT ![c] = @ + 1]
        /\ \A d \in Callers : d # c => pc'[d] = pc[d]
    BY <1>3 DEF Start, Goto
  <2>2. CASE k[1] = c
    BY <1>1, <2>1, <2>2 DEF Pushed, Begun
  <2>3. CASE k[1] # c
    BY <1>1, <2>1, <2>3 DEF Pushed, Begun
  <2>4. QED
    BY <2>2, <2>3
<1>4. ASSUME NEW c \in Callers, Register(c) \/ Push(c) \/ Pop(c) \/ Return(c)
      PROVE  (Pushed(k) => Pushed(k)') /\ (Begun(k) => Begun(k)')
  <2>1. call' = call /\ \A d \in Callers : d # c => pc'[d] = pc[d]
    BY <1>4 DEF Register, Push, Pop, Return, Goto
  <2>2. (pc[c] = "register" /\ pc'[c] = "push") \/ pc'[c] \notin {"register", "push"}
    BY <1>4 DEF Register, Push, Pop, Return, Goto
  <2>3. QED
    BY <1>1, <2>1, <2>2 DEF Pushed, Begun
<1>5. CASE Connect \/ Send \/ SenderEnd \/ Receiver \/ CloseEnd \/ Beat \/ PeerGone
  BY <1>2, <1>5 DEF Connect, Send, SenderEnd, Receiver, RecvStart, RecvNull, HandleMethodResponse,
     CloseEnd, Beat, BeatTick, BeatPush, BeatMark, PeerGone, callVars
<1>6. ASSUME \/ \E c \in Callers : Expire(c)
             \/ \E t \in fired : CallTimeout(t)
             \/ \E w \in {"user", "recv", "beat"} : Closer(w)
             \/ \E t \in closing : ClosePush(t)
             \/ \E m \in net : Recv(m)
      PROVE  UNCHANGED <<pc, call>>
  BY <1>6 DEF Expire, CallTimeout, Closer, CloseAgain, CloseBegin, ClosePush, Recv, callVars
<1>7. CASE UNCHANGED vars
  BY <1>2, <1>7 DEF vars, callVars
<1> QED
  BY <1>2, <1>3, <1>4, <1>5, <1>6, <1>7 DEF Next, Caller

\* Steps that put nothing under way.
LEMMA OnceLess ==
    ASSUME Types, OnceInv, net' \subseteq net, queue' = queue \/ queue' = <<>>,
           received' = received \/ received' = Null,
           \A k \in Calls : Pushed(k) => Pushed(k)'
    PROVE  OnceInv'
<1> HIDE DEF Calls, Requests, Answers, Null, Heartbeat, Pushed, UnderWay
<1>1. \A m \in Requests : UnderWay(m)' => UnderWay(m)
  BY Carried
<1>2. \A m \in Requests : m.of \in Calls
  BY Kinds
<1>3. received # Null => received.of \in Calls
  BY Kinds DEF Types, ClientTypes
<1>4. \A m, n \in net' \cap Requests : m.of = n.of => m = n
  BY DEF OnceInv
<1>5. \A i, j \in DOMAIN queue' :
        queue'[i] \in Requests /\ queue'[j] \in Requests /\ queue'[i].of = queue'[j].of => i = j
  BY DEF OnceInv
<1>6. \A i \in DOMAIN queue' : \A m \in net' \cap Requests :
        queue'[i] \in Requests => queue'[i].of # m.of
  BY DEF OnceInv
<1>7. \A m \in Requests : UnderWay(m)' =>
        Pushed(m.of)' /\ (received' # Null => received'.of # m.of)
  BY <1>1, <1>2 DEF OnceInv
<1>8. (received # Null => Pushed(received.of))'
  <2>1. CASE received = Null \/ received' # received
    <3>1. received' = Null
      BY <2>1
    <3>2. (received = Null)'
      BY <3>1 DEF Null, Mark
    <3>3. QED
      BY <3>2
  <2>2. CASE received # Null /\ received' = received
    <3>1. PICK k \in Calls : k = received.of
      BY <1>3, <2>2
    <3>2. Pushed(k)'
      BY <2>2, <3>1 DEF OnceInv
    <3>3. QED
      BY <2>2, <3>1, <3>2 DEF Pushed
  <2>3. QED
    BY <2>1, <2>2
<1> QED
  BY <1>4, <1>5, <1>6, <1>7, <1>8 DEF OnceInv

\* m_channel takes a message that is not under way.
LEMMA OnceOffered ==
    ASSUME Types, OnceInv, NEW x \in Requests \cup {Heartbeat}, Offer(x),
           x \in Requests => \A m \in Requests : UnderWay(m) => m.of # x.of,
           x \in Requests => Pushed(x.of)' /\ (received # Null => received.of # x.of),
           net' = net, received' = received,
           \A k \in Calls : Pushed(k) => Pushed(k)'
    PROVE  OnceInv'
<1> HIDE DEF Calls, Requests, Answers, Null, Heartbeat, Pushed, UnderWay
<1>1. CASE queue' = queue
  BY <1>1, OnceLess
<1>2. CASE queue' = Append(queue, x)
  <2>1. queue \in Seq(Requests \cup {Heartbeat})
    BY DEF Types, Waiting
  <2>2. \A j \in DOMAIN queue' :
          \/ j \in DOMAIN queue /\ queue'[j] = queue[j]
          \/ j = Len(queue) + 1 /\ queue'[j] = x
    BY <1>2, <2>1
  <2>3. \A j \in DOMAIN queue : queue[j] \in Requests => UnderWay(queue[j])
    BY DEF UnderWay
  <2>4. \A m \in net : UnderWay(m)
    BY DEF UnderWay
  <2>5. \A m, n \in net' \cap Requests : m.of = n.of => m = n
    BY DEF OnceInv
  <2>6. ASSUME NEW i \in DOMAIN queue', NEW j \in DOMAIN queue',
               queue'[i] \in Requests, queue'[j] \in Requests, queue'[i].of = queue'[j].of
        PROVE  i = j
    <3>1. CASE i \in DOMAIN queue /\ queue'[i] = queue[i] /\ j \in DOMAIN queue /\ queue'[j] = queue[j]
      BY <2>6, <3>1 DEF OnceInv
    <3>2. CASE i \in DOMAIN queue /\ queue'[i] = queue[i] /\ queue'[j] = x
      BY <2>3, <2>6, <3>2
    <3>3. CASE j \in DOMAIN queue /\ queue'[j] = queue[j] /\ queue'[i] = x
      BY <2>3, <2>6, <3>3
    <3>4. QED
      BY <2>2, <3>1, <3>2, <3>3
  <2>7. ASSUME NEW i \in DOMAIN queue', NEW m \in net' \cap Requests, queue'[i] \in Requests
        PROVE  queue'[i].of # m.of
    <3>1. CASE i \in DOMAIN queue /\ queue'[i] = queue[i]
      BY <2>7, <3>1 DEF OnceInv
    <3>2. CASE queue'[i] = x
      BY <2>4, <2>7, <3>2
    <3>3. QED
      BY <2>2, <3>1, <3>2
  <2>8. \A m \in Requests : UnderWay(m)' => UnderWay(m) \/ m = x
    BY Carried
  <2>9. \A m \in Requests : UnderWay(m)' => Pushed(m.of)'
    BY <2>8, Kinds DEF OnceInv
  <2>10. \A m \in Requests : UnderWay(m)' => (received # Null => received.of # m.of)
    BY <2>8 DEF OnceInv
  <2>11. (received # Null => Pushed(received.of))'
    <3>1. CASE received = Null
      <4>1. (received = Null)'
        BY <3>1 DEF Null, Mark
      <4>2. QED
        BY <4>1
    <3>2. CASE received # Null
      <4>1. PICK k \in Calls : k = received.of
        BY <3>2, Kinds DEF Types, ClientTypes
      <4>2. Pushed(k)'
        BY <3>2, <4>1 DEF OnceInv
      <4>3. QED
        BY <4>1, <4>2 DEF Pushed
    <3>3. QED
      BY <3>1, <3>2
  <2>12. (\A m \in Requests : UnderWay(m) =>
            Pushed(m.of) /\ (received # Null => received.of # m.of))'
    BY <2>9, <2>10 DEF Null, Mark
  <2>13. (/\ \A m, n \in net \cap Requests : m.of = n.of => m = n
          /\ \A i, j \in DOMAIN queue :
               queue[i] \in Requests /\ queue[j] \in Requests /\ queue[i].of = queue[j].of => i = j
          /\ \A i \in DOMAIN queue : \A m \in net \cap Requests :
               queue[i] \in Requests => queue[i].of # m.of)'
    BY <2>5, <2>6, <2>7
  <2>14. QED
    BY <2>11, <2>12, <2>13 DEF OnceInv
<1>3. QED
  BY <1>1, <1>2 DEF Offer

LEMMA OnceSent ==
    ASSUME Types, OnceInv, Send
    PROVE  OnceInv'
<1> HIDE DEF Calls, Requests, Answers, Null, Heartbeat, Pushed, UnderWay
<1>1. /\ queue \in Seq(Requests \cup {Heartbeat}) /\ queue # <<>> /\ queue' = Tail(queue)
      /\ net' \subseteq net \cup {Head(queue)} /\ UNCHANGED <<pc, call, received>>
  BY DEF Types, Waiting, Send, callVars
<1>2. Head(queue) = queue[1] /\ 1 \in DOMAIN queue
  BY <1>1
<1>3. \A j \in DOMAIN queue' : j \in Nat /\ j + 1 # 1 /\ j + 1 \in DOMAIN queue /\ queue'[j] = queue[j + 1]
  BY <1>1
<1>4. \A m \in net' : m \in net \/ m = queue[1]
  BY <1>1, <1>2
<1>5. \A m, n \in net' \cap Requests : m.of = n.of => m = n
  BY <1>2, <1>4 DEF OnceInv
<1>6. ASSUME NEW i \in DOMAIN queue', NEW j \in DOMAIN queue',
             queue'[i] \in Requests, queue'[j] \in Requests, queue'[i].of = queue'[j].of
      PROVE  i = j
  <2>1. i + 1 = j + 1
    BY <1>3, <1>6 DEF OnceInv
  <2>2. QED
    BY <1>3, <2>1
<1>7. ASSUME NEW i \in DOMAIN queue', NEW m \in net' \cap Requests, queue'[i] \in Requests
      PROVE  queue'[i].of # m.of
  <2>1. CASE m \in net
    BY <1>3, <1>7, <2>1 DEF OnceInv
  <2>2. CASE m = queue[1]
    BY <1>2, <1>3, <1>7, <2>2 DEF OnceInv
  <2>3. QED
    BY <1>4, <2>1, <2>2
<1>8. \A m \in Requests : UnderWay(m)' => UnderWay(m)
  BY Carried
<1>9. \A k : Pushed(k)' <=> Pushed(k)
  BY <1>1 DEF Pushed
<1>10. (\A m \in Requests : UnderWay(m) =>
          Pushed(m.of) /\ (received # Null => received.of # m.of))'
  BY <1>1, <1>8, <1>9 DEF OnceInv, Null, Mark
<1>11. (received # Null => Pushed(received.of))'
  BY <1>1 DEF OnceInv, Null, Mark, Pushed
<1>12. (/\ \A m, n \in net \cap Requests : m.of = n.of => m = n
        /\ \A i, j \in DOMAIN queue :
             queue[i] \in Requests /\ queue[j] \in Requests /\ queue[i].of = queue[j].of => i = j
        /\ \A i \in DOMAIN queue : \A m \in net \cap Requests :
             queue[i] \in Requests => queue[i].of # m.of)'
  BY <1>5, <1>6, <1>7
<1> QED
  BY <1>10, <1>11, <1>12 DEF OnceInv

LEMMA OnceReceived ==
    ASSUME Types, OnceInv, NEW x \in net, Recv(x)
    PROVE  OnceInv'
<1> HIDE DEF Calls, Requests, Answers, Null, Heartbeat, Pushed, UnderWay
<1>1. queue' = queue /\ net' = net \ {x} /\ UNCHANGED <<pc, call>>
  BY DEF Recv, callVars
<1>2. \A k : Pushed(k)' <=> Pushed(k)
  BY <1>1 DEF Pushed
<1>3. CASE x = Heartbeat
  <2>1. received' = received
    BY <1>3 DEF Recv
  <2>2. QED
    BY <1>1, <1>2, <2>1, OnceLess
<1>4. CASE x # Heartbeat
  <2>1. PICK k \in AnswerKinds : received' = [x EXCEPT !.kind = k]
    BY <1>4 DEF Recv
  <2>2. x \in Requests /\ UnderWay(x)
    BY <1>4 DEF Types, ClientTypes, UnderWay
  <2>3. received'.of = x.of
    BY <2>1, <2>2 DEF Requests
  <2>4. \A m \in Requests : UnderWay(m)' => UnderWay(m) /\ m.of # x.of
    <3>1. ASSUME NEW m \in Requests, UnderWay(m)' PROVE m.of # x.of
      <4>1. m \in net' \/ \E j \in DOMAIN queue' : queue'[j] = m
        BY <3>1 DEF UnderWay
      <4>2. CASE m \in net'
        BY <1>1, <2>2, <4>2 DEF OnceInv
      <4>3. CASE \E j \in DOMAIN queue' : queue'[j] = m
        BY <1>1, <2>2, <4>3 DEF OnceInv
      <4>4. QED
        BY <4>1, <4>2, <4>3
    <3>2. QED
      BY <1>1, <3>1, Carried
  <2>5. (\A m \in Requests : UnderWay(m) =>
            Pushed(m.of) /\ (received # Null => received.of # m.of))'
    BY <1>2, <2>3, <2>4 DEF OnceInv
  <2>6. Pushed(x.of)
    BY <2>2 DEF OnceInv
  <2>7. (received # Null => Pushed(received.of))'
    BY <1>1, <2>3, <2>6 DEF Pushed
  <2>8. (/\ \A m, n \in net \cap Requests : m.of = n.of => m = n
         /\ \A i, j \in DOMAIN queue :
              queue[i] \in Requests /\ queue[j] \in Requests /\ queue[i].of = queue[j].of => i = j
         /\ \A i \in DOMAIN queue : \A m \in net \cap Requests :
              queue[i] \in Requests => queue[i].of # m.of)'
    BY <1>1 DEF OnceInv
  <2>9. QED
    BY <2>5, <2>7, <2>8 DEF OnceInv
<1> QED
  BY <1>3, <1>4

LEMMA InitOnce == Init => OnceInv
<1> SUFFICES ASSUME Init PROVE OnceInv
  OBVIOUS
<1>1. DOMAIN queue = {} /\ net = {} /\ received = Null
  BY DEF Init
<1> QED
  BY <1>1 DEF OnceInv, UnderWay

LEMMA NextOnce ==
    ASSUME Types, OnceInv, [Next]_vars
    PROVE  OnceInv'
<1> HIDE DEF Calls, Requests, Answers, Null, Heartbeat, Pushed, UnderWay, Table, Waiting
<1>1. \A k \in Calls : Pushed(k) => Pushed(k)'
  BY Onward
<1>2. ASSUME net' = net, queue' = queue \/ queue' = <<>>, received' = received \/ received' = Null
      PROVE  OnceInv'
  BY <1>1, <1>2, OnceLess
<1>3. CASE UNCHANGED vars
  BY <1>2, <1>3 DEF vars, netVars
<1>4. ASSUME NEW c \in Callers, Caller(c) \/ Expire(c) PROVE OnceInv'
  <2>1. CASE Push(c)
    <3>1. Request(id[c], Own(c)) \in Requests /\ Own(c) \in Calls
      BY <2>1, OwnCall, Kinds DEF Push, Own, Types, CallTypes, Positions
    <3>2. PICK k \in Calls : k = Own(c)
      BY <3>1
    <3>3. PICK x \in Requests : x = Request(id[c], Own(c))
      BY <3>1
    <3>4. /\ UNCHANGED <<net, received, call>> /\ Offer(x) /\ pc[c] = "push"
          /\ pc' = [pc EXCEPT ![c] = "wait"]
      BY <2>1, <3>3 DEF Own, Push, Goto, netVars
    <3>5. x.of = k
      BY <3>2, <3>3, Kinds
    <3>6. ~Pushed(k) /\ Pushed(k)'
      BY <3>2, <3>4 DEF Own, Pushed, Types, CallTypes
    <3>7. x \in Requests => \A m \in Requests : UnderWay(m) => m.of # x.of
      BY <3>5, <3>6 DEF OnceInv
    <3>8. x \in Requests => Pushed(x.of)' /\ (received # Null => received.of # x.of)
      BY <3>5, <3>6 DEF OnceInv
    <3>9. QED
      BY <1>1, <3>4, <3>7, <3>8, OnceOffered
  <2>2. CASE Start(c) \/ Register(c) \/ Pop(c) \/ Return(c) \/ Expire(c)
    BY <1>2, <2>2 DEF Start, Register, Pop, Return, Expire, netVars
  <2>3. QED
    BY <1>4, <2>1, <2>2 DEF Caller
<1>5. CASE \E k \in fired : CallTimeout(k)
  BY <1>2, <1>5 DEF CallTimeout, netVars
<1>6. CASE \/ Connect \/ SenderEnd \/ Receiver \/ CloseEnd \/ BeatTick \/ BeatMark \/ PeerGone
           \/ \E w \in {"user", "recv", "beat"} : Closer(w)
           \/ \E k \in closing : ClosePush(k)
  BY <1>2, <1>6 DEF Connect, SenderEnd, Receiver, RecvStart, RecvNull, HandleMethodResponse, CloseEnd,
     BeatTick, BeatMark, PeerGone, Closer, CloseAgain, CloseBegin, ClosePush, netVars
<1>7. CASE BeatPush
  BY <1>1, <1>7, OnceOffered, Apart DEF BeatPush, netVars
<1>8. CASE Next
  BY <1>4, <1>5, <1>6, <1>7, <1>8, OnceSent, OnceReceived DEF Next, Beat
<1> QED
  BY <1>3, <1>8

\* The entries after a step.
LEMMA EntriesNext ==
    ASSUME \A i \in DOMAIN handle' : \E k : handle'[i] = k /\ Entry(i, k)'
    PROVE  (\A i \in DOMAIN handle : Entry(i, handle[i]))'
BY DEF Entry, Begun, Current, Calling

\* Steps of others: what they put into a channel.
LEMMA ListedKept ==
    ASSUME Types, ListedInv, UNCHANGED <<isClose, mutex, closing, handle, pc, call, id, late>>,
           \A c \in Callers : box'[c] = Empty => box[c] = Empty
    PROVE  ListedInv'
<1> HIDE DEF Calls, Empty
<1>1. \A c \in Callers : Listed(c)'
  <2>1. Empty' = Empty
    BY DEF Empty, Mark
  <2>2. QED
    BY <2>1 DEF ListedInv, Listed, Calling, Own
<1>2. (\A i \in DOMAIN handle : Entry(i, handle[i]))'
  BY DEF ListedInv, Entry, Begun, Current, Calling
<1> QED
  BY <1>1, <1>2 DEF ListedInv

LEMMA CallerListed ==
    ASSUME Types, CloseInv, OwnInv, ListedInv, NumberFree, NEW c \in Callers,
           Start(c) \/ Register(c) \/ Push(c) \/ Pop(c) \/ Return(c)
    PROVE  ListedInv'
<1> HIDE DEF Calls, Requests, Answers, Waiting, Empty, Shut, Null, Heartbeat, UnderWay
<1> USE DEF Types, CallTypes
<1>0. \A i \in DOMAIN handle : \E k \in Calls : handle[i] = k /\ Entry(i, k)
  BY DEF Table, ListedInv
<1>1. CASE Start(c)
  <2>1. /\ UNCHANGED <<isClose, mutex, closing, handle, id, late, box>>
        /\ call' = [call EXCEPT ![c] = @ + 1] /\ ~Calling(c) /\ ~Calling(c)'
        /\ \A d \in Callers : d # c => pc'[d] = pc[d] /\ call'[d] = call[d]
    BY <1>1 DEF Start, Calling, Goto, closeVars
  <2>2. \A d \in Callers : Listed(d)'
    BY <2>1 DEF ListedInv, Listed, Calling, Own
  <2>3. ASSUME NEW i \in DOMAIN handle, NEW k \in Calls, Entry(i, k) PROVE Entry(i, k)'
    BY <2>1, <2>3, CallPairs DEF Entry, Begun, Current, Calling
  <2>4. QED
    BY <1>0, <2>1, <2>2, <2>3, EntriesNext DEF ListedInv
<1>2. CASE Register(c)
  <2>1. /\ UNCHANGED <<isClose, mutex, closing, box, call>> /\ mutex = "none"
        /\ handle' = Emplace(seq, Own(c)) /\ pc[c] = "register" /\ pc' = [pc EXCEPT ![c] = "push"]
        /\ id' = [id EXCEPT ![c] = seq] /\ late' = [late EXCEPT ![c] = isClose]
    BY <1>2 DEF Own, Register, Goto, closeVars
  <2>2. seq \notin DOMAIN handle /\ \A d \in Callers : Calling(d) => id[d] # seq
    BY <2>1 DEF NumberFree
  <2>3. /\ DOMAIN handle' = DOMAIN handle \cup {seq} /\ handle'[seq] = Own(c)
        /\ \A i \in DOMAIN handle : handle'[i] = handle[i]
    BY <2>1, <2>2 DEF Emplace
  <2>4. \A d \in Callers : Listed(d)'
    BY <2>1, <2>3 DEF ListedInv, Listed, Calling, Own
  <2>5. ASSUME NEW i \in DOMAIN handle, NEW k \in Calls, Entry(i, k) PROVE Entry(i, k)'
    BY <2>1, <2>5, CallPairs DEF Entry, Begun, Current, Calling
  <2>6. PICK k : k = Own(c)
    OBVIOUS
  <2>7. PICK n : n = seq
    OBVIOUS
  <2>8. Entry(n, k)'
    BY <2>1, <2>6, <2>7 DEF Entry, Begun, Current, Calling, Own
  <2>9. QED
    BY <1>0, <2>3, <2>4, <2>5, <2>6, <2>7, <2>8, EntriesNext DEF ListedInv
<1>3. CASE Push(c)
  <2>1. /\ UNCHANGED <<isClose, mutex, closing, handle, id, late, box, call>>
        /\ pc[c] = "push" /\ pc' = [pc EXCEPT ![c] = "wait"]
    BY <1>3 DEF Push, Goto, closeVars
  <2>2. \A d \in Callers : Listed(d)'
    BY <2>1 DEF ListedInv, Listed, Calling, Own
  <2>3. ASSUME NEW i \in DOMAIN handle, NEW k \in Calls, Entry(i, k) PROVE Entry(i, k)'
    BY <2>1, <2>3, CallPairs DEF Entry, Begun, Current, Calling
  <2>4. QED
    BY <1>0, <2>1, <2>2, <2>3, EntriesNext DEF ListedInv
<1>4. CASE Pop(c)
  <2>1. /\ UNCHANGED <<isClose, mutex, closing, handle, id, late, call>>
        /\ pc[c] = "wait" /\ pc' = [pc EXCEPT ![c] = "erase"]
        /\ \A d \in Callers : d # c => box'[d] = box[d]
    BY <1>4 DEF Pop, Goto, closeVars
  <2>2. \A d \in Callers : Listed(d)'
    BY <2>1 DEF ListedInv, Listed, Calling, Own
  <2>3. ASSUME NEW i \in DOMAIN handle, NEW k \in Calls, Entry(i, k) PROVE Entry(i, k)'
    BY <2>1, <2>3, CallPairs DEF Entry, Begun, Current, Calling
  <2>4. QED
    BY <1>0, <2>1, <2>2, <2>3, EntriesNext DEF ListedInv
<1>5. CASE Return(c)
  <2>1. /\ UNCHANGED <<isClose, mutex, closing, call>> /\ mutex = "none"
        /\ handle' = IF isClose THEN handle ELSE Unregister(id[c])
        /\ pc[c] = "erase" /\ pc' = [pc EXCEPT ![c] = "idle"]
        /\ \A d \in Callers : d # c => box'[d] = box[d] /\ id'[d] = id[d] /\ late'[d] = late[d]
    BY <1>5 DEF Return, Goto, closeVars
  <2>2. /\ DOMAIN handle' \subseteq DOMAIN handle
        /\ \A i \in DOMAIN handle' : handle'[i] = handle[i]
        /\ isClose => DOMAIN handle' = DOMAIN handle
        /\ ~isClose => DOMAIN handle' = DOMAIN handle \ {id[c]}
    BY <2>1 DEF Unregister
  <2>3. ASSUME NEW d \in Callers PROVE Listed(d)'
    <3>1. CASE d = c
      BY <2>1, <3>1 DEF Listed, Calling
    <3>2. CASE d # c
      <4>1. Own(d) # Own(c) /\ Own(d)' = Own(d) /\ (Calling(d)' <=> Calling(d)) /\ Calling(c)
        BY <2>1, <3>2 DEF Own, Calling
      <4>2. Listed(c) /\ Listed(d)
        BY DEF ListedInv
      <4>3. ~isClose /\ Calling(d) => id[d] # id[c] /\ id[d] \in DOMAIN handle /\ handle[id[d]] = Own(d)
        BY <4>1, <4>2 DEF Listed
      <4>4. QED
        BY <2>1, <2>2, <3>2, <4>1, <4>2, <4>3 DEF Listed
    <3>3. QED
      BY <3>1, <3>2
  <2>4. ASSUME NEW i \in DOMAIN handle', NEW k \in Calls, Entry(i, k) PROVE Entry(i, k)'
    <3>1. k[1] \in Callers /\ k[2] \in Nat
      BY CallPairs
    <3>2. CASE k[1] = c
      BY <2>1, <2>2, <2>4, <3>1, <3>2 DEF Entry, Begun, Current, Calling
    <3>3. CASE k[1] # c
      BY <2>1, <2>2, <2>4, <3>1, <3>3 DEF Entry, Begun, Current, Calling
    <3>4. QED
      BY <3>2, <3>3
  <2>5. QED
    BY <1>0, <2>2, <2>3, <2>4, EntriesNext DEF ListedInv
<1> QED
  BY <1>1, <1>2, <1>3, <1>4, <1>5

LEMMA CloserListed ==
    ASSUME Types, CloseInv, ListedInv
    PROVE  /\ \A w \in {"user", "recv", "beat"} : CloseBegin(w) => ListedInv'
           /\ \A k \in closing : ClosePush(k) => ListedInv'
           /\ CloseEnd \/ Connect => ListedInv'
<1> HIDE DEF Calls, Requests, Answers, Waiting, Empty, Shut, Null, Heartbeat, UnderWay
<1> USE DEF Types, CallTypes
<1>0. \A i \in DOMAIN handle : \E k \in Calls : handle[i] = k /\ Entry(i, k)
  BY DEF Table, ListedInv
<1>1. ASSUME NEW w \in {"user", "recv", "beat"}, CloseBegin(w) PROVE ListedInv'
  <2>1. /\ UNCHANGED <<handle, pc, call, id, late, box>>
        /\ mutex = "none" /\ ~isClose /\ mutex' = w /\ isClose'
        /\ closing' = {handle[i] : i \in DOMAIN handle}
    BY <1>1 DEF CloseBegin, callVars
  <2>2. ASSUME NEW d \in Callers PROVE Listed(d)'
    <3>1. Calling(d) => id[d] \in DOMAIN handle /\ handle[id[d]] = Own(d)
      BY <2>1 DEF ListedInv, Listed
    <3>2. Calling(d) => Own(d) \in closing'
      BY <2>1, <3>1
    <3>3. QED
      BY <2>1, <3>1, <3>2 DEF Listed, Calling, Own
  <2>3. ASSUME NEW i \in DOMAIN handle, NEW k \in Calls, Entry(i, k) PROVE Entry(i, k)'
    BY <2>1, <2>3 DEF Entry, Begun, Current, Calling
  <2>4. QED
    BY <1>0, <2>1, <2>2, <2>3, EntriesNext DEF ListedInv
<1>2. ASSUME NEW k \in closing, ClosePush(k) PROVE ListedInv'
  <2>1. /\ UNCHANGED <<handle, pc, call, id, late, isClose, mutex>> /\ mutex # "none" /\ isClose
        /\ closing' = closing \ {k}
    BY <1>2 DEF ClosePush, callVars, CloseInv
  <2>2. k[1] \in Callers /\ k[2] \in Nat /\ k = <<k[1], k[2]>>
    BY <1>2, CallPairs DEF ClientTypes
  <2>3. ASSUME NEW d \in Callers PROVE Listed(d)'
    <3>1. box'[d] = Empty => box[d] = Empty /\ (Calling(d) => Own(d) # k)
      <4>1. CASE Current(k) /\ box[k[1]] # Shut
        BY <1>2, <2>2, <4>1, Apart DEF ClosePush, Own
      <4>2. CASE Current(k) /\ box[k[1]] = Shut
        BY <1>2, <2>2, <4>2, Apart DEF ClosePush, Own
      <4>3. CASE ~Current(k)
        BY <1>2, <2>2, <4>3 DEF ClosePush, Current, Own
      <4>4. QED
        BY <4>1, <4>2, <4>3
    <3>2. Empty' = Empty
      BY DEF Empty, Mark
    <3>3. QED
      BY <2>1, <3>1, <3>2 DEF ListedInv, Listed, Calling, Own
  <2>4. ASSUME NEW i \in DOMAIN handle, NEW n \in Calls, Entry(i, n) PROVE Entry(i, n)'
    BY <2>1, <2>4 DEF Entry, Begun, Current, Calling
  <2>5. QED
    BY <1>0, <2>1, <2>3, <2>4, EntriesNext DEF ListedInv
<1>3. CASE CloseEnd
  <2>1. /\ UNCHANGED <<pc, call, id, late, isClose, closing, box>> /\ mutex # "none" /\ isClose
        /\ mutex' = "none" /\ closing = {} /\ DOMAIN handle' = {}
    BY <1>3 DEF CloseEnd, callVars, CloseInv
  <2>2. ASSUME NEW d \in Callers PROVE Listed(d)'
    BY <2>1 DEF ListedInv, Listed, Calling, Own
  <2>3. QED
    BY <2>1, <2>2, EntriesNext DEF ListedInv
<1>4. CASE Connect
  <2>1. /\ UNCHANGED <<pc, call, handle, mutex>> /\ conn = "new" /\ ~isClose'
    BY <1>4 DEF Connect, callVars
  <2>2. DOMAIN handle' = {} /\ \A d \in Callers : pc'[d] = "idle"
    BY <2>1 DEF CloseInv
  <2>3. ASSUME NEW d \in Callers PROVE Listed(d)'
    BY <2>1, <2>2 DEF Listed, Calling
  <2>4. QED
    BY <2>2, <2>3, EntriesNext DEF ListedInv
<1> QED
  BY <1>1, <1>2, <1>3, <1>4

LEMMA NextListed ==
    ASSUME Types, CloseInv, OwnInv, ListedInv, NumberFree, [Next]_vars
    PROVE  ListedInv'
<1> HIDE DEF Calls, Requests, Answers, Waiting, Empty, Shut, Null, Heartbeat, UnderWay
<1>1. ASSUME UNCHANGED <<isClose, mutex, closing, handle, pc, call, id, late>>,
             \A c \in Callers : box'[c] = Empty => box[c] = Empty
      PROVE  ListedInv'
  BY <1>1, ListedKept
<1>2. CASE \/ UNCHANGED vars \/ Send \/ SenderEnd \/ RecvStart \/ RecvNull \/ Beat \/ PeerGone
           \/ \E c \in Callers : Expire(c)
           \/ \E m \in net : Recv(m)
           \/ \E w \in {"user", "recv", "beat"} : CloseAgain(w)
  BY <1>1, <1>2 DEF vars, Send, SenderEnd, RecvStart, RecvNull, Beat, BeatTick, BeatPush, BeatMark,
     PeerGone, Expire, Recv, CloseAgain, closeVars, callVars
<1>3. ASSUME NEW k \in fired, CallTimeout(k) PROVE ListedInv'
  <2>1. \A c \in Callers : box'[c] = Empty => box[c] = Empty
    BY <1>3, Apart DEF Types, CallTypes, CallTimeout
  <2>2. QED
    BY <1>1, <1>3, <2>1 DEF CallTimeout, closeVars, callVars
<1>4. CASE HandleMethodResponse
  <2>1. \A c \in Callers : box'[c] = Empty => box[c] = Empty
    <3>1. recv = "handle" /\ received \in Answers
      BY <1>4, Apart DEF HandleMethodResponse, Types, ClientTypes, CloseInv
    <3>2. QED
      BY <1>4, <3>1, Apart DEF Types, CallTypes, HandleMethodResponse
  <2>2. QED
    BY <1>1, <1>4, <2>1 DEF HandleMethodResponse, closeVars, callVars
<1> QED
  BY <1>2, <1>3, <1>4, CallerListed, CloserListed DEF Next, Caller, Receiver, Closer

-----------------------------------------------------------------------------
\* Steps that bring no answer.
LEMMA AnsweredKept ==
    ASSUME Types, AnsweredInv, UNCHANGED <<pc, call, response, late>>, isClose => isClose',
           received' = received \/ received' = Null,
           \A m \in Requests : UnderWay(m)' => UnderWay(m),
           \A c \in Callers : box'[c] \in Answers \cup {Empty} => box'[c] = box[c]
    PROVE  AnsweredInv'
<1> HIDE DEF Calls, Requests, Answers, Empty, Null, UnderWay
<1> SUFFICES ASSUME NEW c \in Callers PROVE Answered(c)'
  BY DEF AnsweredInv
<1>1. Answered(c) /\ Null' = Null /\ Empty' = Empty
  BY DEF AnsweredInv, Null, Empty, Mark
<1> QED
  BY <1>1 DEF Answered, Own

LEMMA CallerAnswered ==
    ASSUME Types, CloseInv, OnceInv, AnsweredInv, NEW c \in Callers,
           Start(c) \/ Register(c) \/ Push(c) \/ Pop(c) \/ Return(c)
    PROVE  AnsweredInv'
<1> HIDE DEF Calls, Requests, Answers, Table, Waiting, Empty, Shut, Null, Heartbeat, UnderWay
<1> USE DEF Types, CallTypes
<1> SUFFICES ASSUME NEW d \in Callers PROVE Answered(d)'
  BY DEF AnsweredInv
<1>0. Answered(d) /\ Told(d)
  BY DEF AnsweredInv, CloseInv
<1>1. Null' = Null /\ Empty' = Empty
  BY DEF Null, Empty, Mark
<1>2. ASSUME ~Push(c) PROVE received' = received /\ \A m \in Requests : UnderWay(m)' => UnderWay(m)
  BY <1>2, Carried DEF Start, Register, Pop, Return, netVars
<1>3. CASE d # c
  <2>1. /\ pc'[d] = pc[d] /\ call'[d] = call[d] /\ response'[d] = response[d] /\ box'[d] = box[d]
        /\ late'[d] = late[d] /\ isClose' = isClose /\ received' = received
    BY <1>3 DEF Start, Register, Push, Pop, Return, Goto, closeVars
  <2>2. \A m \in Requests : UnderWay(m)' => UnderWay(m) \/ m.of = Own(c)
    <3>1. CASE Push(c)
      <4>1. PICK x : x = Request(id[c], Own(c))
        OBVIOUS
      <4>2. x \in Requests /\ x.of = Own(c) /\ Offer(x) /\ net' = net
        BY <3>1, <4>1, OwnCall, Kinds DEF Push, Own, Positions, netVars
      <4>3. QED
        BY <4>2, Carried
    <3>2. QED
      BY <1>2, <3>1
  <2>3. Own(d) # Own(c) /\ Own(d)' = Own(d)
    BY <1>3, <2>1 DEF Own
  <2>4. QED
    BY <1>0, <1>1, <2>1, <2>2, <2>3 DEF Answered
<1>4. CASE d = c /\ Start(c)
  BY <1>0, <1>1, <1>4, Apart DEF Answered, Told, Calling, Start, Goto
<1>5. CASE d = c /\ Register(c)
  BY <1>0, <1>1, <1>5, Apart DEF Answered, Told, Calling, Register, Goto
<1>6. CASE d = c /\ Push(c)
  BY <1>0, <1>1, <1>6, Apart DEF Answered, Push, Goto
<1>7. CASE d = c /\ Pop(c)
  <2>1. /\ pc[c] = "wait" /\ pc'[c] = "erase" /\ box[c] # Empty
        /\ response'[c] = IF box[c] = Shut THEN Null ELSE box[c]
        /\ box'[c] = IF box[c] = Shut THEN Shut ELSE Empty
        /\ call' = call /\ late' = late /\ isClose' = isClose
    BY <1>7 DEF Pop, Goto, closeVars
  <2>2. Own(c)' = Own(c) /\ ~Push(c)
    BY <2>1 DEF Own, Push
  <2>3. response'[c] # Null => box[c] \in Answers
    BY <2>1
  <2>4. box'[c] \notin Answers
    BY <2>1, Apart
  <2>5. box'[c] = Empty /\ response'[c] = Null => isClose /\ ~late[c]
    BY <1>0, <1>7, <2>1, Apart DEF Told
  <2>6. QED
    BY <1>0, <1>1, <1>2, <1>7, <2>1, <2>2, <2>3, <2>4, <2>5 DEF Answered
<1>8. CASE d = c /\ Return(c)
  BY <1>1, <1>8, Apart DEF Answered, Return, Goto
<1> QED
  BY <1>3, <1>4, <1>5, <1>6, <1>7, <1>8

LEMMA FiberAnswered ==
    ASSUME Types, CloseInv, OwnInv, OnceInv, ListedInv, AnsweredInv
    PROVE  /\ Send \/ SenderEnd \/ RecvStart \/ RecvNull \/ HandleMethodResponse => AnsweredInv'
           /\ \A m \in net : Recv(m) => AnsweredInv'
<1> HIDE DEF Calls, Requests, Answers, Table, Waiting, Empty, Shut, Null, Heartbeat, UnderWay
<1> USE DEF Types, CallTypes
<1>1. CASE Send \/ SenderEnd \/ RecvStart \/ RecvNull
  <2>1. UNCHANGED <<pc, call, response, late, isClose, box, received>>
    BY <1>1 DEF Send, SenderEnd, RecvStart, RecvNull, callVars, closeVars
  <2>2. \A m \in Requests : UnderWay(m)' => UnderWay(m)
    BY <1>1, Carried DEF SenderEnd, RecvStart, RecvNull, netVars
  <2>3. QED
    BY <2>1, <2>2, AnsweredKept
<1>2. ASSUME NEW x \in net, Recv(x) PROVE AnsweredInv'
  <2>1. UNCHANGED <<pc, call, response, late, isClose, box, queue>> /\ net' \subseteq net
    BY <1>2 DEF Recv, callVars, closeVars
  <2>2. \A m \in Requests : UnderWay(m)' => UnderWay(m)
    BY <2>1, Carried
  <2>3. CASE x = Heartbeat
    BY <1>2, <2>1, <2>2, <2>3, AnsweredKept DEF Recv
  <2>4. CASE x # Heartbeat
    <3>1. PICK k \in AnswerKinds : received' = [x EXCEPT !.kind = k]
      BY <1>2, <2>4 DEF Recv
    <3>2. x \in Requests /\ UnderWay(x)
      BY <2>4 DEF ClientTypes, UnderWay
    <3>3. received'.of = x.of
      BY <3>1, <3>2 DEF Requests
    <3>4. ASSUME NEW d \in Callers PROVE Answered(d)'
      <4>1. Answered(d) /\ Null' = Null /\ Empty' = Empty
        BY DEF AnsweredInv, Null, Empty, Mark
      <4>2. QED
        BY <2>1, <2>2, <3>2, <3>3, <4>1 DEF Answered, Own
    <3>5. QED
      BY <3>4 DEF AnsweredInv
  <2>5. QED
    BY <2>3, <2>4
<1>3. CASE HandleMethodResponse
  <2>1. UNCHANGED <<pc, call, response, late, isClose, queue, net>> /\ received' = Null
        /\ mutex = "none"
    BY <1>3 DEF HandleMethodResponse, callVars, closeVars, netVars
  <2>2. \A m \in Requests : UnderWay(m)' => UnderWay(m)
    BY <2>1, Carried
  <2>3. CASE box' = box
    BY <2>1, <2>2, <2>3, AnsweredKept
  <2>4. CASE box' # box
    <3>1. PICK k \in Calls : k = handle[received.id] /\ received.id \in DOMAIN handle /\ Current(k)
                             /\ box[k[1]] = Empty
                             /\ box' = [box EXCEPT ![k[1]] = received] /\ received # Null
      BY <1>3, <2>4 DEF HandleMethodResponse, Table, CloseInv
    <3>2. received.of = k /\ received \in Answers /\ Entry(received.id, k)
      BY <3>1 DEF OwnInv, ClientTypes, ListedInv
    <3>3. k[1] \in Callers /\ Own(k[1]) = k
      BY <3>1, CallPairs DEF Own, Current
    <3>4. response[k[1]] = Null /\ Calling(k[1])
      BY <3>1, <3>2, <3>3 DEF AnsweredInv, Answered, Current
    <3>5. pc[k[1]] # "push"
      BY <3>1, <3>2, <3>3 DEF OnceInv, Pushed, Own
    <3>6. pc[k[1]] # "erase"
      BY <2>1, <3>1, <3>2, <3>3, <3>4 DEF AnsweredInv, Answered, Entry
    <3>7. ASSUME NEW d \in Callers PROVE Answered(d)'
      <4>1. Answered(d) /\ Null' = Null /\ Empty' = Empty /\ Own(d)' = Own(d)
        BY <2>1 DEF AnsweredInv, Null, Empty, Mark, Own
      <4>2. CASE d = k[1]
        <5>1. \A m \in Requests : UnderWay(m)' => m.of # Own(d)
          BY <2>2, <3>1, <3>2, <3>3, <4>2 DEF OnceInv
        <5>2. QED
          BY <2>1, <3>1, <3>4, <3>5, <3>6, <4>1, <4>2, <5>1 DEF Answered
      <4>3. CASE d # k[1]
        <5>1. box'[d] = box[d]
          BY <3>1, <4>3
        <5>2. QED
          BY <2>1, <2>2, <4>1, <5>1 DEF Answered
      <4>4. QED
        BY <4>2, <4>3
    <3>8. QED
      BY <3>7 DEF AnsweredInv
  <2>5. QED
    BY <2>3, <2>4
<1> QED
  BY <1>1, <1>2, <1>3

LEMMA NextAnswered ==
    ASSUME Types, CloseInv, OwnInv, OnceInv, ListedInv, AnsweredInv, [Next]_vars
    PROVE  AnsweredInv'
<1> HIDE DEF Calls, Requests, Answers, Table, Waiting, Empty, Shut, Null, Heartbeat, UnderWay
<1>1. ASSUME UNCHANGED <<pc, call, response, late, received>>, isClose => isClose',
             \A m \in Requests : UnderWay(m)' => UnderWay(m),
             \A c \in Callers : box'[c] \in Answers \cup {Empty} => box'[c] = box[c]
      PROVE  AnsweredInv'
  BY <1>1, AnsweredKept
<1>2. CASE UNCHANGED vars
  BY <1>1, <1>2, Carried DEF vars, callVars, closeVars, netVars
<1>3. CASE \/ BeatTick \/ BeatMark \/ PeerGone \/ CloseEnd
           \/ \E c \in Callers : Expire(c)
           \/ \E w \in {"user", "recv", "beat"} : Closer(w)
  BY <1>1, <1>3, Carried DEF BeatTick, BeatMark, PeerGone, CloseEnd, Expire, Closer, CloseAgain,
     CloseBegin, callVars, closeVars, netVars
<1>4. CASE BeatPush
  <2>1. \A m \in Requests : UnderWay(m)' => UnderWay(m)
    BY <1>4, Carried, Apart DEF BeatPush, netVars
  <2>2. QED
    BY <1>1, <1>4, <2>1 DEF BeatPush, callVars, closeVars
<1>5. ASSUME NEW k \in fired, CallTimeout(k) PROVE AnsweredInv'
  <2>1. \A c \in Callers : box'[c] \in Answers \cup {Empty} => box'[c] = box[c]
    BY <1>5, Apart DEF Types, CallTypes, CallTimeout
  <2>2. QED
    BY <1>1, <1>5, <2>1, Carried DEF CallTimeout, callVars, closeVars, netVars
<1>6. ASSUME NEW k \in closing, ClosePush(k) PROVE AnsweredInv'
  <2>1. \A c \in Callers : box'[c] \in Answers \cup {Empty} => box'[c] = box[c]
    BY <1>6, Apart DEF Types, CallTypes, ClosePush
  <2>2. QED
    BY <1>1, <1>6, <2>1, Carried DEF ClosePush, callVars, closeVars, netVars
<1>7. CASE Connect
  <2>1. UNCHANGED <<pc, box, response>> /\ conn = "new"
    BY <1>7 DEF Connect, callVars
  <2>2. \A c \in Callers : pc[c] = "idle" /\ box[c] = Empty /\ response[c] = Null
    BY <2>1 DEF CloseInv, Told, Calling
  <2>3. ASSUME NEW c \in Callers PROVE Answered(c)'
    <3>1. Null' = Null /\ Empty' = Empty
      BY DEF Null, Empty, Mark
    <3>2. QED
      BY <2>1, <2>2, <3>1, Apart DEF Answered
  <2>4. QED
    BY <2>3 DEF AnsweredInv
<1> QED
  BY <1>2, <1>3, <1>4, <1>5, <1>6, <1>7, CallerAnswered, FiberAnswered DEF Next, Caller, Receiver, Beat

LEMMA InitTable == Init => OnceInv /\ AnsweredInv /\ ListedInv
<1> HIDE DEF Empty, Null, Answers, Requests
<1> SUFFICES ASSUME Init PROVE OnceInv /\ AnsweredInv /\ ListedInv
  OBVIOUS
<1>1. \A c \in Callers : pc[c] = "idle" /\ box[c] = Empty /\ response[c] = Null
  BY DEF Init
<1>2. AnsweredInv
  BY <1>1, Apart DEF AnsweredInv, Answered
<1>3. DOMAIN handle = {}
  BY DEF Init
<1>4. ListedInv
  BY <1>1, <1>3 DEF ListedInv, Listed, Calling
<1> QED
  BY <1>2, <1>4, InitOnce

LEMMA TableNeverBlocks == TableInv => PushNeverBlocks
<1> HIDE DEF Calls, Requests, Answers, Empty, Shut, Null
<1> USE DEF TableInv, AnswerInv, Types
<1> SUFFICES ASSUME TableInv PROVE PushNeverBlocks
  OBVIOUS
<1>1. \A c \in Callers : box[c] \in Answers \cup {Empty, Shut, Null}
  BY DEF CallTypes
<1>2. ASSUME recv = "handle", mutex = "none", received.id \in DOMAIN handle, Current(handle[received.id])
      PROVE  box[handle[received.id][1]] \in {Empty, Shut}
  <2>1. PICK k \in Calls : k = handle[received.id]
    BY <1>2 DEF Table
  <2>2. received # Null /\ received.of = k /\ Entry(received.id, k)
    BY <1>2, <2>1 DEF CloseInv, OwnInv, ListedInv
  <2>3. k[1] \in Callers /\ Own(k[1]) = k
    BY <1>2, <2>1, CallPairs DEF Own, Current
  <2>4. box[k[1]] \notin Answers
    BY <2>2, <2>3 DEF AnsweredInv, Answered
  <2>5. box[k[1]] # Null
    BY <1>2, <2>1, <2>2, <2>3 DEF CloseInv, Told, Entry
  <2>6. QED
    BY <1>1, <2>1, <2>3, <2>4, <2>5
<1>3. ASSUME NEW k \in closing, Current(k), pc[k[1]] = "erase" PROVE box[k[1]] \in {Empty, Shut}
  <2>1. k[1] \in Callers /\ Own(k[1]) = k
    BY <1>3, CallPairs DEF Own, Current, ClientTypes
  <2>2. box[k[1]] \notin Answers /\ box[k[1]] # Null
    BY <1>3, <2>1 DEF AnsweredInv, Answered, CloseInv, Told
  <2>3. QED
    BY <1>1, <2>1, <2>2
<1> QED
  BY <1>2, <1>3 DEF PushNeverBlocks

LEMMA InvEntries == TableInv => EntriesSound
<1> SUFFICES ASSUME TableInv PROVE EntriesSound
  OBVIOUS
<1>1. WaiterReachable
  BY DEF TableInv, ListedInv, Listed, WaiterReachable, Calling, Own
<1>2. EntriesAreLive
  BY DEF TableInv, ListedInv, Entry, EntriesAreLive
<1>3. TypeOK
  BY TypesTypeOK DEF TableInv, AnswerInv
<1> QED
  BY <1>1, <1>2, <1>3, TableNeverBlocks DEF EntriesSound

\* RpcClient::call, close, handle_method_response: m_response_handle has the
\* calls in progress and no others, each is reached by its number or has been
\* told, and neither close() nor the receiving fiber waits on a channel that is
\* full with m_mutex held, as long as no sequence number comes round too soon.
THEOREM EntriesCorrect == Spec /\ []NumberFree => []EntriesSound
<1>1. Init => TableInv
  BY InitTypes, InitClose, InitOwn, InitTable DEF TableInv, AnswerInv
<1>2. TableInv /\ NumberFree /\ [Next]_vars => TableInv'
  <2> SUFFICES ASSUME TableInv, NumberFree, [Next]_vars PROVE TableInv'
    OBVIOUS
  <2>1. Types /\ CloseInv /\ OwnInv /\ OnceInv /\ AnsweredInv /\ ListedInv
    BY DEF TableInv, AnswerInv
  <2>2. Types' /\ CloseInv' /\ OwnInv'
    BY <2>1, NextTypes, NextClose, NextOwn
  <2>3. OnceInv' /\ AnsweredInv' /\ ListedInv'
    BY <2>1, NextOnce, NextAnswered, NextListed
  <2>4. QED
    BY <2>2, <2>3 DEF TableInv, AnswerInv
<1> QED
  BY <1>1, <1>2, InvEntries, PTL DEF Spec

-----------------------------------------------------------------------------
(* When the numbers suffice *)

\* A client makes no more calls than there are sequence numbers.
CallsOf(k) == UNION {{c} \X (1..k.calls[c]) : c \in Callers}
FewCalls == \A k \in Clients : IsFiniteSet(CallsOf(k)) /\ Cardinality(CallsOf(k)) <= SequenceIds

\* The calls that have taken a number.
Past == {k \in CallsOf(client) : Begun(k)}

\* The numbers are taken in order, until every call has one.
Below ==
    /\ \A i \in DOMAIN handle : i < seq
    /\ \A c \in Callers : Calling(c) => id[c] < seq
    /\ \A m \in Requests : UnderWay(m) => m.id < seq
    /\ received # Null => received.id < seq

NumbersInv == Past = CallsOf(client) \/ (seq <= Cardinality(Past) /\ Below)

LEMMA OwnOfClient ==
    ASSUME Types
    PROVE  /\ CallsOf(client) \subseteq Calls
           /\ \A c \in Callers : call[c] >= 1 => Own(c) \in CallsOf(client)
<1>1. client \in Clients /\ client.calls \in [Callers -> Nat]
  BY DEF Types, ClientTypes
<1> DEFINE own(c, k) == {c} \X (1..k.calls[c])
<1>2. CallsOf(client) = UNION {own(c, client) : c \in Callers}
  BY DEF CallsOf
<1>3. Calls = UNION {own(c, k) : c \in Callers, k \in Clients}
  BY DEF Calls
<1>4. ASSUME NEW c \in Callers, call[c] >= 1 PROVE Own(c) \in own(c, client)
  <2>1. call[c] \in 1..client.calls[c]
    BY <1>1, <1>4 DEF Types, CallTypes, Positions
  <2>2. QED
    BY <2>1 DEF Own
<1> HIDE DEF own
<1> QED
  BY <1>1, <1>2, <1>3, <1>4

LEMMA NumbersFree == Types /\ NumbersInv => NumberFree
<1> HIDE DEF Calls, Requests, Null, UnderWay
<1> SUFFICES ASSUME Types, NumbersInv, NEW c \in Callers, pc[c] = "register" PROVE NumberFree
  BY DEF NumberFree
<1>1. Own(c) \in CallsOf(client) /\ Own(c) \notin Past
  BY OwnOfClient DEF Types, Positions, Past, Begun, Own
<1>2. Below
  BY <1>1 DEF NumbersInv
<1>3. seq \in Nat /\ \A i \in Ids : i \in Nat
  BY DEF Types, ClientTypes, Ids
<1> QED
  BY <1>2, <1>3, Kinds DEF Below, NumberFree, Types, ClientTypes, CallTypes, Table, Ids

\* Steps at which no call takes a number.
LEMMA NumbersKept ==
    ASSUME Types, NumbersInv, FewCalls, [Next]_vars, seq' = seq, client' = client, Below => Below'
    PROVE  NumbersInv'
<1> HIDE DEF Below
<1>1. \A k \in CallsOf(client) : Begun(k) => Begun(k)'
  BY Onward, OwnOfClient
<1>2. Past \subseteq Past' /\ Past' \subseteq CallsOf(client)
  BY <1>1 DEF Past, CallsOf
<1>3. IsFiniteSet(CallsOf(client))
  BY DEF FewCalls, Types, ClientTypes
<1>4. IsFiniteSet(Past')
  BY <1>2, <1>3, FS_Subset
<1>5. Cardinality(Past) <= Cardinality(Past') /\ Cardinality(Past') \in Nat /\ Cardinality(Past) \in Nat
  BY <1>2, <1>4, FS_Subset, FS_CardinalityType
<1>6. (CallsOf(client) = Past) => (CallsOf(client) = Past)'
  <2>1. CallsOf(client)' = CallsOf(client)
    BY DEF CallsOf
  <2>2. QED
    BY <1>2, <2>1
<1>7. seq <= Cardinality(Past) => seq' <= Cardinality(Past')
  BY <1>5 DEF Types, ClientTypes, Ids
<1> QED
  BY <1>6, <1>7 DEF NumbersInv

LEMMA RegisterNumbers ==
    ASSUME Types, NumbersInv, FewCalls, NEW c \in Callers, Register(c)
    PROVE  NumbersInv'
<1> HIDE DEF Calls, Requests, Answers, Null, UnderWay
<1> USE DEF Types, CallTypes
<1>1. /\ UNCHANGED <<client, call, received, queue, net>>
      /\ handle' = Emplace(seq, Own(c)) /\ pc[c] = "register" /\ pc' = [pc EXCEPT ![c] = "push"]
      /\ id' = [id EXCEPT ![c] = seq] /\ seq' = NextId(seq)
  BY DEF Own, Register, Goto, netVars
<1>2. Own(c) \in CallsOf(client) /\ Own(c) \notin Past /\ CallsOf(client) \subseteq Calls
  BY <1>1, OwnOfClient DEF Positions, Past, Begun, Own
<1>3. seq \in Nat /\ seq <= Cardinality(Past) /\ Below
  BY <1>2 DEF NumbersInv, ClientTypes, Ids
<1>4. Past' = Past \cup {Own(c)} /\ Past' \subseteq CallsOf(client)
  <2>1. ASSUME NEW k \in CallsOf(client) PROVE Begun(k)' <=> Begun(k) \/ k = Own(c)
    <3>1. k[1] \in Callers /\ k[2] \in Nat /\ k = <<k[1], k[2]>>
      BY <1>2, CallPairs
    <3>2. QED
      BY <1>1, <3>1 DEF Begun, Own
  <2>2. Past' = {k \in CallsOf(client) : Begun(k)'}
    BY <1>1 DEF Past, CallsOf
  <2>3. QED
    BY <1>2, <2>1, <2>2 DEF Past
<1>5. IsFiniteSet(CallsOf(client)) /\ Cardinality(CallsOf(client)) <= SequenceIds
  BY DEF FewCalls, ClientTypes
<1>6. IsFiniteSet(Past)
  BY <1>4, <1>5, FS_Subset
<1>7. IsFiniteSet(Past \cup {Own(c)}) /\ Cardinality(Past \cup {Own(c)}) = Cardinality(Past) + 1
  BY <1>2, <1>6, FS_AddElement
<1>8. IsFiniteSet(Past') /\ Cardinality(Past') = Cardinality(Past) + 1
  BY ONLY <1>4, <1>7, Zenon
<1>9. Cardinality(Past) \in Nat /\ Cardinality(CallsOf(client)) \in Nat
  BY <1>5, <1>6, FS_CardinalityType
<1>10. CASE seq + 1 = SequenceIds
  <2>1. Cardinality(Past') <= Cardinality(CallsOf(client))
        /\ (Cardinality(CallsOf(client)) = Cardinality(Past') => CallsOf(client) = Past')
    BY <1>4, <1>5, FS_Subset
  <2>2. Cardinality(CallsOf(client)) = Cardinality(Past')
    BY <1>3, <1>5, <1>8, <1>9, <1>10, <2>1
  <2>3. CallsOf(client)' = CallsOf(client)
    BY <1>1 DEF CallsOf
  <2>4. QED
    BY <2>1, <2>2, <2>3 DEF NumbersInv
<1>11. CASE seq + 1 # SequenceIds
  <2>1. seq' = seq + 1 /\ seq' <= Cardinality(Past')
    BY <1>1, <1>3, <1>8, <1>9, <1>11 DEF NextId
  <2>2. DOMAIN handle' = DOMAIN handle \cup {seq}
    BY <1>1 DEF Emplace
  <2>3. \A i \in DOMAIN handle : i \in Nat /\ i < seq + 1
    BY <1>3 DEF Below, Table, Ids
  <2>4. \A i \in DOMAIN handle' : i < seq'
    BY <1>3, <2>1, <2>2, <2>3
  <2>5. (\A d \in Callers : Calling(d) => id[d] < seq)'
    BY <1>1, <1>3, <2>1 DEF Below, Calling, Ids
  <2>6. \A m \in Requests : UnderWay(m)' => m.id < seq'
    <3>1. \A m \in Requests : m.id \in Nat /\ (UnderWay(m)' => UnderWay(m))
      BY <1>1, Carried, Kinds DEF Ids
    <3>2. QED
      BY <1>3, <2>1, <3>1 DEF Below
  <2>7. (received # Null => received.id < seq)'
    <3>1. received # Null => received.id \in Nat
      BY Kinds DEF ClientTypes, Ids
    <3>2. Null' = Null
      BY DEF Null, Mark
    <3>3. QED
      BY <1>1, <1>3, <2>1, <3>1, <3>2 DEF Below
  <2>8. QED
    BY <2>1, <2>4, <2>5, <2>6, <2>7 DEF NumbersInv, Below
<1> QED
  BY <1>10, <1>11

LEMMA NextNumbers ==
    ASSUME Types, NumbersInv, FewCalls, [Next]_vars
    PROVE  NumbersInv'
<1> HIDE DEF Calls, Requests, Answers, Null, UnderWay, Table, Waiting, Heartbeat
<1>0. Null' = Null
  BY DEF Null, Mark
<1>1. ASSUME UNCHANGED <<client, seq, pc, id>>, DOMAIN handle' \subseteq DOMAIN handle,
             received' = received \/ received' = Null,
             \A m \in Requests : UnderWay(m)' => UnderWay(m)
      PROVE  NumbersInv'
  BY <1>0, <1>1, NumbersKept DEF Below, Calling
<1>2. ASSUME NEW c \in Callers, Caller(c) PROVE NumbersInv'
  <2>1. CASE Start(c)
    <3>1. UNCHANGED <<client, seq, handle, received, queue, net, id>>
      BY <2>1 DEF Start, netVars
    <3>2. \A d \in Callers : Calling(d)' => Calling(d)
      BY <2>1 DEF Types, CallTypes, Calling, Start, Goto
    <3>3. QED
      BY <1>0, <3>1, <3>2, Carried, NumbersKept DEF Below
  <2>2. CASE Register(c)
    BY <2>2, RegisterNumbers
  <2>3. CASE Push(c)
    <3>1. /\ UNCHANGED <<client, seq, handle, received, id, net>>
          /\ \A d \in Callers : Calling(d)' <=> Calling(d)
      BY <2>3 DEF Types, CallTypes, Calling, Push, Goto, netVars
    <3>2. PICK x : x = Request(id[c], Own(c))
      OBVIOUS
    <3>3. x \in Requests /\ x.id = id[c] /\ Calling(c) /\ Offer(x)
      BY <2>3, <3>2, OwnCall, Kinds DEF Push, Own, Calling, Types, CallTypes, Positions
    <3>4. \A m \in Requests : UnderWay(m)' => UnderWay(m) \/ m = x
      BY <3>1, <3>3, Carried
    <3>5. QED
      BY <1>0, <3>1, <3>3, <3>4, NumbersKept DEF Below
  <2>4. CASE Pop(c) \/ Return(c)
    <3>1. /\ UNCHANGED <<client, seq, received, queue, net>>
          /\ DOMAIN handle' \subseteq DOMAIN handle
          /\ \A d \in Callers : Calling(d)' => Calling(d) /\ id'[d] = id[d]
      <4>1. CASE Pop(c)
        BY <4>1 DEF Types, CallTypes, Calling, Pop, Goto, netVars
      <4>2. CASE Return(c)
        BY <4>2 DEF Types, CallTypes, Calling, Return, Unregister, Goto, netVars
      <4>3. QED
        BY <2>4, <4>1, <4>2
    <3>2. QED
      BY <1>0, <3>1, Carried, NumbersKept DEF Below
  <2>5. QED
    BY <1>2, <2>1, <2>2, <2>3, <2>4 DEF Caller
<1>3. CASE \/ UNCHANGED vars \/ SenderEnd \/ Receiver \/ BeatTick \/ BeatMark \/ PeerGone \/ Connect
           \/ \E c \in Callers : Expire(c)
           \/ \E k \in fired : CallTimeout(k)
           \/ \E w \in {"user", "recv", "beat"} : Closer(w)
           \/ \E k \in closing : ClosePush(k)
  <2>1. /\ UNCHANGED <<client, seq, pc, id, handle, net>> /\ queue' \in {queue, <<>>}
        /\ received' = received \/ received' = Null
    BY <1>3 DEF vars, SenderEnd, Receiver, RecvStart, RecvNull, HandleMethodResponse, BeatTick, BeatMark,
       PeerGone, Connect, Expire, CallTimeout, Closer, CloseAgain, CloseBegin, ClosePush, callVars, netVars
  <2>2. QED
    BY <1>1, <2>1, Carried
<1>4. CASE CloseEnd
  <2>1. UNCHANGED <<client, seq, pc, id, net, queue, received>> /\ DOMAIN handle' = {}
    BY <1>4 DEF CloseEnd, callVars, netVars
  <2>2. QED
    BY <1>1, <2>1, Carried
<1>5. CASE Send
  BY <1>1, <1>5, Carried DEF Send, callVars
<1>6. CASE BeatPush
  <2>1. \A m \in Requests : UnderWay(m)' => UnderWay(m)
    BY <1>6, Carried, Apart DEF BeatPush, netVars
  <2>2. QED
    BY <1>1, <1>6, <2>1 DEF BeatPush, callVars
<1>7. ASSUME NEW x \in net, Recv(x) PROVE NumbersInv'
  <2>1. UNCHANGED <<client, seq, pc, id, handle, queue>> /\ net' \subseteq net
    BY <1>7 DEF Recv, callVars
  <2>2. CASE x = Heartbeat
    BY <1>1, <1>7, <2>1, <2>2, Carried DEF Recv
  <2>3. CASE x # Heartbeat
    <3>1. PICK k \in AnswerKinds : received' = [x EXCEPT !.kind = k]
      BY <1>7, <2>3 DEF Recv
    <3>2. x \in Requests /\ UnderWay(x)
      BY <2>3 DEF Types, ClientTypes, UnderWay
    <3>3. received'.id = x.id
      BY <3>1, <3>2 DEF Requests
    <3>4. QED
      BY <2>1, <3>2, <3>3, Carried, NumbersKept DEF Below, Calling
  <2>4. QED
    BY <2>2, <2>3
<1> QED
  BY <1>2, <1>3, <1>4, <1>5, <1>6, <1>7 DEF Next, Beat

LEMMA InitNumbers == FewCalls /\ Init => NumbersInv
<1> HIDE DEF Calls, Requests, Null
<1> SUFFICES ASSUME FewCalls, Init PROVE NumbersInv
  OBVIOUS
<1>1. IsFiniteSet(CallsOf(client))
  BY DEF FewCalls, Init
<1>2. Past \subseteq CallsOf(client)
  BY DEF Past
<1>3. IsFiniteSet(Past)
  BY <1>1, <1>2, FS_Subset
<1>4. Cardinality(Past) \in Nat
  BY <1>3, FS_CardinalityType
<1>5. DOMAIN handle = {} /\ DOMAIN queue = {} /\ seq = 0
  BY DEF Init
<1> QED
  BY <1>4, <1>5 DEF Init, NumbersInv, Below, Calling, UnderWay

\* RpcClient::call: no number is given to two calls at once, nor to one while an
\* answer to an earlier one is under way, when the client makes no more calls
\* than there are numbers; so the two theorems above hold of it.
THEOREM NumbersNeverMeet == ASSUME FewCalls PROVE Spec => []NumberFree
<1>1. Init => Types /\ NumbersInv
  BY InitTypes, InitNumbers
<1>2. Types /\ NumbersInv /\ [Next]_vars => Types' /\ NumbersInv'
  BY NextTypes, NextNumbers
<1> QED
  BY <1>1, <1>2, NumbersFree, PTL DEF Spec

=============================================================================
