------------------------------- MODULE RpcClient -------------------------------
(***************************************************************************)
(* One client of the RPC layer (acid/rpc/rpc_client.h, rpc_client.cpp) and *)
(* the connection to its server.                                           *)
(*                                                                         *)
(* Any number of fibers call: each takes a sequence number, leaves a       *)
(* channel under it in m_response_handle, hands its request to the sending *)
(* fiber and waits, perhaps with a time limit.  The receiving fiber brings *)
(* answers to the channels, in whatever order the server gives them.  A    *)
(* heartbeat timer watches the connection, and close() may be called by    *)
(* the user, by the receiving fiber and by the heartbeat.                  *)
(*                                                                         *)
(* A step is one critical section of m_mutex or of a Channel.  Channels    *)
(* are the ones CoSync models.  The connection is abstract: it delivers    *)
(* whole messages or ends, and it always takes a message (a message is     *)
(* small beside a socket buffer).  The calls of a client number less than  *)
(* 2^32 - 1 while an answer is under way (SequenceIds below).              *)
(***************************************************************************)
EXTENDS Naturals, Sequences, FiniteSets, TLC

CONSTANTS
    Callers,       \* fibers that call
    Clients,       \* bound: the clients checked: whether they have a heartbeat
                   \* and a time limit, and how often each caller calls
    SequenceIds,   \* number of sequence numbers (UINT32_MAX in the code)
    Capacity,      \* g_channel_capacity, the capacity of m_channel
    AnswerKinds    \* what a server's answer may hold

ASSUME RpcClientAssumption ==
    /\ SequenceIds \in Nat \ {0} /\ Capacity \in Nat \ {0}
    /\ Clients \subseteq [auto : BOOLEAN, limited : BOOLEAN, calls : [Callers -> Nat]]
    /\ AnswerKinds \subseteq {"value", "empty", "mismatch"}

Calls == UNION {{c} \X (1..k.calls[c]) : c \in Callers, k \in Clients}
Ids == 0..(SequenceIds - 1)
\* Messages, and what a channel may hold beside an answer.
Mark(k) == [id |-> 0, of |-> <<"none", 0>>, kind |-> k]
Heartbeat == Mark("heartbeat")
Null == Mark("null")
Empty == Mark("nothing")
Shut == Mark("closed")
Request(i, k) == [id |-> i, of |-> k, kind |-> "request"]
Requests == [id : Ids, of : Calls, kind : {"request"}]
Answers == [id : Ids, of : Calls, kind : AnswerKinds]

VARIABLES
    client,      \* which client this is: m_auto_heartbeat, m_timeout # -1
    conn,        \* m_session: "new" (none), "up" or "closed"
    isClose,     \* m_is_close
    heartClose,  \* m_is_heart_close
    mutex,       \* who is inside close() with m_mutex, "none" if nobody
    closing,     \* channels close() has still to push nullptr into
    handle,      \* m_response_handle: sequence number -> call
    seq,         \* m_sequence_id
    queue,       \* m_channel
    queueOpen,   \* m_channel is not closed
    pc,          \* where each caller is
    call,        \* number of its current or last call
    id,          \* id, and the iterator it, of that call
    late,        \* history: it registered after m_is_close was set
    box,         \* the Channel (of capacity 1) of that call
    response,    \* what the call has taken from it
    timer,       \* callers whose timer is in TimerManager
    fired,       \* calls whose timer callback is in the task list
    timeout,     \* the local timeout of the call
    recv,        \* where handle_recv() is
    received,    \* the response it handles
    sender,      \* handle_send() runs
    heart,       \* m_heart_timer is in TimerManager
    beat,        \* where the callback of the heartbeat timer is
    heard,       \* history: a message came after the last heartbeat was queued
    user,        \* whether the user has called close()
    peer,        \* the server's end is open
    net          \* requests the server has, or whose answers are on their way

closeVars == <<isClose, mutex, closing>>
callVars == <<pc, call, id, late, response>>
timerVars == <<timer, fired, timeout>>
heartVars == <<heart, beat, heard, heartClose>>
netVars == <<peer, net>>
vars == <<client, conn, closeVars, handle, seq, queue, queueOpen, callVars,
          box, timerVars, recv, received, sender, heartVars, user, netVars>>

TypeOK ==
    /\ client \in Clients
    /\ {isClose, heartClose, queueOpen, sender, heart, heard} \subseteq BOOLEAN
    /\ conn \in {"new", "up", "closed"} /\ mutex \in {"none", "user", "recv", "beat"}
    /\ closing \subseteq Calls /\ seq \in Ids
    /\ DOMAIN handle \subseteq Ids /\ \A i \in DOMAIN handle : handle[i] \in Calls
    /\ Len(queue) <= Capacity
    /\ \A i \in DOMAIN queue : queue[i] \in Requests \cup {Heartbeat}
    /\ pc \in [Callers -> {"idle", "register", "push", "wait", "erase"}]
    /\ \A c \in Callers :
        /\ call[c] \in 0..client.calls[c] /\ id[c] \in Ids
        /\ box[c] \in Answers \cup {Empty, Shut, Null}
        /\ response[c] \in Answers \cup {Null}
    /\ {late, timeout} \subseteq [Callers -> BOOLEAN]
    /\ timer \subseteq Callers /\ fired \subseteq Calls
    /\ recv \in {"off", "scheduled", "recv", "handle", "closing", "dropped", "end"}
    /\ received \in Answers \cup {Null}
    /\ beat \in {"idle", "closing", "push", "mark"} /\ user \in {"open", "done"}
    /\ peer \in BOOLEAN /\ net \subseteq Requests \cup {Heartbeat}

Init ==
    /\ client \in Clients
    /\ conn = "new" /\ isClose = TRUE /\ heartClose = TRUE
    /\ mutex = "none" /\ closing = {} /\ handle = <<>> /\ seq = 0
    /\ queue = <<>> /\ queueOpen = TRUE
    /\ pc = [c \in Callers |-> "idle"] /\ call = [c \in Callers |-> 0]
    /\ id = [c \in Callers |-> 0] /\ late = [c \in Callers |-> FALSE]
    /\ box = [c \in Callers |-> Empty] /\ response = [c \in Callers |-> Null]
    /\ timer = {} /\ fired = {}
    /\ timeout = [c \in Callers |-> FALSE]
    /\ recv = "off" /\ received = Null /\ sender = FALSE
    /\ heart = FALSE /\ beat = "idle" /\ heard = FALSE /\ user = "open"
    /\ peer = TRUE /\ net = {}

Goto(c, label) == pc' = [pc EXCEPT ![c] = label]
Calling(c) == pc[c] \in {"push", "wait", "erase"}
Current(k) == call[k[1]] = k[2] /\ Calling(k[1])

\* m_channel << m: it waits for room, and returns at once when closed.
Offer(m) ==
    IF queueOpen
    THEN Len(queue) < Capacity /\ queue' = Append(queue, m)
    ELSE queue' = queue

-----------------------------------------------------------------------------
(* Connecting *)

\* A failed attempt leaves the client as it was.
Connect ==
    /\ conn = "new"
    /\ conn' = "up" /\ isClose' = FALSE /\ heartClose' = FALSE
    /\ queue' = <<>> /\ recv' = "scheduled" /\ sender' = TRUE
    /\ heart' = client.auto
    /\ UNCHANGED <<client, mutex, closing, handle, seq, queueOpen, callVars, box,
                   timerVars, received, beat, heard, user, netVars>>

(* call() *)

\* call(); callback() and async_call() run it in a fiber of their own.
\* is_close() is looked at without m_mutex.
Start(c) ==
    /\ pc[c] = "idle" /\ call[c] < client.calls[c]
    /\ call' = [call EXCEPT ![c] = @ + 1]
    /\ Goto(c, IF conn = "up" THEN "register" ELSE "idle")
    /\ UNCHANGED <<client, conn, closeVars, handle, seq, queue, queueOpen, id, late, response,
                   box, timerVars, recv, received, sender, heartVars, user, netVars>>

\* emplace() keeps what is there.
Emplace(i, k) ==
    [j \in DOMAIN handle \cup {i} |-> IF j \in DOMAIN handle THEN handle[j] ELSE k]

NextId(i) == IF i + 1 = SequenceIds THEN 0 ELSE i + 1

Register(c) ==
    /\ pc[c] = "register" /\ mutex = "none"
    /\ id' = [id EXCEPT ![c] = seq]
    /\ handle' = Emplace(seq, <<c, call[c]>>)
    /\ seq' = NextId(seq)
    /\ late' = [late EXCEPT ![c] = isClose]
    /\ Goto(c, "push")
    /\ UNCHANGED <<client, conn, closeVars, queue, queueOpen, call, response, box,
                   timerVars, recv, received, sender, heartVars, user, netVars>>

\* The limit starts only when the request is in m_channel.
Push(c) ==
    /\ pc[c] = "push"
    /\ Offer(Request(id[c], <<c, call[c]>>))
    /\ timer' = IF client.limited THEN timer \cup {c} ELSE timer
    /\ Goto(c, "wait")
    /\ UNCHANGED <<client, conn, closeVars, handle, seq, queueOpen, call, id, late,
                   response, box, fired, timeout, recv, received,
                   sender, heartVars, user, netVars>>

Pop(c) ==
    /\ pc[c] = "wait" /\ box[c] # Empty
    /\ response' = [response EXCEPT ![c] = IF box[c] = Shut THEN Null ELSE box[c]]
    /\ box' = [box EXCEPT ![c] = IF @ = Shut THEN @ ELSE Empty]
    /\ timer' = timer \ {c}
    /\ Goto(c, "erase")
    /\ UNCHANGED <<client, conn, closeVars, handle, seq, queue, queueOpen, call, id,
                   late, fired, timeout, recv, received, sender,
                   heartVars, user, netVars>>

\* The RpcState the call returns; one that finds the client closed at its
\* start returns CLOSED.
Outcome(c) ==
    IF timeout[c] THEN "TIMEOUT"
    ELSE IF response[c] = Null THEN "CLOSED"
    ELSE [value |-> "SUCCESS", empty |-> "NO_METHOD", mismatch |-> "NO_MATCH"][response[c].kind]


Unregister(i) == [j \in DOMAIN handle \ {i} |-> handle[j]]

Return(c) ==
    /\ pc[c] = "erase" /\ mutex = "none"
    /\ handle' = IF isClose THEN handle ELSE Unregister(id[c])
    /\ response' = [response EXCEPT ![c] = Null]
    /\ box' = [box EXCEPT ![c] = Empty]
    /\ timeout' = [timeout EXCEPT ![c] = FALSE]
    /\ late' = [late EXCEPT ![c] = FALSE]
    /\ id' = [id EXCEPT ![c] = 0]
    /\ Goto(c, "idle")
    /\ UNCHANGED <<client, conn, closeVars, seq, queue, queueOpen, call, timer, fired,
                   recv, received, sender, heartVars, user, netVars>>

\* The timer expires: its callback, which holds a copy of the channel and a
\* reference to timeout, is in the task list and can no longer be cancelled.
\* When the call has returned, the reference points into the fiber's stack:
\* at nothing in use, or at timeout of the fiber's next call.
Expire(c) ==
    /\ c \in timer
    /\ timer' = timer \ {c} /\ fired' = fired \cup {<<c, call[c]>>}
    /\ UNCHANGED <<client, conn, closeVars, handle, seq, queue, queueOpen, callVars, box,
                   timeout, recv, received, sender, heartVars, user, netVars>>

\* Mutant: the callback sets timeout and leaves the channel open.
TimeoutLeavesOpen(k) ==
    /\ k \in fired /\ fired' = fired \ {k}
    /\ timeout' = IF Current(k) THEN [timeout EXCEPT ![k[1]] = TRUE] ELSE timeout
    /\ UNCHANGED <<client, conn, closeVars, handle, seq, queue, queueOpen, callVars, box, timer,
                   recv, received, sender, heartVars, user, netVars>>


CallTimeout(k) ==
    /\ k \in fired /\ fired' = fired \ {k}
    /\ box' = IF Current(k) THEN [box EXCEPT ![k[1]] = Shut] ELSE box
    /\ timeout' \in IF Current(k) THEN {[timeout EXCEPT ![k[1]] = TRUE]}
                    ELSE {timeout, [timeout EXCEPT ![k[1]] = Calling(k[1])]}
    /\ UNCHANGED <<client, conn, closeVars, handle, seq, queue, queueOpen, callVars, timer,
                   recv, received, sender, heartVars, user, netVars>>

-----------------------------------------------------------------------------
(* The sending and the receiving fiber *)

Send ==
    /\ sender /\ queue # <<>>
    /\ queue' = Tail(queue)
    /\ net' = IF conn = "up" /\ peer THEN net \cup {Head(queue)} ELSE net
    /\ UNCHANGED <<client, conn, closeVars, handle, seq, queueOpen, callVars, box, timerVars,
                   recv, received, sender, heartVars, user, peer>>

SenderEnd ==
    /\ sender /\ ~queueOpen /\ sender' = FALSE
    /\ UNCHANGED <<client, conn, closeVars, handle, seq, queue, queueOpen, callVars, box,
                   timerVars, recv, received, heartVars, user, netVars>>

RecvStart ==
    /\ recv = "scheduled"
    /\ recv' = IF conn = "up" THEN "recv" ELSE "end"
    /\ UNCHANGED <<client, conn, closeVars, handle, seq, queue, queueOpen, callVars, box,
                   timerVars, received, sender, heartVars, user, netVars>>

\* The answer to m comes: the server answers in any order, or never.
Recv(m) ==
    /\ recv = "recv" /\ conn = "up" /\ m \in net
    /\ net' = net \ {m}
    /\ heartClose' = FALSE /\ heard' = TRUE
    /\ IF m = Heartbeat
       THEN UNCHANGED <<recv, received>>
       ELSE recv' = "handle" /\ \E k \in AnswerKinds : received' = [m EXCEPT !.kind = k]
    /\ UNCHANGED <<client, conn, closeVars, handle, seq, queue, queueOpen, callVars, box,
                   timerVars, sender, heart, beat, user, peer>>

\* recv_protocol() returns null: the server has gone, or the socket is closed.
RecvNull ==
    /\ recv = "recv" /\ (~peer \/ conn = "closed")
    /\ recv' = "closing"
    /\ UNCHANGED <<client, conn, closeVars, handle, seq, queue, queueOpen, callVars, box,
                   timerVars, received, sender, heartVars, user, netVars>>

\* Mutant: an answer whose call has gone is given to another call.
AnswerAnyone ==
    /\ recv = "handle" /\ mutex = "none"
    /\ \E i \in IF received.id \in DOMAIN handle THEN {received.id} ELSE DOMAIN handle :
        /\ Current(handle[i]) /\ box[handle[i][1]] = Empty
        /\ box' = [box EXCEPT ![handle[i][1]] = received]
    /\ recv' = "recv" /\ received' = Null
    /\ UNCHANGED <<client, conn, closeVars, handle, seq, queue, queueOpen, callVars,
                   timerVars, sender, heartVars, user, netVars>>

\* An answer nobody waits for is dropped; so is one for a closed channel.
HandleMethodResponse ==
    /\ recv = "handle" /\ mutex = "none"
    /\ LET i == received.id
       IN IF i \in DOMAIN handle /\ Current(handle[i]) /\ box[handle[i][1]] # Shut
          THEN /\ box[handle[i][1]] = Empty
               /\ box' = [box EXCEPT ![handle[i][1]] = received]
          ELSE UNCHANGED box
    /\ recv' = "recv" /\ received' = Null
    /\ UNCHANGED <<client, conn, closeVars, handle, seq, queue, queueOpen, callVars,
                   timerVars, sender, heartVars, user, netVars>>

-----------------------------------------------------------------------------
(* close() *)

CanClose(w) ==
    \/ w = "user" /\ user = "open"
    \/ w = "recv" /\ recv = "closing"
    \/ w = "beat" /\ beat = "closing"

Closed(w, received_) ==
    /\ user' = IF w = "user" THEN "done" ELSE user
    /\ recv' = IF w = "recv" THEN "end" ELSE received_
    /\ beat' = IF w = "beat" THEN "push" ELSE beat

CloseAgain(w) ==
    /\ CanClose(w) /\ mutex = "none" /\ isClose
    /\ Closed(w, recv)
    /\ UNCHANGED <<client, conn, closeVars, handle, seq, queue, queueOpen, callVars, box,
                   timerVars, received, sender, heart, heard, heartClose, netVars>>

\* Mutant: the map is emptied without telling the waiting calls.
CloseSilently(w) ==
    /\ CanClose(w) /\ mutex = "none" /\ ~isClose
    /\ mutex' = w /\ isClose' = TRUE /\ heartClose' = TRUE
    /\ queueOpen' = FALSE /\ queue' = <<>> /\ closing' = {}
    /\ UNCHANGED <<client, conn, handle, seq, callVars, box, timerVars, recv, received,
                   sender, heart, beat, heard, user, netVars>>


CloseBegin(w) ==
    /\ CanClose(w) /\ mutex = "none" /\ ~isClose
    /\ mutex' = w /\ isClose' = TRUE /\ heartClose' = TRUE
    /\ queueOpen' = FALSE /\ queue' = <<>>
    /\ closing' = {handle[i] : i \in DOMAIN handle}
    /\ UNCHANGED <<client, conn, handle, seq, callVars, box, timerVars, recv, received,
                   sender, heart, beat, heard, user, netVars>>

\* i.second << nullptr waits while an answer is in the channel.
ClosePush(k) ==
    /\ k \in closing /\ closing' = closing \ {k}
    /\ IF Current(k) /\ box[k[1]] # Shut
       THEN box[k[1]] = Empty /\ box' = [box EXCEPT ![k[1]] = Null]
       ELSE UNCHANGED box
    /\ UNCHANGED <<client, conn, isClose, mutex, handle, seq, queue, queueOpen, callVars,
                   timerVars, recv, received, sender, heartVars, user, netVars>>

\* del_event() forgets a handle_recv() that waits for input: it never resumes.
CloseEnd ==
    /\ mutex # "none" /\ closing = {}
    /\ handle' = <<>> /\ heart' = FALSE /\ conn' = "closed"
    /\ mutex' = "none"
    /\ Closed(mutex, IF recv = "recv" THEN "dropped" ELSE recv)
    /\ UNCHANGED <<client, isClose, closing, seq, queue, queueOpen, callVars, box,
                   timerVars, received, sender, heard, heartClose, netVars>>

-----------------------------------------------------------------------------
(* The heartbeat; one callback ends before the next period begins. *)

BeatTick ==
    /\ heart /\ beat = "idle"
    /\ beat' = IF heartClose THEN "closing" ELSE "push"
    /\ UNCHANGED <<client, conn, closeVars, handle, seq, queue, queueOpen, callVars, box,
                   timerVars, recv, received, sender, heart, heard, heartClose, user, netVars>>

BeatPush ==
    /\ beat = "push" /\ Offer(Heartbeat)
    /\ beat' = "mark" /\ heard' = FALSE
    /\ UNCHANGED <<client, conn, closeVars, handle, seq, queueOpen, callVars, box, timerVars,
                   recv, received, sender, heart, heartClose, user, netVars>>

\* Mutant: the heartbeat does not record that an answer is due.
BeatForgets ==
    /\ beat = "mark" /\ beat' = "idle"
    /\ UNCHANGED <<client, conn, closeVars, handle, seq, queue, queueOpen, callVars, box,
                   timerVars, recv, received, sender, heart, heard, heartClose, user, netVars>>


BeatMark ==
    /\ beat = "mark" /\ beat' = "idle" /\ heartClose' = TRUE
    /\ UNCHANGED <<client, conn, closeVars, handle, seq, queue, queueOpen, callVars, box,
                   timerVars, recv, received, sender, heart, heard, user, netVars>>

-----------------------------------------------------------------------------
(* The server goes away. *)

PeerGone ==
    /\ peer /\ conn = "up" /\ peer' = FALSE
    /\ UNCHANGED <<client, conn, closeVars, handle, seq, queue, queueOpen, callVars, box,
                   timerVars, recv, received, sender, heartVars, user, net>>

-----------------------------------------------------------------------------
Caller(c) == Start(c) \/ Register(c) \/ Push(c) \/ Pop(c) \/ Return(c)
Receiver == RecvStart \/ RecvNull \/ HandleMethodResponse
Closer(w) == CloseAgain(w) \/ CloseBegin(w)
Beat == BeatTick \/ BeatPush \/ BeatMark

Next ==
    \/ Connect
    \/ \E c \in Callers : Caller(c) \/ Expire(c)
    \/ \E k \in fired : CallTimeout(k)
    \/ Send \/ SenderEnd \/ Receiver
    \/ \E w \in {"user", "recv", "beat"} : Closer(w)
    \/ (\E k \in closing : ClosePush(k)) \/ CloseEnd
    \/ Beat
    \/ (\E m \in net : Recv(m)) \/ PeerGone

Spec == Init /\ [][Next]_vars

\* Ready fibers run, timers expire and the heartbeat ticks.  Nothing is asked
\* of the server or of the user.
Fairness ==
    /\ \A c \in Callers :
        /\ WF_vars(Register(c) \/ Push(c) \/ Pop(c) \/ Return(c))
        /\ WF_vars(Expire(c)) /\ WF_vars(\E k \in fired : k[1] = c /\ CallTimeout(k))
    /\ WF_vars(Send) /\ WF_vars(Receiver) /\ WF_vars(Beat)
    /\ WF_vars(Closer("recv")) /\ WF_vars(Closer("beat"))
    /\ WF_vars(\E k \in closing : ClosePush(k)) /\ WF_vars(CloseEnd)

FairSpec == Spec /\ Fairness

-----------------------------------------------------------------------------
(* Properties *)

\* An answer reaches the call it answers and no other: one that arrives after
\* its call has timed out, or out of order, is never taken for another's.  And
\* a call is told that the client is closed only when it is.
AnswerIsOwn ==
    \A c \in Callers : pc[c] = "erase" =>
        /\ response[c] # Null => response[c].of = <<c, call[c]>>
        /\ Outcome(c) = "CLOSED" => isClose

\* A waiting call can still be reached: its channel is in m_response_handle
\* under its number, unless close() has emptied the map, and then close() has
\* put nullptr in its channel or is about to.  The exception is a call that
\* passed is_close() before close() and registered after it.
WaiterReachable ==
    \A c \in Callers :
        pc[c] \in {"push", "wait"} /\ box[c] = Empty /\ ~late[c] =>
            /\ id[c] \in DOMAIN handle /\ handle[id[c]] = <<c, call[c]>>
            /\ isClose => mutex # "none" /\ <<c, call[c]>> \in closing

\* Until the client is closed every entry belongs to a call in progress: the
\* map does not grow, no answer is pushed into a channel of the past, and no
\* two calls have one number (emplace() would hand the second the channel of
\* the first).
EntriesAreLive ==
    \A i \in DOMAIN handle :
        ~isClose => Current(handle[i]) /\ id[handle[i][1]] = i

\* close() and the receiving fiber never wait on a full channel with m_mutex
\* held, which would stop every call of the client.
PushNeverBlocks ==
    /\ recv = "handle" /\ mutex = "none" /\ received.id \in DOMAIN handle =>
        LET k == handle[received.id] IN Current(k) => box[k[1]] \in {Empty, Shut}
    /\ \A k \in closing : Current(k) /\ pc[k[1]] = "erase" => box[k[1]] \in {Empty, Shut}

\* A call with a time limit ends, whatever the server, the user and the
\* heartbeat do: close() waits for it only while it can go on by itself.
TimedCallsEnd ==
    \A c \in Callers : (client.limited /\ pc[c] = "wait") ~> (pc[c] = "idle")

\* A client with a heartbeat does not stay connected to a silent server.
SilentPeerNoticed ==
    client.auto => ([]<>(conn # "up")) \/ []<><<\E m \in net : Recv(m)>>_vars

\* "No reply was received, so the heartbeat has failed": the heartbeat closes
\* a connection only if nothing came since the last heartbeat.
HeartbeatJust == [][beat = "idle" /\ beat' = "closing" => ~heard]_vars

\* m_response_handle has the calls in progress, each reachable by its number
\* and able to take what comes (RpcClient::call, close, handle_method_response).
EntriesSound == TypeOK /\ WaiterReachable /\ EntriesAreLive /\ PushNeverBlocks
=============================================================================
