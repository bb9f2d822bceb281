---------------------------- MODULE Stream_proofs ----------------------------
(***************************************************************************)
(* Proofs about the two layers under every connection.                     *)
(*                                                                         *)
(* Hook, for any fibers, any number of threads and any number of calls and *)
(* sockets: the context of a descriptor belongs to its socket, a time-out  *)
(* to its call, no timer outlives its wait, and on one thread a waiting    *)
(* fiber of finitely many is registered.                                   *)
(*                                                                         *)
(* Wire, for any values, any size of the blocks and any bounds: what an    *)
(* array holds by position is read back, its list of blocks stays in step  *)
(* with its counters, and the peer is sent the frame and nothing else.     *)
(***************************************************************************)
EXTENDS Hook, Wire, FiniteSetTheorems, WellFoundedInduction, TLAPS

USE HookAssumption

\* The inductive strengthening of FreshContext: a close() and a socket() of the
\* number exclude each other, and a closed number has no context.
CtxInv ==
    /\ sock \in Nat /\ sockets \in Nat
    /\ ctx \in [sock : Nat, user_nonblock : BOOLEAN, timeout : SUBSET Limitable]
    /\ closer \in {"idle", "del", "close"} /\ opener \in {"idle", "get"}
    /\ ctx # NoCtx => ctx.sock = sock /\ sock # 0
    /\ closer # "idle" => sock # 0 /\ opener = "idle"
    /\ closer = "close" => ctx = NoCtx
    /\ opener = "get" => sock # 0 /\ ctx = NoCtx
    /\ sock # 0 /\ ctx = NoCtx => opener = "get" \/ closer = "close"

\* The descriptor is open and has its context at first.
LEMMA InitCtx == Init => CtxInv
  BY DEF Init, CtxInv, NoCtx

\* Every step keeps CtxInv.
LEMMA NextCtx == CtxInv /\ [Next]_vars => CtxInv'
<1> SUFFICES ASSUME CtxInv, [Next]_vars PROVE CtxInv'
  OBVIOUS
<1>1. ASSUME UNCHANGED <<sock, sockets, ctx, closer, opener>> PROVE CtxInv'
  BY <1>1 DEF CtxInv, NoCtx
<1>2. CASE CloseCancels
  BY <1>2 DEF CloseCancels, CtxInv, NoCtx
<1>3. CASE CloseDeletes
  BY <1>3 DEF CloseDeletes, CtxInv, NoCtx
<1>4. CASE CloseFd
  BY <1>4 DEF CloseFd, CtxInv, NoCtx
<1>5. CASE Open
  BY <1>5 DEF Open, CtxInv, NoCtx
<1>6. CASE OpenGets
  BY <1>6 DEF OpenGets, CtxInv, NoCtx
<1>7. ASSUME NEW d \in Limitable, SetTimeout(d) PROVE CtxInv'
  BY <1>7 DEF SetTimeout, CtxInv, NoCtx
<1>8. ASSUME NEW v \in BOOLEAN, SetUserNonblock(v) PROVE CtxInv'
  BY <1>8 DEF SetUserNonblock, CtxInv, NoCtx
<1>9. ASSUME NEW f \in Fibers,
             (\E k \in {"io", "connect"} : Call(f, k)) \/ FiberStep(f) \/ Resume(f)
             \/ EventFires(f) \/ TimerExpires(f)
      PROVE  UNCHANGED <<sock, sockets, ctx, closer, opener>>
  BY <1>9 DEF Call, FiberStep, TryDone, TryBlocks, AddTimer, AddEvent, AddRefused, SocketError,
              Resume, EventFires, TimerExpires, fdVars
<1>10. ASSUME NEW c \in Calls, CallbackStep(c) \/ CallbackCancels(c)
       PROVE  UNCHANGED <<sock, sockets, ctx, closer, opener>>
  BY <1>10 DEF CallbackStep, CallbackDropped, CallbackTimesOut, CallbackCancels, fdVars
<1>11. CASE UNCHANGED vars
  BY <1>1, <1>11 DEF vars, fdVars
<1>12. QED
  BY <1>1, <1>2, <1>3, <1>4, <1>5, <1>6, <1>7, <1>8, <1>9, <1>10, <1>11 DEF Next

\* FreshContext: whatever close(), socket() and the calls in progress do to the
\* number, its FdCtx is the one made for the socket behind it.
THEOREM ContextCorrect == Spec => []FreshContext
<1>1. CtxInv => FreshContext
  BY DEF CtxInv, FreshContext
<1>2. QED
  BY <1>1, InitCtx, NextCtx, PTL DEF Spec

-----------------------------------------------------------------------------
\* A timer belongs to a wait in progress, an expired one to a call made so far;
\* only a call in progress can be cancelled, and only by its own timer.
Stages == {"idle", "try", "timer", "add", "waiting", "woken", "error"}
CallInv ==
    /\ pc \in [Fibers -> Stages] /\ call \in [Fibers -> Nat]
    /\ cancelled \in [Fibers -> BOOLEAN]
    /\ errno \in [Fibers -> {"none", "other", "ETIMEDOUT"}]
    /\ timer \subseteq Fibers /\ registered \subseteq Fibers
    /\ \A c \in expired : /\ c[1] \in Fibers /\ c[2] \in Nat /\ c[2] <= call[c[1]]
                          /\ c[2] = call[c[1]] => c[1] \in due
    /\ \A f \in Fibers : cancelled[f] => f \in due /\ pc[f] # "idle"
    /\ \A f \in Fibers : errno[f] = "ETIMEDOUT" => f \in due
    /\ \A f \in timer : pc[f] \in {"add", "waiting", "woken"}
    /\ \A f \in registered : pc[f] = "waiting"

\* No call has been made at first.
LEMMA InitCall == Init => CallInv
  BY DEF Init, CallInv, Stages

\* A call begins under a new number.
LEMMA CallStarts ==
    ASSUME CallInv, NEW f \in Fibers, NEW k, Call(f, k)
    PROVE  CallInv'
<1>1. /\ pc[f] = "idle" /\ call' = [call EXCEPT ![f] = @ + 1]
      /\ errno' = [errno EXCEPT ![f] = "none"] /\ due' = due \ {f}
      /\ pc' = [pc EXCEPT ![f] = "try"] /\ UNCHANGED <<timer, expired, cancelled, registered>>
  BY DEF Call, Goto, fdVars
<1>2. pc' \in [Fibers -> Stages] /\ call' \in [Fibers -> Nat]
  BY <1>1 DEF CallInv, Stages
<1>3. errno' \in [Fibers -> {"none", "other", "ETIMEDOUT"}] /\ errno'[f] = "none"
  BY <1>1 DEF CallInv
<1>4. \A c \in expired' : /\ c[1] \in Fibers /\ c[2] \in Nat /\ c[2] <= call'[c[1]]
                           /\ c[2] = call'[c[1]] => c[1] \in due'
  BY <1>1 DEF CallInv
<1>5. \A g \in Fibers : cancelled'[g] => g \in due' /\ pc'[g] # "idle"
  BY <1>1 DEF CallInv
<1>6. \A g \in Fibers : errno'[g] = "ETIMEDOUT" => g \in due'
  BY <1>1, <1>3 DEF CallInv
<1>7. /\ \A g \in timer' : pc'[g] \in {"add", "waiting", "woken"}
      /\ \A g \in registered' : pc'[g] = "waiting"
  BY <1>1 DEF CallInv
<1>8. QED
  BY <1>1, <1>2, <1>3, <1>4, <1>5, <1>6, <1>7 DEF CallInv

\* A call returns: "ETIMEDOUT" only if it was cancelled, and without a timer.
LEMMA CallReturns ==
    ASSUME CallInv, NEW f \in Fibers, NEW e \in {"other", "ETIMEDOUT"}, Returns(f, e),
           e = "ETIMEDOUT" => cancelled[f], pc[f] # "waiting",
           timer' = timer \ {f}, UNCHANGED <<call, expired, due, registered>>
    PROVE  CallInv'
<1>1. /\ pc' = [pc EXCEPT ![f] = "idle"] /\ cancelled' = [cancelled EXCEPT ![f] = FALSE]
      /\ errno' = [errno EXCEPT ![f] = e]
  BY DEF Returns, Goto
<1>2. pc' \in [Fibers -> Stages] /\ cancelled' \in [Fibers -> BOOLEAN]
  BY <1>1 DEF CallInv, Stages
<1>3. errno' \in [Fibers -> {"none", "other", "ETIMEDOUT"}]
  BY <1>1 DEF CallInv
<1>4. \A g \in Fibers : cancelled'[g] => g \in due' /\ pc'[g] # "idle"
  BY <1>1 DEF CallInv
<1>5. \A g \in Fibers : errno'[g] = "ETIMEDOUT" => g \in due'
  BY <1>1 DEF CallInv
<1>6. /\ \A g \in timer' : pc'[g] \in {"add", "waiting", "woken"}
      /\ \A g \in registered' : pc'[g] = "waiting"
  BY <1>1 DEF CallInv
<1>7. QED
  BY <1>2, <1>3, <1>4, <1>5, <1>6 DEF CallInv

\* A call in progress goes to another stage; its timer only in a wait.
LEMMA CallGoesOn ==
    ASSUME CallInv, NEW f \in Fibers, NEW label \in Stages \ {"idle"}, Goto(f, label),
           timer' \subseteq timer \cup {f},
           f \in timer' => label \in {"add", "waiting", "woken"},
           pc[f] \notin {"idle", "waiting"}, registered' \subseteq registered \cup {f},
           f \in registered' => label = "waiting",
           UNCHANGED <<call, expired, due, cancelled, errno>>
    PROVE  CallInv'
<1>1. pc' = [pc EXCEPT ![f] = label]
  BY DEF Goto
<1>2. pc' \in [Fibers -> Stages]
  BY <1>1 DEF CallInv, Stages
<1>3. \A g \in Fibers : cancelled'[g] => g \in due' /\ pc'[g] # "idle"
  BY <1>1 DEF CallInv, Stages
<1>4. /\ \A g \in timer' : pc'[g] \in {"add", "waiting", "woken"}
      /\ \A g \in registered' : pc'[g] = "waiting"
  BY <1>1 DEF CallInv, Stages
<1>5. QED
  BY <1>2, <1>3, <1>4 DEF CallInv

\* Waiting fibers are woken, and at most one callback leaves the task list.
LEMMA FibersWoken ==
    ASSUME CallInv, NEW set \in SUBSET registered, registered' = registered \ set,
           pc' = [f \in Fibers |-> IF f \in set THEN "woken" ELSE pc[f]],
           expired' \subseteq expired,
           UNCHANGED <<call, timer, due, cancelled, errno>>
    PROVE  CallInv'
<1>1. pc' \in [Fibers -> Stages]
  BY DEF CallInv, Stages
<1>2. \A g \in Fibers : cancelled'[g] => g \in due' /\ pc'[g] # "idle"
  BY DEF CallInv
<1>3. /\ \A g \in timer' : pc'[g] \in {"add", "waiting", "woken"}
      /\ \A g \in registered' : pc'[g] = "waiting"
  BY DEF CallInv
<1>4. QED
  BY <1>1, <1>2, <1>3 DEF CallInv

\* The steps of a fiber in a call keep CallInv.
LEMMA FiberKeeps ==
    ASSUME CallInv, NEW f \in Fibers, FiberStep(f) \/ Resume(f)
    PROVE  CallInv'
<1>1. CASE TryDone(f)
  <2>1. f \notin timer /\ pc[f] = "try"
    BY <1>1 DEF TryDone, CallInv
  <2>2. Returns(f, "other") /\ UNCHANGED <<call, expired, due, registered, timer>>
    BY <1>1 DEF TryDone, fdVars
  <2>3. QED
    BY <2>1, <2>2, CallReturns
<1>2. CASE TryBlocks(f)
  <2>1. f \notin timer /\ f \notin registered /\ pc[f] = "try"
    BY <1>2 DEF TryBlocks, CallInv
  <2>2. \E label \in {"timer", "add"} : Goto(f, label)
    BY <1>2 DEF TryBlocks
  <2>3. UNCHANGED <<call, expired, due, cancelled, errno, timer, registered>>
    BY <1>2 DEF TryBlocks, fdVars, callVars, timerVars
  <2>4. QED
    BY <2>1, <2>2, <2>3, CallGoesOn DEF Stages
<1>3. CASE AddTimer(f)
  <2>1. f \notin registered /\ pc[f] = "timer"
    BY <1>3 DEF AddTimer, CallInv
  <2>2. Goto(f, "add") /\ timer' = timer \cup {f}
    BY <1>3 DEF AddTimer
  <2>3. UNCHANGED <<call, expired, due, cancelled, errno, registered>>
    BY <1>3 DEF AddTimer, fdVars, callVars
  <2>4. QED
    BY <2>1, <2>2, <2>3, CallGoesOn DEF Stages
<1>4. CASE AddEvent(f)
  <2>1. pc[f] = "add" /\ Goto(f, "waiting") /\ registered' = registered \cup {f}
    BY <1>4 DEF AddEvent
  <2>2. UNCHANGED <<call, expired, due, cancelled, errno, timer>>
    BY <1>4 DEF AddEvent, callVars, timerVars
  <2>3. QED
    BY <2>1, <2>2, CallGoesOn DEF Stages
<1>5. CASE AddRefused(f)
  <2>1. pc[f] = "add" /\ f \notin registered
    BY <1>5 DEF AddRefused, CallInv
  <2>2. timer' = timer \ {f} /\ UNCHANGED <<call, expired, due, registered>>
    BY <1>5 DEF AddRefused, TimerDropped, fdVars
  <2>3. \/ Returns(f, "other")
        \/ Goto(f, "error") /\ UNCHANGED <<cancelled, errno>>
    BY <1>5 DEF AddRefused
  <2>4. QED
    BY <2>1, <2>2, <2>3, CallReturns, CallGoesOn DEF Stages
<1>6. CASE SocketError(f)
  <2>1. f \notin timer /\ pc[f] = "error"
    BY <1>6 DEF SocketError, CallInv
  <2>2. Returns(f, "other") /\ UNCHANGED <<call, expired, due, registered, timer>>
    BY <1>6 DEF SocketError, fdVars
  <2>3. QED
    BY <2>1, <2>2, CallReturns
<1>7. CASE Resume(f)
  <2>1. pc[f] = "woken" /\ f \notin registered
    BY <1>7 DEF Resume, CallInv
  <2>2. timer' = timer \ {f} /\ UNCHANGED <<call, expired, due, registered>>
    BY <1>7 DEF Resume, TimerDropped, fdVars
  <2>3. CASE cancelled[f]
    BY <1>7, <2>1, <2>2, <2>3, CallReturns DEF Resume
  <2>4. CASE ~cancelled[f]
    <3>1. \E label \in {"try", "error"} : Goto(f, label)
      BY <1>7, <2>4 DEF Resume
    <3>2. UNCHANGED <<cancelled, errno>>
      BY <1>7, <2>4 DEF Resume
    <3>3. QED
      BY <2>1, <2>2, <3>1, <3>2, CallGoesOn DEF Stages
  <2>5. QED
    BY <2>3, <2>4
<1>8. QED
  BY <1>1, <1>2, <1>3, <1>4, <1>5, <1>6, <1>7 DEF FiberStep

\* So does the trigger of one event.
LEMMA EventWakes ==
    ASSUME CallInv, NEW f \in registered, Trigger({f}), expired' \subseteq expired,
           UNCHANGED <<call, timer, due, cancelled, errno>>
    PROVE  CallInv'
<1> DEFINE set == {f}
<1>1. set \subseteq registered
  OBVIOUS
<1>2. /\ registered' = registered \ set
      /\ pc' = [g \in Fibers |-> IF g \in set THEN "woken" ELSE pc[g]]
  BY DEF Trigger
<1> HIDE DEF set
<1>3. QED
  BY <1>1, <1>2, FibersWoken

\* The callbacks of timers keep CallInv.
LEMMA CallbackKeeps ==
    ASSUME CallInv, NEW c \in Calls, CallbackStep(c) \/ CallbackCancels(c)
    PROVE  CallInv'
<1>1. CASE CallbackDropped(c)
  BY <1>1 DEF CallbackDropped, CallInv, fdVars, callVars
<1>2. CASE CallbackTimesOut(c)
  <2>1. /\ c \in expired /\ call[c[1]] = c[2] /\ pc[c[1]] # "idle"
        /\ cancelled' = [cancelled EXCEPT ![c[1]] = TRUE]
        /\ UNCHANGED <<pc, call, errno, timer, expired, due, registered>>
    BY <1>2 DEF CallbackTimesOut, InfoAlive, fdVars, callVars
  <2>2. c[1] \in due /\ c[1] \in Fibers
    BY <2>1 DEF CallInv
  <2>3. cancelled' \in [Fibers -> BOOLEAN]
    BY <2>1, <2>2 DEF CallInv
  <2>4. \A f \in Fibers : cancelled'[f] => f \in due' /\ pc'[f] # "idle"
    BY <2>1, <2>2 DEF CallInv
  <2>5. QED
    BY <2>1, <2>3, <2>4 DEF CallInv
<1>3. CASE CallbackCancels(c)
  <2>1. expired' = expired \ {c} /\ UNCHANGED <<call, timer, due, cancelled, errno>>
    BY <1>3 DEF CallbackCancels, callVars
  <2>2. CASE c[1] \in registered /\ entry
    <3>1. Trigger({c[1]})
      BY <1>3, <2>2 DEF CallbackCancels, CancelEvent
    <3>2. expired' \subseteq expired /\ c[1] \in registered
      BY <2>1, <2>2
    <3>3. QED
      BY <2>1, <3>1, <3>2, EventWakes
  <2>3. CASE ~(c[1] \in registered /\ entry)
    <3>1. UNCHANGED <<registered, pc>>
      BY <1>3, <2>3 DEF CallbackCancels, CancelEvent
    <3>2. QED
      BY <2>1, <3>1 DEF CallInv
  <2>4. QED
    BY <2>2, <2>3
<1>4. QED
  BY <1>1, <1>2, <1>3 DEF CallbackStep

\* Every step keeps CallInv.
LEMMA NextCall == CallInv /\ [Next]_vars => CallInv'
<1> SUFFICES ASSUME CallInv, [Next]_vars PROVE CallInv'
  OBVIOUS
<1>1. ASSUME UNCHANGED <<pc, call, cancelled, errno, timer, registered, expired, due>>
      PROVE  CallInv'
  BY <1>1 DEF CallInv
<1>2. ASSUME NEW f \in Fibers, EventFires(f) PROVE CallInv'
  <2>1. f \in registered /\ Trigger({f}) /\ UNCHANGED <<call, expired, timer, due, cancelled, errno>>
    BY <1>2 DEF EventFires, callVars, timerVars
  <2>2. QED
    BY <2>1, EventWakes
<1>3. ASSUME NEW f \in Fibers, TimerExpires(f) PROVE CallInv'
  <2>1. /\ timer' = timer \ {f} /\ expired' = expired \cup {<<f, call[f]>>}
        /\ due' = due \cup {f} /\ UNCHANGED <<pc, call, cancelled, errno, registered>>
    BY <1>3 DEF TimerExpires, fdVars, callVars
  <2>2. \A c \in expired' : /\ c[1] \in Fibers /\ c[2] \in Nat /\ c[2] <= call'[c[1]]
                            /\ c[2] = call'[c[1]] => c[1] \in due'
    BY <2>1 DEF CallInv
  <2>3. QED
    BY <2>1, <2>2 DEF CallInv
<1>4. CASE CloseCancels
  <2>1. UNCHANGED <<call, expired, timer, due, cancelled, errno>>
    BY <1>4 DEF CloseCancels, callVars, timerVars
  <2>2. CASE entry
    BY <1>4, <2>1, <2>2, FibersWoken DEF CloseCancels, CancelAll, Trigger
  <2>3. CASE ~entry
    BY <1>1, <1>4, <2>1, <2>3 DEF CloseCancels, CancelAll
  <2>4. QED
    BY <2>2, <2>3
<1>5. CASE CloseDeletes \/ CloseFd \/ Open \/ OpenGets
  BY <1>1, <1>5 DEF CloseDeletes, CloseFd, Open, OpenGets, callVars, timerVars
<1>6. ASSUME NEW d, SetTimeout(d) \/ SetUserNonblock(d) PROVE CallInv'
  BY <1>1, <1>6 DEF SetTimeout, SetUserNonblock, callVars, timerVars
<1>7. CASE UNCHANGED vars
  BY <1>1, <1>7 DEF vars, fdVars, callVars, timerVars
<1>8. QED
  BY <1>2, <1>3, <1>4, <1>5, <1>6, <1>7, CallStarts, FiberKeeps, CallbackKeeps DEF Next

\* TimeoutIsOwn: do_io() and connect() report ETIMEDOUT only when a timer of
\* this call has expired; a callback that comes after its call does nothing.
THEOREM TimeoutCorrect == Spec => []TimeoutIsOwn
<1>1. CallInv => TimeoutIsOwn
  BY DEF CallInv, TimeoutIsOwn
<1>2. QED
  BY <1>1, InitCall, NextCall, PTL DEF Spec

\* NoTimerLeft: a call that ends, or that tries again, has no timer queued.
THEOREM TimersReleased == Spec => []NoTimerLeft
<1>1. CallInv => NoTimerLeft
  BY DEF CallInv, NoTimerLeft
<1>2. QED
  BY <1>1, InitCall, NextCall, PTL DEF Spec

-----------------------------------------------------------------------------
\* TypeOK but for the count of threads in use, with what its proof rests on.
CallTyped ==
    /\ threads \in ThreadCounts
    /\ sock \in 0..MaxSockets /\ sockets \in 0..MaxSockets
    /\ ctx \in [sock : 0..MaxSockets, user_nonblock : BOOLEAN, timeout : SUBSET Limitable]
    /\ entry \in BOOLEAN
    /\ kind \in [Fibers -> {"io", "connect"}] /\ to \in [Fibers -> BOOLEAN]
    /\ \A f \in Fibers : call[f] <= MaxCalls[f] /\ (pc[f] # "idle" => call[f] >= 1)
    /\ expired \subseteq Calls /\ cancelling \subseteq expired
    /\ due \subseteq Fibers

\* Every variable has its type at first.
LEMMA InitCallTyped == Init => CallTyped
<1> SUFFICES ASSUME Init PROVE CallTyped
  OBVIOUS
<1>1. 1 \in 0..MaxSockets
  OBVIOUS
<1>2. ctx \in [sock : 0..MaxSockets, user_nonblock : BOOLEAN, timeout : SUBSET Limitable]
  BY <1>1 DEF Init
<1>3. kind \in [Fibers -> {"io", "connect"}] /\ to \in [Fibers -> BOOLEAN]
  BY DEF Init
<1>4. \A f \in Fibers : call[f] <= MaxCalls[f] /\ (pc[f] # "idle" => call[f] >= 1)
  BY DEF Init
<1>5. QED
  BY <1>1, <1>2, <1>3, <1>4 DEF Init, CallTyped

\* A call that has begun is in Calls.
LEMMA CallIsOne ==
    ASSUME CallInv, CallTyped, NEW f \in Fibers, pc[f] # "idle"
    PROVE  <<f, call[f]>> \in Calls
<1>1. call[f] \in 1..MaxCalls[f]
  BY DEF CallInv, CallTyped
<1>2. <<f, call[f]>> \in {f} \X (1..MaxCalls[f])
  BY <1>1
<1>3. QED
  BY <1>2 DEF Calls

\* Every step keeps CallTyped.
LEMMA NextCallTyped ==
    ASSUME CtxInv, CallInv, CallTyped, [Next]_vars
    PROVE  CallTyped'
<1> USE DEF Goto, fdVars, callVars, timerVars
<1>0. pc \in [Fibers -> Stages] /\ call \in [Fibers -> Nat]
  BY DEF CallInv
<1>1. ASSUME NEW f \in Fibers, NEW k \in {"io", "connect"}, Call(f, k) PROVE CallTyped'
  <2>1. \A g \in Fibers : call'[g] <= MaxCalls[g] /\ (pc'[g] # "idle" => call'[g] >= 1)
    BY <1>0, <1>1 DEF Call, CallTyped
  <2>2. to' \in [Fibers -> BOOLEAN] /\ kind' \in [Fibers -> {"io", "connect"}]
    BY <1>1 DEF Call, CallTyped, Limit
  <2>3. QED
    BY <1>1, <2>1, <2>2 DEF Call, CallTyped
<1>2. ASSUME NEW f \in Fibers, FiberStep(f) \/ Resume(f) PROVE CallTyped'
  <2>1. /\ UNCHANGED <<threads, sock, sockets, ctx, call, expired, cancelling, due>>
        /\ \E label \in Stages : pc' = [pc EXCEPT ![f] = label]
        /\ pc[f] # "idle"
    BY <1>0, <1>2 DEF FiberStep, TryDone, TryBlocks, AddTimer, AddEvent, AddRefused, SocketError,
                      Resume, Returns, Stages
  <2>2. entry' \in BOOLEAN
    BY <1>2 DEF CallTyped, FiberStep, TryDone, TryBlocks, AddTimer, AddEvent, AddRefused, SocketError, Resume
  <2>3. kind' \in [Fibers -> {"io", "connect"}] /\ to' \in [Fibers -> BOOLEAN]
    BY <1>2 DEF CallTyped, FiberStep, TryDone, TryBlocks, AddTimer, AddEvent, AddRefused, SocketError,
                Resume, Returns
  <2>4. QED
    BY <1>0, <2>1, <2>2, <2>3 DEF CallTyped
<1>3. ASSUME NEW set \in SUBSET registered, Trigger(set),
             UNCHANGED <<threads, sock, sockets, ctx, callVars, due>>,
             expired' \subseteq expired, cancelling' \subseteq cancelling \cap expired'
      PROVE  CallTyped'
  <2>1. entry' \in BOOLEAN /\ \A f \in Fibers : pc'[f] # "idle" => pc[f] # "idle"
    BY <1>3 DEF Trigger, CallInv
  <2>2. QED
    BY <1>3, <2>1 DEF CallTyped
<1>4. ASSUME NEW f \in Fibers, EventFires(f) PROVE CallTyped'
  <2> DEFINE set == {f}
  <2>1. set \subseteq registered /\ Trigger(set) /\ cancelling \subseteq expired
    BY <1>4 DEF EventFires, CallTyped
  <2>2. UNCHANGED <<threads, sock, sockets, ctx, callVars, timerVars>>
    BY <1>4 DEF EventFires
  <2> HIDE DEF set
  <2>3. QED
    BY <1>3, <2>1, <2>2
<1>5. ASSUME NEW f \in Fibers, TimerExpires(f) PROVE CallTyped'
  <2>1. <<f, call[f]>> \in Calls
    BY <1>5, CallIsOne DEF TimerExpires, CallInv
  <2>2. QED
    BY <1>5, <2>1 DEF TimerExpires, CallTyped
<1>6. ASSUME NEW c \in Calls, CallbackStep(c) PROVE CallTyped'
  BY <1>6 DEF CallbackStep, CallbackDropped, CallbackTimesOut, CallTyped
<1>7. ASSUME NEW c \in Calls, CallbackCancels(c) PROVE CallTyped'
  <2>1. /\ UNCHANGED <<threads, sock, sockets, ctx, callVars, due>>
        /\ expired' = expired \ {c} /\ cancelling' = cancelling \ {c} /\ cancelling \subseteq expired
    BY <1>7 DEF CallbackCancels, CallTyped
  <2>2. CASE c[1] \in registered /\ entry
    <3> DEFINE set == {c[1]}
    <3>1. set \subseteq registered /\ Trigger(set)
      BY <1>7, <2>2 DEF CallbackCancels, CancelEvent
    <3> HIDE DEF set
    <3>2. QED
      BY <1>3, <2>1, <3>1
  <2>3. CASE ~(c[1] \in registered /\ entry)
    BY <1>7, <2>1, <2>3 DEF CallbackCancels, CancelEvent, CallTyped
  <2>4. QED
    BY <2>2, <2>3
<1>8. CASE CloseCancels
  <2>1. CASE entry
    BY <1>3, <1>8, <2>1 DEF CloseCancels, CancelAll, CallTyped
  <2>2. CASE ~entry
    BY <1>8, <2>2 DEF CloseCancels, CancelAll, CallTyped
  <2>3. QED
    BY <2>1, <2>2
<1>9. CASE CloseDeletes \/ CloseFd \/ Open \/ OpenGets
  <2>1. sock' \in 0..MaxSockets /\ sockets' \in 0..MaxSockets
    BY <1>9 DEF CloseDeletes, CloseFd, Open, OpenGets, CallTyped
  <2>2. ctx' \in [sock : 0..MaxSockets, user_nonblock : BOOLEAN, timeout : SUBSET Limitable]
    <3>1. NoCtx \in [sock : 0..MaxSockets, user_nonblock : BOOLEAN, timeout : SUBSET Limitable]
      BY DEF NoCtx
    <3>2. QED
      BY <1>9, <3>1 DEF CloseDeletes, CloseFd, Open, OpenGets, CallTyped
  <2>3. /\ UNCHANGED <<threads, pc, callVars, timerVars>> /\ entry' \in BOOLEAN
    BY <1>9 DEF CloseDeletes, CloseFd, Open, OpenGets, CallTyped
  <2>4. QED
    BY <2>1, <2>2, <2>3 DEF CallTyped
<1>10. ASSUME NEW d \in Limitable, SetTimeout(d) PROVE CallTyped'
  BY <1>10 DEF SetTimeout, CallTyped
<1>11. ASSUME NEW v \in BOOLEAN, SetUserNonblock(v) PROVE CallTyped'
  BY <1>11 DEF SetUserNonblock, CallTyped
<1>12. CASE UNCHANGED vars
  BY <1>12 DEF vars, CallTyped
<1>13. QED
  BY <1>1, <1>2, <1>4, <1>5, <1>6, <1>7, <1>8, <1>9, <1>10, <1>11, <1>12 DEF Next

-----------------------------------------------------------------------------
\* Fibers that occupy a thread, and 1 for a close() or a socket() that does.
Running == {f \in Fibers : pc[f] \in {"try", "timer", "add", "error"}}
One(label) == IF label = "idle" THEN 0 ELSE 1

\* No more threads are in use than there are.
Load == IsFiniteSet(cancelling) /\ InUse <= threads

\* A finite set that gains one element at most.
LEMMA OneMore ==
    ASSUME NEW S, IsFiniteSet(S), NEW x, NEW T \in SUBSET (S \cup {x})
    PROVE  IsFiniteSet(T) /\ Cardinality(T) <= Cardinality(S) + 1
<1>1. IsFiniteSet(S \cup {x}) /\ Cardinality(S \cup {x}) <= Cardinality(S) + 1
  BY FS_AddElement, FS_CardinalityType
<1>2. IsFiniteSet(T) /\ Cardinality(T) <= Cardinality(S \cup {x})
  BY <1>1, FS_Subset
<1>3. Cardinality(S) \in Nat /\ Cardinality(T) \in Nat /\ Cardinality(S \cup {x}) \in Nat
  BY <1>1, <1>2, FS_CardinalityType
<1>4. QED
  BY <1>1, <1>2, <1>3

\* The sum that InUse is.
LEMMA InUseIs ==
    ASSUME IsFiniteSet(Fibers), IsFiniteSet(cancelling)
    PROVE  /\ InUse = Cardinality(Running) + Cardinality(cancelling) + One(closer) + One(opener)
           /\ IsFiniteSet(Running) /\ Cardinality(Running) \in Nat
           /\ Cardinality(cancelling) \in Nat /\ One(closer) \in 0..1 /\ One(opener) \in 0..1
<1>1. Running \in SUBSET Fibers
  BY DEF Running
<1>2. IsFiniteSet(Running)
  BY <1>1, FS_Subset
<1>3. QED
  BY <1>2, FS_CardinalityType DEF InUse, Running, One

\* A step that starts nothing keeps Load.
LEMMA NothingStarts ==
    ASSUME IsFiniteSet(Fibers), threads \in Nat, Load, Running' \subseteq Running,
           cancelling' \subseteq cancelling, threads' = threads,
           closer' = "idle" \/ closer # "idle" \/ closer' = closer,
           opener' = "idle" \/ opener # "idle" \/ opener' = opener
    PROVE  Load'
<1>1. IsFiniteSet(cancelling') /\ Cardinality(cancelling') <= Cardinality(cancelling)
  BY FS_Subset DEF Load
<1>2. Cardinality(Running') <= Cardinality(Running)
  BY InUseIs, FS_Subset DEF Load
<1>3. InUse' = Cardinality(Running') + Cardinality(cancelling') + One(closer') + One(opener')
  BY <1>1, InUseIs DEF InUse, Running, One
<1>4. Cardinality(Running') \in Nat /\ Cardinality(cancelling') \in Nat
  BY <1>1, InUseIs, FS_Subset, FS_CardinalityType DEF Load
<1>5. One(closer') <= One(closer) /\ One(opener') <= One(opener)
  BY DEF One
<1>6. One(closer') \in 0..1 /\ One(opener') \in 0..1
  BY DEF One
<1>7. QED
  BY <1>1, <1>2, <1>3, <1>4, <1>5, <1>6, InUseIs DEF Load

\* A step that starts one thing in a free thread keeps Load.
LEMMA OneStarts ==
    ASSUME IsFiniteSet(Fibers), threads \in Nat, Load, Room, threads' = threads,
           NEW f, NEW c,
           \/ /\ Running' \subseteq Running \cup {f}
              /\ UNCHANGED <<cancelling, closer, opener>>
           \/ /\ cancelling' \subseteq cancelling \cup {c}
              /\ Running' = Running /\ UNCHANGED <<closer, opener>>
           \/ /\ \/ closer = "idle" /\ opener' = opener
                 \/ opener = "idle" /\ closer' = closer
              /\ Running' = Running /\ UNCHANGED cancelling
    PROVE  Load'
<1>1. IsFiniteSet(cancelling') /\ IsFiniteSet(Running')
  BY InUseIs, OneMore DEF Load
<1>2. InUse' = Cardinality(Running') + Cardinality(cancelling') + One(closer') + One(opener')
  BY <1>1, InUseIs DEF InUse, Running, One
<1>3. Cardinality(Running') \in Nat /\ Cardinality(cancelling') \in Nat
  BY <1>1, FS_CardinalityType
<1>4. One(closer') \in 0..1 /\ One(opener') \in 0..1
  BY DEF One
<1>5. Cardinality(Running') + Cardinality(cancelling') + One(closer') + One(opener')
        <= Cardinality(Running) + Cardinality(cancelling) + One(closer) + One(opener) + 1
  <2>1. CASE Running' \subseteq Running \cup {f} /\ UNCHANGED <<cancelling, closer, opener>>
    <3>1. Cardinality(Running') <= Cardinality(Running) + 1
      BY <2>1, InUseIs, OneMore DEF Load
    <3>2. QED
      BY <1>3, <1>4, <2>1, <3>1, InUseIs DEF Load
  <2>2. CASE /\ cancelling' \subseteq cancelling \cup {c}
             /\ Running' = Running /\ UNCHANGED <<closer, opener>>
    <3>1. Cardinality(cancelling') <= Cardinality(cancelling) + 1
      BY <2>2, OneMore DEF Load
    <3>2. QED
      BY <1>3, <1>4, <2>2, <3>1, InUseIs DEF Load
  <2>3. CASE /\ \/ closer = "idle" /\ opener' = opener
                \/ opener = "idle" /\ closer' = closer
             /\ Running' = Running /\ UNCHANGED cancelling
    <3>1. One(closer') + One(opener') <= One(closer) + One(opener) + 1
      BY <2>3 DEF One
    <3>2. QED
      BY <1>3, <1>4, <2>3, <3>1, InUseIs DEF Load
  <2>4. QED
    BY <2>1, <2>2, <2>3
<1>6. QED
  BY <1>1, <1>2, <1>3, <1>4, <1>5, InUseIs DEF Load, Room

\* Every step keeps Load: what starts needs Room, what goes on has its thread.
LEMMA NextLoad ==
    ASSUME IsFiniteSet(Fibers), CtxInv, CallInv, CallTyped, Load, [Next]_vars
    PROVE  Load'
<1> USE DEF Goto, fdVars, callVars, timerVars
<1>0. pc \in [Fibers -> Stages] /\ threads \in Nat /\ registered \subseteq Fibers
      /\ \A f \in registered : pc[f] = "waiting"
  BY DEF CallInv, CallTyped
<1>1. ASSUME NEW set \in SUBSET registered, Trigger(set) PROVE Running' = Running
  BY <1>0, <1>1 DEF Trigger, Running
<1>2. ASSUME NEW f \in Fibers, NEW label, pc' = [pc EXCEPT ![f] = label]
      PROVE  Running' \subseteq Running \cup {f}
  BY <1>0, <1>2 DEF Running
<1>3. ASSUME UNCHANGED pc PROVE Running' = Running
  BY <1>3 DEF Running
<1>4. ASSUME NEW f \in Fibers, NEW k, Call(f, k) PROVE Load'
  <2>1. /\ Room /\ \E label \in Stages : pc' = [pc EXCEPT ![f] = label]
        /\ UNCHANGED <<threads, cancelling, closer, opener>>
    BY <1>4 DEF Call, Stages
  <2>2. QED
    BY <1>0, <1>2, <2>1, OneStarts
<1>5. ASSUME NEW f \in Fibers, Resume(f) PROVE Load'
  <2>1. /\ Room /\ \E label \in Stages : pc' = [pc EXCEPT ![f] = label]
        /\ UNCHANGED <<threads, cancelling, closer, opener>>
    BY <1>5 DEF Resume, Returns, Stages
  <2>2. QED
    BY <1>0, <1>2, <2>1, OneStarts
<1>6. ASSUME NEW f \in Fibers, FiberStep(f) PROVE Load'
  <2>1. /\ f \in Running /\ \E label \in Stages : pc' = [pc EXCEPT ![f] = label]
        /\ UNCHANGED <<threads, cancelling, closer, opener>>
    BY <1>6 DEF FiberStep, TryDone, TryBlocks, AddTimer, AddEvent, AddRefused, SocketError,
                Returns, Running, Stages
  <2>2. Running' \subseteq Running
    BY <1>2, <2>1
  <2>3. QED
    BY <1>0, <2>1, <2>2, NothingStarts
<1>7. ASSUME NEW f \in Fibers, EventFires(f) PROVE Load'
  <2> DEFINE set == {f}
  <2>1. set \subseteq registered /\ Trigger(set) /\ UNCHANGED <<threads, cancelling, closer, opener>>
    BY <1>7 DEF EventFires
  <2> HIDE DEF set
  <2>2. QED
    BY <1>0, <1>1, <2>1, NothingStarts
<1>8. ASSUME NEW f \in Fibers, TimerExpires(f) PROVE Load'
  <2>1. UNCHANGED <<pc, threads, cancelling, closer, opener>>
    BY <1>8 DEF TimerExpires
  <2>2. QED
    BY <1>0, <1>3, <2>1, NothingStarts
<1>9. ASSUME NEW c \in Calls, CallbackStep(c) PROVE Load'
  <2>1. CASE CallbackDropped(c)
    <3>1. UNCHANGED <<pc, threads, cancelling, closer, opener>>
      BY <2>1 DEF CallbackDropped
    <3>2. QED
      BY <1>0, <1>3, <3>1, NothingStarts
  <2>2. CASE CallbackTimesOut(c)
    <3>1. Room /\ cancelling' = cancelling \cup {c} /\ UNCHANGED <<pc, threads, closer, opener>>
      BY <2>2 DEF CallbackTimesOut
    <3>2. QED
      BY <1>0, <1>3, <3>1, OneStarts
  <2>3. QED
    BY <1>9, <2>1, <2>2 DEF CallbackStep
<1>10. ASSUME NEW c \in Calls, CallbackCancels(c) PROVE Load'
  <2>1. /\ cancelling' \subseteq cancelling /\ UNCHANGED <<threads, closer, opener>>
        /\ CancelEvent(c[1])
    BY <1>10 DEF CallbackCancels
  <2>2. Running' = Running
    <3>1. CASE c[1] \in registered /\ entry
      <4> DEFINE set == {c[1]}
      <4>1. set \subseteq registered /\ Trigger(set)
        BY <2>1, <3>1 DEF CancelEvent
      <4> HIDE DEF set
      <4>2. QED
        BY <1>1, <4>1
    <3>2. CASE ~(c[1] \in registered /\ entry)
      BY <1>3, <2>1, <3>2 DEF CancelEvent
    <3>3. QED
      BY <3>1, <3>2
  <2>3. QED
    BY <1>0, <2>1, <2>2, NothingStarts
<1>11. CASE CloseCancels
  <2>1. Running' = Running
    BY <1>1, <1>3, <1>11 DEF CloseCancels, CancelAll
  <2>2. closer = "idle" /\ Room /\ UNCHANGED <<threads, cancelling, opener>>
    BY <1>11 DEF CloseCancels
  <2>3. QED
    BY <1>0, <2>1, <2>2, OneStarts
<1>12. CASE Open
  <2>1. opener = "idle" /\ Room /\ UNCHANGED <<pc, threads, cancelling, closer>>
    BY <1>12 DEF Open
  <2>2. QED
    BY <1>0, <1>3, <2>1, OneStarts
<1>13. CASE CloseDeletes \/ CloseFd \/ OpenGets
  <2>1. /\ UNCHANGED <<pc, threads, cancelling>>
        /\ closer' = "idle" \/ closer # "idle" \/ closer' = closer
        /\ opener' = "idle" \/ opener # "idle" \/ opener' = opener
    BY <1>13 DEF CloseDeletes, CloseFd, OpenGets
  <2>2. QED
    BY <1>0, <1>3, <2>1, NothingStarts
<1>14. ASSUME NEW d, SetTimeout(d) \/ SetUserNonblock(d) PROVE Load'
  <2>1. UNCHANGED <<pc, threads, cancelling, closer, opener>>
    BY <1>14 DEF SetTimeout, SetUserNonblock
  <2>2. QED
    BY <1>0, <1>3, <2>1, NothingStarts
<1>15. CASE UNCHANGED vars
  <2>1. UNCHANGED <<pc, threads, cancelling, closer, opener>>
    BY <1>15 DEF vars
  <2>2. QED
    BY <1>0, <1>3, <2>1, NothingStarts
<1>16. QED
  BY <1>4, <1>5, <1>6, <1>7, <1>8, <1>9, <1>10, <1>11, <1>12, <1>13, <1>14, <1>15 DEF Next

-----------------------------------------------------------------------------
\* On one thread nobody waits while a close() is under way, nor unregistered.
Waiting(f) == pc[f] = "waiting"
AloneInv ==
    threads = 1 => /\ \A f \in Fibers : Waiting(f) => f \in registered /\ entry
                   /\ closer # "idle" => \A f \in Fibers : ~Waiting(f)

\* A fiber that runs on the only thread is not in the middle of a close().
LEMMA OneThread ==
    ASSUME IsFiniteSet(Fibers), Load, threads = 1, NEW f \in Running
    PROVE  closer = "idle"
<1>1. Cardinality(Running) # 0
  BY InUseIs, FS_EmptySet DEF Load
<1>2. Cardinality(Running) >= 1 /\ InUse <= 1
  BY <1>1, InUseIs DEF Load
<1>3. One(closer) = 0
  BY <1>2, InUseIs DEF Load
<1>4. QED
  BY <1>3 DEF One

\* Every step keeps AloneInv.
LEMMA NextAlone ==
    ASSUME IsFiniteSet(Fibers), CtxInv, CallInv, CallTyped, Load, AloneInv, [Next]_vars
    PROVE  AloneInv'
<1> USE DEF Goto, fdVars, callVars, timerVars
<1>0. pc \in [Fibers -> Stages] /\ registered \subseteq Fibers
      /\ \A f \in registered : pc[f] = "waiting"
  BY DEF CallInv
<1>1. threads' = threads
  BY DEF Next, Call, FiberStep, TryDone, TryBlocks, AddTimer, AddEvent, AddRefused, SocketError,
         Resume, EventFires, TimerExpires, CallbackStep, CallbackDropped, CallbackTimesOut,
         CallbackCancels, CloseCancels, CloseDeletes, CloseFd, Open, OpenGets, SetTimeout,
         SetUserNonblock, vars
<1> SUFFICES ASSUME threads = 1
             PROVE  /\ \A f \in Fibers : Waiting(f)' => f \in registered' /\ entry'
                    /\ closer' # "idle" => \A f \in Fibers : ~Waiting(f)'
  BY <1>1 DEF AloneInv
<1> DEFINE Goal == /\ \A f \in Fibers : Waiting(f)' => f \in registered' /\ entry'
                   /\ closer' # "idle" => \A f \in Fibers : ~Waiting(f)'
<1>2. /\ \A f \in Fibers : Waiting(f) => f \in registered /\ entry
      /\ closer # "idle" => \A f \in Fibers : ~Waiting(f)
  BY DEF AloneInv
<1>3. ASSUME \A f \in Fibers : Waiting(f)' => Waiting(f), UNCHANGED <<registered, entry>>,
             closer' # "idle" => closer # "idle"
      PROVE  Goal
  BY <1>2, <1>3
<1>4. ASSUME NEW set \in SUBSET registered, Trigger(set), closer' = closer PROVE Goal
  <2>1. \A f \in Fibers : Waiting(f)' => Waiting(f) /\ f \notin set
    BY <1>0, <1>4 DEF Trigger, Waiting
  <2>2. QED
    BY <1>2, <1>4, <2>1 DEF Trigger
<1>5. ASSUME NEW f \in Fibers,
             (\E k \in {"io", "connect"} : Call(f, k)) \/ TryDone(f) \/ TryBlocks(f) \/ AddTimer(f)
             \/ AddRefused(f) \/ SocketError(f) \/ Resume(f)
      PROVE  Goal
  <2>1. UNCHANGED <<registered, entry, closer>>
    BY <1>5 DEF Call, TryDone, TryBlocks, AddTimer, AddRefused, SocketError, Resume
  <2>2. \E label \in Stages \ {"waiting"} : pc' = [pc EXCEPT ![f] = label]
    BY <1>5 DEF Call, TryDone, TryBlocks, AddTimer, AddRefused, SocketError, Resume, Returns, Stages
  <2>3. QED
    BY <1>0, <1>3, <2>1, <2>2 DEF Waiting
<1>6. ASSUME NEW f \in Fibers, AddEvent(f) PROVE Goal
  <2>1. closer = "idle"
    BY <1>6, OneThread DEF AddEvent, Running
  <2>2. QED
    BY <1>0, <1>2, <1>6, <2>1 DEF AddEvent, Waiting
<1>7. ASSUME NEW f \in Fibers, EventFires(f) PROVE Goal
  <2> DEFINE set == {f}
  <2>1. set \subseteq registered /\ Trigger(set) /\ closer' = closer
    BY <1>7 DEF EventFires
  <2> HIDE DEF set
  <2>2. QED
    BY <1>4, <2>1
<1>8. ASSUME NEW f \in Fibers, TimerExpires(f) PROVE Goal
  BY <1>3, <1>8 DEF TimerExpires, Waiting
<1>9. ASSUME NEW c \in Calls, CallbackStep(c) PROVE Goal
  BY <1>3, <1>9 DEF CallbackStep, CallbackDropped, CallbackTimesOut, Waiting
<1>10. ASSUME NEW c \in Calls, CallbackCancels(c) PROVE Goal
  <2>1. CancelEvent(c[1]) /\ closer' = closer
    BY <1>10 DEF CallbackCancels
  <2>2. CASE c[1] \in registered /\ entry
    <3> DEFINE set == {c[1]}
    <3>1. set \subseteq registered /\ Trigger(set)
      BY <2>1, <2>2 DEF CancelEvent
    <3> HIDE DEF set
    <3>2. QED
      BY <1>4, <2>1, <3>1
  <2>3. CASE ~(c[1] \in registered /\ entry)
    BY <1>3, <2>1, <2>3 DEF CancelEvent, Waiting
  <2>4. QED
    BY <2>2, <2>3
<1>11. CASE CloseCancels
  <2>1. CASE entry
    <3>1. \A f \in Fibers : ~Waiting(f)'
      BY <1>0, <1>2, <1>11, <2>1 DEF CloseCancels, CancelAll, Trigger, Waiting
    <3>2. QED
      BY <3>1
  <2>2. CASE ~entry
    BY <1>2, <1>11, <2>2 DEF CloseCancels, CancelAll, Waiting
  <2>3. QED
    BY <2>1, <2>2
<1>12. CASE CloseDeletes \/ CloseFd
  <2>1. (\A f \in Fibers : ~Waiting(f)) /\ pc' = pc
    BY <1>2, <1>12 DEF CloseDeletes, CloseFd
  <2>2. QED
    BY <2>1 DEF Waiting
<1>13. CASE Open \/ OpenGets
  BY <1>3, <1>13 DEF Open, OpenGets, Waiting
<1>14. ASSUME NEW d, SetTimeout(d) \/ SetUserNonblock(d) PROVE Goal
  BY <1>3, <1>14 DEF SetTimeout, SetUserNonblock, Waiting
<1>15. CASE UNCHANGED vars
  BY <1>3, <1>15 DEF vars, Waiting
<1>16. QED
  BY <1>5, <1>6, <1>7, <1>8, <1>9, <1>10, <1>11, <1>12, <1>13, <1>14, <1>15 DEF Next, FiberStep

-----------------------------------------------------------------------------
\* Together they are inductive.
WaitInv == CtxInv /\ CallInv /\ CallTyped /\ Load /\ AloneInv

\* WaitInv holds at first: no thread is in use.
LEMMA InitWait == ASSUME IsFiniteSet(Fibers) PROVE Init => WaitInv
<1> SUFFICES ASSUME Init PROVE WaitInv
  OBVIOUS
<1>1. CtxInv /\ CallInv /\ CallTyped
  BY InitCtx, InitCall, InitCallTyped
<1>2. cancelling = {} /\ Running = {} /\ closer = "idle" /\ opener = "idle"
  BY DEF Init, Running
<1>3. Load
  <2>1. IsFiniteSet(cancelling) /\ Cardinality(cancelling) = 0 /\ Cardinality(Running) = 0
    BY <1>2, FS_EmptySet
  <2>2. InUse = 0
    BY <1>2, <2>1, InUseIs DEF One
  <2>3. threads \in Nat \ {0}
    BY <1>1 DEF CallTyped
  <2>4. QED
    BY <2>1, <2>2, <2>3 DEF Load
<1>4. AloneInv
  BY <1>2 DEF Init, AloneInv, Waiting
<1>5. QED
  BY <1>1, <1>3, <1>4 DEF WaitInv

\* WaitsSound: on any number of threads, of which a call, a callback, a close()
\* and a socket() occupy one each, no timer outlives its wait; and if there is one
\* thread only, a fiber that waits is registered with the kernel whatever
\* cancel_all(), cancel_event() and close() have done in between.
THEOREM WaitsCorrect ==
    ASSUME IsFiniteSet(Fibers) PROVE Spec => []WaitsSound
<1>1. WaitInv /\ [Next]_vars => WaitInv'
  BY NextCtx, NextCall, NextCallTyped, NextLoad, NextAlone DEF WaitInv
<1>2. WaitInv => WaitsSound
  <2> SUFFICES ASSUME WaitInv PROVE WaitsSound
    OBVIOUS
  <2>1. TypeOK
    BY DEF WaitInv, CtxInv, CallInv, Stages, CallTyped, Load, TypeOK
  <2>2. NoTimerLeft
    BY DEF WaitInv, CallInv, NoTimerLeft
  <2>3. NoWaitOnClosed
    BY DEF WaitInv, AloneInv, Waiting, NoWaitOnClosed
  <2>4. QED
    BY <2>1, <2>2, <2>3 DEF WaitsSound
<1>3. QED
  BY <1>1, <1>2, InitWait, PTL DEF Spec

HIDE HookAssumption

-----------------------------------------------------------------------------
(***************************************************************************)
(* The array and the wire.  Numbers first: quotients by a block's size,    *)
(* powers of two, and what a loop over a count leaves.                     *)
(***************************************************************************)
USE SizesAssumption

\* A well-founded relation has a least element in every set of numbers.
LEMMA LeastOf ==
    ASSUME NEW R, IsWellFoundedOn(R, Nat), NEW S \in SUBSET Nat, S # {}
    PROVE  \E m \in S : \A k \in S : ~(<<k, m>> \in R)
BY WFMin, Zenon

\* Every set of numbers that is not empty has a smallest one.
LEMMA Smallest ==
    ASSUME NEW S \in SUBSET Nat, S # {}
    PROVE  \E m \in S : \A k \in S : m <= k
<1>1. PICK R : IsWellFoundedOn(R, Nat) /\ \A x, y \in Nat : <<x, y>> \in R <=> x < y
  <2>1. IsWellFoundedOn(OpToRel(<, Nat), Nat)
    BY NatLessThanWellFounded
  <2>2. \A x, y \in Nat : <<x, y>> \in OpToRel(<, Nat) <=> x < y
    BY DEF OpToRel
  <2>3. \E R : IsWellFoundedOn(R, Nat) /\ \A x, y \in Nat : <<x, y>> \in R <=> x < y
    BY <2>1, <2>2, Zenon
  <2>4. QED
    BY <2>3
<1>2. PICK m \in S : \A k \in S : ~(<<k, m>> \in R)
  BY <1>1, LeastOf
<1>3. \A k \in S : ~(k < m) /\ k \in Nat /\ m \in Nat
  BY <1>1, <1>2
<1>4. QED
  BY <1>3

\* A set with 0 that is closed under "+ 1" below n.
LEMMA Climbs ==
    ASSUME NEW n \in Nat, NEW G, 0 \in G, \A m \in 0 .. n - 1 : m \in G => m + 1 \in G
    PROVE  \A m \in 0 .. n : m \in G
<1> SUFFICES ASSUME NEW k \in 0 .. n, k \notin G PROVE FALSE
  OBVIOUS
<1>1. PICK S : S = { m \in 0 .. n : m \notin G }
  OBVIOUS
<1>2. S \in SUBSET Nat /\ k \in S
  BY <1>1
<1>3. PICK m \in S : \A j \in S : m <= j
  BY <1>2, Smallest
<1>4. m \in 0 .. n /\ m \notin G /\ m # 0
  BY <1>1, <1>3
<1>5. m - 1 \in 0 .. n - 1 /\ (m - 1) + 1 = m /\ m - 1 \in 0 .. n
  BY <1>4
<1>6. m - 1 \in G
  BY <1>1, <1>3, <1>5
<1>7. QED
  BY <1>4, <1>5, <1>6

\* What Append makes, element by element.
LEMMA Appending ==
    ASSUME NEW S, NEW s \in Seq(S), NEW e \in S
    PROVE  /\ Append(s, e) \in Seq(S) /\ Len(Append(s, e)) = Len(s) + 1
           /\ \A i \in 1 .. Len(s) : Append(s, e)[i] = s[i]
           /\ Append(s, e)[Len(s) + 1] = e
  OBVIOUS

\* What Tail leaves, element by element.
LEMMA TailOf ==
    ASSUME NEW S, NEW s \in Seq(S), s # <<>>
    PROVE  /\ Len(s) \in Nat /\ Len(s) >= 1 /\ Head(s) = s[1] /\ Head(s) \in S
           /\ Tail(s) \in Seq(S) /\ Len(Tail(s)) = Len(s) - 1
           /\ \A i \in 1 .. Len(s) - 1 : Tail(s)[i] = s[i + 1]
  OBVIOUS

\* What \o joins, element by element.
LEMMA Joining ==
    ASSUME NEW S, NEW f \in Seq(S), NEW g \in Seq(S)
    PROVE  /\ f \o g \in Seq(S) /\ Len(f \o g) = Len(f) + Len(g)
           /\ \A i \in 1 .. Len(f) : (f \o g)[i] = f[i]
           /\ \A i \in 1 .. Len(g) : (f \o g)[Len(f) + i] = g[i]
  OBVIOUS

\* Only the empty sequence has length 0.
LEMMA NonEmpty ==
    ASSUME NEW S, NEW s \in Seq(S)
    PROVE  Len(s) \in Nat /\ (s = <<>> <=> Len(s) = 0) /\ DOMAIN s = 1 .. Len(s)
  OBVIOUS

\* Division with remainder, as the provers take it.
LEMMA Quotient ==
    ASSUME NEW a \in Nat, NEW d \in Nat \ {0}
    PROVE  \E q \in Nat, r \in 0 .. d - 1 : q = a \div d /\ r = a % d /\ a = q * d + r
<1>1. PICK q \in Nat, r \in 0 .. d - 1 : q = a \div d /\ r = a % d
  OBVIOUS
<1>2. a = q * d + r
  BY <1>1
<1>3. QED
  BY <1>1, <1>2

\* Quotient and remainder are unique.
LEMMA QuotientOf ==
    ASSUME NEW d \in Nat \ {0}, NEW k \in Nat, NEW r \in 0 .. d - 1
    PROVE  (k * d + r) \div d = k /\ (k * d + r) % d = r
OBVIOUS

\* An address is below k blocks when its block is below k.
LEMMA QuotientBelow ==
    ASSUME NEW a \in Nat, NEW d \in Nat \ {0}, NEW k \in Nat
    PROVE  a \div d < k <=> a < k * d
OBVIOUS

\* An operation repeated a number of times has a result, in a set that no
\* repetition leaves.
Keeps(F, n, S)   == \A i \in 1 .. n : \A x \in S : F[i][x] \in S
Runs(g, F, n, r) == g[0] = r /\ \A i \in 1 .. n : g[i] = F[i][g[i - 1]]

\* The result of a repeated operation exists, for it grows by one step.
LEMMA Repeated ==
    ASSUME NEW S, NEW n \in Nat, NEW F, Keeps(F, n, S), NEW r \in S
    PROVE  \E g \in [0 .. n -> S] : Runs(g, F, n, r)
<1> DEFINE UpTo(m) == { g \in [0 .. m -> S] : g[0] = r /\ \A i \in 1 .. m : g[i] = F[i][g[i - 1]] }
<1>1. [i \in 0 .. 0 |-> r] \in UpTo(0)
  OBVIOUS
<1>2. ASSUME NEW m \in 0 .. n - 1, NEW g \in UpTo(m) PROVE \E h : h \in UpTo(m + 1)
  <2>1. g \in [0 .. m -> S] /\ g[0] = r /\ \A i \in 1 .. m : g[i] = F[i][g[i - 1]]
    OBVIOUS
  <2>2. m \in 0 .. m /\ m + 1 \in 1 .. n /\ m \in Nat
    OBVIOUS
  <2>3. PICK e \in S : e = F[m + 1][g[m]]
    BY <2>1, <2>2 DEF Keeps
  <2>4. PICK h : h = [i \in 0 .. m + 1 |-> IF i = m + 1 THEN e ELSE g[i]]
    OBVIOUS
  <2>5. h \in [0 .. m + 1 -> S] /\ h[0] = r
    BY <2>1, <2>2, <2>4
  <2>6. ASSUME NEW i \in 1 .. m + 1 PROVE h[i] = F[i][h[i - 1]]
    <3>1. CASE i = m + 1
      <4>1. h[i] = e /\ i - 1 = m /\ h[i - 1] = g[m]
        BY <2>2, <2>4, <3>1
      <4>2. QED
        BY <2>3, <3>1, <4>1
    <3>2. CASE i # m + 1
      <4>1. i \in 1 .. m /\ h[i] = g[i] /\ h[i - 1] = g[i - 1]
        BY <2>2, <2>4, <3>2
      <4>2. QED
        BY <2>1, <4>1
    <3>3. QED
      BY <3>1, <3>2
  <2>7. QED
    BY <2>5, <2>6
<1>3. PICK G : G = { m \in 0 .. n : \E g : g \in UpTo(m) }
  OBVIOUS
<1> HIDE DEF UpTo
<1>4. 0 \in G /\ \A m \in 0 .. n - 1 : m \in G => m + 1 \in G
  <2>1. 0 \in 0 .. n /\ \A m \in 0 .. n - 1 : m + 1 \in 0 .. n
    OBVIOUS
  <2>2. QED
    BY <1>1, <1>2, <1>3, <2>1
<1>5. n \in G
  <2>1. n \in 0 .. n
    OBVIOUS
  <2>2. QED
    BY <1>4, <2>1, Climbs
<1>6. PICK g : g \in UpTo(n)
  BY <1>3, <1>5
<1>7. g \in [0 .. n -> S] /\ g[0] = r /\ \A i \in 1 .. n : g[i] = F[i][g[i - 1]]
  BY <1>6 DEF UpTo
<1>8. QED
  BY <1>7 DEF Runs

\* Pow2 doubles.
LEMMA Doubling ==
  /\ Pow2[0] = 1 /\ \A n \in Nat : Pow2[n] \in Nat \ {0} /\ Pow2[n + 1] = 2 * Pow2[n]
<1> DEFINE S == Nat \ {0}
<1> DEFINE P(n, g) == g \in [0 .. n -> S] /\ g[0] = 1 /\ \A i \in 1 .. n : g[i] = 2 * g[i - 1]
<1>1. ASSUME NEW n \in Nat PROVE \E g : P(n, g)
  <2>1. PICK F : F = [i \in 1 .. n |-> [p \in S |-> 2 * p]]
    OBVIOUS
  <2>2. 1 \in S /\ Keeps(F, n, S)
    BY <2>1 DEF Keeps
  <2> HIDE DEF S
  <2>3. PICK g \in [0 .. n -> S] : Runs(g, F, n, 1)
    BY <2>2, Repeated, Zenon
  <2>4. ASSUME NEW i \in 1 .. n PROVE g[i] = 2 * g[i - 1]
    <3>1. i - 1 \in 0 .. n
      OBVIOUS
    <3>2. g[i - 1] \in S /\ g[i] = F[i][g[i - 1]]
      BY <2>3, <3>1 DEF Runs
    <3>3. QED
      BY <2>1, <3>2
  <2>5. g[0] = 1
    BY <2>3 DEF Runs
  <2>6. QED
    BY <2>4, <2>5
<1>2. ASSUME NEW n \in Nat, NEW g, P(n, g), NEW m \in 0 .. n, NEW h, P(m, h) PROVE \A i \in 0 .. m : g[i] = h[i]
  <2>1. PICK G : G = { i \in 0 .. m : g[i] = h[i] }
    OBVIOUS
  <2>2. /\ g[0] = 1 /\ \A i \in 1 .. n : g[i] = 2 * g[i - 1]
        /\ h[0] = 1 /\ \A i \in 1 .. m : h[i] = 2 * h[i - 1]
    BY <1>2
  <2>3. 0 \in G
    BY <2>1, <2>2
  <2>4. ASSUME NEW i \in 0 .. m - 1, i \in G PROVE i + 1 \in G
    <3>1. i + 1 \in 1 .. n /\ i + 1 \in 1 .. m /\ (i + 1) - 1 = i /\ i + 1 \in 0 .. m
      OBVIOUS
    <3>2. g[i + 1] = 2 * g[i] /\ h[i + 1] = 2 * h[i]
      BY <2>2, <3>1
    <3>3. QED
      BY <2>1, <2>4, <3>1, <3>2
  <2>5. m \in Nat
    OBVIOUS
  <2>6. \A i \in 0 .. m : i \in G
    BY <2>3, <2>4, <2>5, Climbs
  <2>7. QED
    BY <2>1, <2>6
<1> DEFINE T == [n \in Nat |-> (CHOOSE g : P(n, g))[n]]
<1>3. ASSUME NEW n \in Nat, NEW g, P(n, g) PROVE T[n] = g[n]
  <2>1. PICK h : h = CHOOSE q : P(n, q)
    OBVIOUS
  <2>2. P(n, h)
    BY <1>1, <2>1
  <2>3. n \in 0 .. n
    OBVIOUS
  <2> HIDE DEF P
  <2>4. g[n] = h[n]
    BY <1>2, <1>3, <2>2, <2>3
  <2>5. QED
    BY <2>1, <2>4
<1>4. ASSUME NEW n \in Nat \ {0} PROVE T[n] = 2 * T[n - 1]
  <2>1. PICK g : P(n, g)
    BY <1>1
  <2>2. g \in [0 .. n -> S] /\ g[0] = 1 /\ \A i \in 1 .. n : g[i] = 2 * g[i - 1]
    BY <2>1
  <2>3. n - 1 \in Nat /\ n - 1 \in 0 .. n /\ n \in 1 .. n
    OBVIOUS
  <2>4. PICK h : h = [i \in 0 .. n - 1 |-> g[i]]
    OBVIOUS
  <2>5. P(n - 1, h)
    <3>1. h \in [0 .. n - 1 -> S] /\ h[0] = 1
      BY <2>2, <2>3, <2>4
    <3>2. ASSUME NEW i \in 1 .. n - 1 PROVE h[i] = 2 * h[i - 1]
      <4>1. i \in 0 .. n - 1 /\ i - 1 \in 0 .. n - 1 /\ i \in 1 .. n
        OBVIOUS
      <4>2. QED
        BY <2>2, <2>4, <4>1
    <3>3. QED
      BY <3>1, <3>2
  <2> HIDE DEF P, T
  <2>6. T[n] = g[n]
    BY <1>3, <2>1
  <2>7. T[n - 1] = h[n - 1]
    BY <1>3, <2>3, <2>5
  <2>8. h[n - 1] = g[n - 1]
    <3>1. n - 1 \in 0 .. n - 1
      OBVIOUS
    <3>2. QED
      BY <2>4, <3>1
  <2>9. QED
    BY <2>2, <2>3, <2>6, <2>7, <2>8
<1>5. ASSUME NEW n \in Nat PROVE T[n] \in S
  <2>1. PICK g : P(n, g)
    BY <1>1
  <2>2. g[n] \in S
    BY <2>1
  <2> HIDE DEF P, T, S
  <2>3. QED
    BY <1>3, <2>1, <2>2
<1>6. T[0] = 1
  <2>1. PICK g : P(0, g)
    BY <1>1
  <2>2. g[0] = 1
    BY <2>1
  <2> HIDE DEF P, T
  <2>3. T[0] = g[0]
    BY <1>3, <2>1
  <2>4. QED
    BY <2>2, <2>3
<1>7. PICK t : t = T
  OBVIOUS
<1>8. t = [n \in Nat |-> IF n = 0 THEN 1 ELSE 2 * t[n - 1]]
  <2>1. DOMAIN t = Nat /\ t = [n \in Nat |-> t[n]]
    BY <1>7
  <2> HIDE DEF T
  <2>2. \A n \in Nat : t[n] = IF n = 0 THEN 1 ELSE 2 * t[n - 1]
    BY <1>4, <1>6, <1>7
  <2>3. QED
    BY <2>1, <2>2
<1> HIDE DEF P, T, S
<1>9. Pow2 = [n \in Nat |-> IF n = 0 THEN 1 ELSE 2 * Pow2[n - 1]]
  BY <1>8, Zenon DEF Pow2
<1>10. Pow2[0] = 1 /\ \A n \in Nat : Pow2[n + 1] = 2 * Pow2[n]
  <2>1. \A n \in Nat : n + 1 \in Nat /\ n + 1 # 0 /\ (n + 1) - 1 = n
    OBVIOUS
  <2>2. QED
    BY <1>9, <2>1
<1>11. ASSUME NEW n \in Nat PROVE Pow2[n] \in Nat \ {0}
  <2>1. PICK G : G = { i \in 0 .. n : Pow2[i] \in Nat \ {0} }
    OBVIOUS
  <2>2. 0 \in G /\ \A i \in 0 .. n - 1 : i \in G => i + 1 \in G
    <3>1. \A i \in 0 .. n - 1 : i \in Nat /\ i + 1 \in 0 .. n
      OBVIOUS
    <3>2. QED
      BY <1>10, <2>1, <3>1
  <2>3. n \in 0 .. n
    OBVIOUS
  <2>4. n \in G
    BY <2>2, <2>3, Climbs
  <2>5. QED
    BY <2>1, <2>4
<1>12. QED
  BY <1>10, <1>11

\* A group of a varint has some values.
LEMMA RadixIsNumber == Radix \in Nat \ {0}
BY Doubling DEF Radix

\* What SubSeq cuts out, element by element.
LEMMA PartOf ==
    ASSUME NEW S, NEW s \in Seq(S), NEW a \in Nat, NEW n \in Nat, a + n <= Len(s)
    PROVE  /\ SubSeq(s, a + 1, a + n) \in Seq(S) /\ Len(SubSeq(s, a + 1, a + n)) = n
           /\ \A i \in 1 .. n : SubSeq(s, a + 1, a + n)[i] = s[a + i]
<1>1. Len(s) \in Nat
  OBVIOUS
<1>2. \A i \in a + 1 .. a + n : s[i] \in S
  BY <1>1
<1>3. SubSeq(s, a + 1, a + n) \in Seq(S) /\ Len(SubSeq(s, a + 1, a + n)) = n
  BY <1>1, <1>2
<1>4. \A i \in 1 .. n : SubSeq(s, a + 1, a + n)[i] = s[a + i]
  BY <1>1, <1>2
<1>5. QED
  BY <1>3, <1>4

\* A place after the first q of a sequence is one of the next n.
LEMMA Beyond ==
    ASSUME NEW q \in Nat, NEW n \in Nat, NEW p, q + n = p, NEW i \in 1 .. p, i > q
    PROVE  \E j \in 1 .. n : i = q + j
<1>1. PICK j : j = i - q
  OBVIOUS
<1>2. j \in 1 .. n /\ i = q + j
  BY <1>1
<1>3. QED
  BY <1>2

\* What SubSeq keeps of the front of a sequence.
LEMMA FirstOf ==
    ASSUME NEW S, NEW s \in Seq(S), NEW n \in Nat, n <= Len(s)
    PROVE  /\ SubSeq(s, 1, n) \in Seq(S) /\ Len(SubSeq(s, 1, n)) = n
           /\ \A i \in 1 .. n : SubSeq(s, 1, n)[i] = s[i]
<1>1. 0 \in Nat /\ 0 + n <= Len(s)
  OBVIOUS
<1>2. /\ SubSeq(s, 0 + 1, 0 + n) \in Seq(S) /\ Len(SubSeq(s, 0 + 1, 0 + n)) = n
      /\ \A i \in 1 .. n : SubSeq(s, 0 + 1, 0 + n)[i] = s[0 + i]
  BY <1>1, PartOf
<1>3. 0 + 1 = 1 /\ 0 + n = n /\ \A i \in 1 .. n : 0 + i = i
  OBVIOUS
<1>4. QED
  BY <1>2, <1>3

\* The front of a sequence of bytes.
LEMMA FrontOf ==
    ASSUME NEW s \in Seq(Int), NEW n \in Nat, n <= Len(s)
    PROVE  \E t \in Seq(Int) : t = SubSeq(s, 1, n) /\ Len(t) = n /\ \A i \in 1 .. n : t[i] = s[i]
<1>1. /\ SubSeq(s, 1, n) \in Seq(Int) /\ Len(SubSeq(s, 1, n)) = n
      /\ \A i \in 1 .. n : SubSeq(s, 1, n)[i] = s[i]
  BY FirstOf
<1>2. QED
  BY <1>1, Zenon

-----------------------------------------------------------------------------
(***************************************************************************)
(* An array is made of whole blocks and its position is in its data.  Until *)
(* a read starts past the first block it is also straight: m_cur is the    *)
(* block of the position.                                                  *)
(***************************************************************************)
Shape(b) ==
  /\ \E k \in Nat \ {0} : Len(b.mem) = k * BaseSize
  /\ b.pos <= b.size /\ b.size <= Len(b.mem)
  /\ b.cur \in (0 .. Nodes(b) - 1) \cup {Nil}

\* The arrays of that shape.
Arrays == { b \in [mem : Seq(Int), pos : Nat, size : Nat, cur : Int, ok : BOOLEAN, thrown : BOOLEAN] : Shape(b) }

\* m_cur is the block of the position.
Straight(b) == b.cur = NodeAt(b, b.pos)

\* What belongs to an array, in the words the leaves below need.
LEMMA ArrayFacts ==
    ASSUME NEW b \in Arrays
    PROVE  /\ b.mem \in Seq(Int) /\ b.pos \in Nat /\ b.size \in Nat /\ b.cur \in Int
           /\ b.ok \in BOOLEAN /\ b.thrown \in BOOLEAN /\ Len(b.mem) \in Nat /\ DOMAIN b.mem = 1 .. Len(b.mem)
           /\ Nodes(b) \in Nat \ {0} /\ Len(b.mem) = Nodes(b) * BaseSize
           /\ b.pos <= b.size /\ b.size <= Len(b.mem)
           /\ b.cur \in (0 .. Nodes(b) - 1) \cup {Nil}
<1>1. /\ b.mem \in Seq(Int) /\ b.pos \in Nat /\ b.size \in Nat /\ b.cur \in Int
      /\ b.ok \in BOOLEAN /\ b.thrown \in BOOLEAN /\ Shape(b)
  BY DEF Arrays
<1>2. Len(b.mem) \in Nat /\ DOMAIN b.mem = 1 .. Len(b.mem)
  BY <1>1, NonEmpty
<1>3. PICK k \in Nat \ {0} : Len(b.mem) = k * BaseSize
  BY <1>1 DEF Shape
<1>4. (k * BaseSize + 0) \div BaseSize = k
  BY QuotientOf
<1>5. Nodes(b) = k
  BY <1>3, <1>4 DEF Nodes
<1>6. QED
  BY <1>1, <1>2, <1>3, <1>5 DEF Shape

\* The block of an address inside the blocks, and none outside.
LEMMA NodeOf ==
    ASSUME NEW b \in Arrays, NEW a \in Nat
    PROVE  /\ NodeAt(b, a) \in (0 .. Nodes(b) - 1) \cup {Nil}
           /\ a < Len(b.mem) => NodeAt(b, a) = a \div BaseSize /\ NodeAt(b, a) # Nil
           /\ a >= Len(b.mem) => NodeAt(b, a) = Nil
<1>1. PICK q \in Nat, r \in 0 .. BaseSize - 1 : q = a \div BaseSize /\ r = a % BaseSize /\ a = q * BaseSize + r
  BY Quotient
<1>2. Nodes(b) \in Nat \ {0} /\ Len(b.mem) = Nodes(b) * BaseSize
  BY ArrayFacts
<1>3. q < Nodes(b) <=> a < Len(b.mem)
  BY <1>1, <1>2, QuotientBelow
<1>4. NodeAt(b, a) = IF q < Nodes(b) THEN q ELSE Nil
  BY <1>1 DEF NodeAt
<1>5. QED
  BY <1>1, <1>2, <1>3, <1>4 DEF Nil

\* The address that the current block and a position's offset in its block
\* make.
LEMMA StraightAddress ==
    ASSUME NEW b \in Arrays, Straight(b), b.pos < Len(b.mem)
    PROVE  AddressOf(b, b.pos) = b.pos /\ b.cur # Nil
<1>1. b.pos \in Nat
  BY ArrayFacts
<1>2. b.cur = b.pos \div BaseSize /\ b.cur # Nil
  BY <1>1, NodeOf DEF Straight
<1>3. PICK q \in Nat, r \in 0 .. BaseSize - 1 :
        q = b.pos \div BaseSize /\ r = b.pos % BaseSize /\ b.pos = q * BaseSize + r
  BY <1>1, Quotient
<1>4. AddressOf(b, b.pos) = q * BaseSize + r
  BY <1>2, <1>3 DEF AddressOf, Npos
<1>5. QED
  BY <1>2, <1>3, <1>4

\* What m_cur and a position address is a number.
LEMMA AddressInRange ==
    ASSUME NEW b \in Arrays, NEW p \in Nat, b.cur # Nil
    PROVE  AddressOf(b, p) \in Nat
<1>1. b.cur \in Nat
  BY ArrayFacts
<1>2. p % BaseSize \in 0 .. BaseSize - 1
  BY Quotient
<1>3. QED
  BY <1>1, <1>2 DEF AddressOf, Npos

\* A new block's memory.
LEMMA FreshBlocks ==
    ASSUME NEW n \in Nat
    PROVE  Fresh(n) \in Seq(Int) /\ Len(Fresh(n)) = n * BaseSize
<1>1. PICK m \in Nat : m = n * BaseSize
  OBVIOUS
<1>2. [i \in 1 .. m |-> -1] \in Seq(Int) /\ Len([i \in 1 .. m |-> -1]) = m
  OBVIOUS
<1>3. QED
  BY <1>1, <1>2 DEF Fresh, Unknown

\* The constructor makes one block, at its start.
LEMMA NewArray == New \in Arrays /\ Straight(New) /\ New.pos = 0 /\ New.size = 0 /\ New.cur = 0 /\ New.ok
                  /\ Len(New.mem) = BaseSize
<1>1. Fresh(1) \in Seq(Int) /\ Len(Fresh(1)) = BaseSize
  BY FreshBlocks
<1>2. PICK m \in Seq(Int) : m = Fresh(1) /\ Len(m) = 1 * BaseSize /\ Len(m) = BaseSize
  BY <1>1
<1>3. New = [mem |-> m, pos |-> 0, size |-> 0, cur |-> 0, ok |-> TRUE, thrown |-> FALSE]
  BY <1>2 DEF New
<1>4. (1 * BaseSize + 0) \div BaseSize = 1
  BY QuotientOf
<1>5. Nodes(New) = 1
  BY <1>2, <1>3, <1>4 DEF Nodes
<1>6. New \in Arrays
  BY <1>2, <1>3, <1>5 DEF Arrays, Shape
<1>7. NodeAt(New, 0) = 0 \div BaseSize
  BY <1>2, <1>3, <1>6, NodeOf
<1>8. (0 * BaseSize + 0) \div BaseSize = 0
  BY QuotientOf
<1>9. QED
  BY <1>2, <1>3, <1>6, <1>7, <1>8 DEF Straight

\* add_capacity(): room for n more bytes, the ones there are in their places.
LEMMA Grown ==
    ASSUME NEW b \in Arrays, NEW n \in Nat, NEW g, g = AddCapacity(b, n)
    PROVE  /\ g \in Arrays /\ g.pos = b.pos /\ g.size = b.size /\ g.ok = b.ok /\ g.thrown = b.thrown
           /\ g.pos + n <= Len(g.mem) /\ Len(b.mem) <= Len(g.mem)
           /\ \A i \in 1 .. Len(b.mem) : g.mem[i] = b.mem[i]
           /\ Straight(b) /\ n > 0 => Straight(g)
           /\ n > 0 /\ b.pos = Len(b.mem) => g.cur # Nil
           /\ b.cur # Nil => g.cur # Nil
<1>1. /\ b.mem \in Seq(Int) /\ b.pos \in Nat /\ b.size \in Nat /\ b.cur \in Int
      /\ b.ok \in BOOLEAN /\ b.thrown \in BOOLEAN /\ Len(b.mem) \in Nat
      /\ Nodes(b) \in Nat \ {0} /\ Len(b.mem) = Nodes(b) * BaseSize
      /\ b.pos <= b.size /\ b.size <= Len(b.mem)
      /\ b.cur \in (0 .. Nodes(b) - 1) \cup {Nil}
  BY ArrayFacts
<1>2. CASE n = 0 \/ GetCapacity(b) > n
  <2>1. g = b
    BY <1>2 DEF AddCapacity
  <2>2. b.pos + n <= Len(b.mem)
    BY <1>1, <1>2 DEF GetCapacity
  <2>3. n > 0 => b.pos # Len(b.mem)
    BY <1>1, <1>2 DEF GetCapacity
  <2>4. QED
    BY <1>1, <2>1, <2>2, <2>3
<1>3. CASE n > 0 /\ GetCapacity(b) <= n
  <2>1. PICK p \in Nat : p = GetCapacity(b) /\ p = Len(b.mem) - b.pos /\ p <= n
    BY <1>1, <1>3 DEF GetCapacity
  <2>2. PICK m \in Nat : m = n - p + BaseSize - 1
    BY <2>1
  <2>3. PICK q \in Nat, r \in 0 .. BaseSize - 1 : q = m \div BaseSize /\ r = m % BaseSize /\ m = q * BaseSize + r
    BY Quotient
  <2>4. PICK z \in Nat : z = q * BaseSize /\ z >= n - p /\ (q = 0 => n = p)
    <3>1. PICK z \in Nat : z = q * BaseSize
      OBVIOUS
    <3>2. z >= n - p /\ (z = 0 => n - p <= 0)
      BY <2>2, <2>3, <3>1
    <3>3. QED
      BY <2>1, <3>1, <3>2
  <2>5. PICK f \in Seq(Int) : f = Fresh(q) /\ Len(f) = z
    BY <2>4, FreshBlocks
  <2>6. PICK e : e = b.mem \o f
    OBVIOUS
  <2>7. e \in Seq(Int) /\ Len(e) = Len(b.mem) + z /\ \A i \in 1 .. Len(b.mem) : e[i] = b.mem[i]
    <3>1. PICK m0 \in Seq(Int) : m0 = b.mem
      BY <1>1
    <3>2. /\ m0 \o f \in Seq(Int) /\ Len(m0 \o f) = Len(m0) + Len(f)
          /\ \A i \in 1 .. Len(m0) : (m0 \o f)[i] = m0[i]
      BY Joining
    <3>3. QED
      BY <2>5, <2>6, <3>1, <3>2
  <2>8. PICK c : c = IF p = 0 THEN Nodes(b) ELSE b.cur
    OBVIOUS
  <2>9. g = [b EXCEPT !.mem = e, !.cur = c]
    <3>1. n # 0 /\ ~(p > n)
      BY <1>3, <2>1
    <3>2. g = [b EXCEPT !.mem = b.mem \o Fresh(q), !.cur = IF p = 0 THEN Nodes(b) ELSE b.cur]
      BY <2>1, <2>2, <2>3, <3>1 DEF AddCapacity
    <3>3. QED
      BY <2>5, <2>6, <2>8, <3>2, Zenon
  <2>10. g.mem = e /\ g.cur = c /\ g.pos = b.pos /\ g.size = b.size /\ g.ok = b.ok /\ g.thrown = b.thrown
    BY <2>9 DEF Arrays
  <2>11. PICK x \in Nat \ {0} : x = Nodes(b) + q /\ Len(e) = x * BaseSize
    <3>1. PICK y \in Nat \ {0} : y = Nodes(b)
      BY <1>1
    <3>2. (y + q) * BaseSize = y * BaseSize + q * BaseSize /\ y + q \in Nat \ {0}
      OBVIOUS
    <3>3. Len(e) = y * BaseSize + q * BaseSize
      BY <1>1, <2>4, <2>7, <3>1
    <3>4. QED
      BY <3>1, <3>2, <3>3
  <2>12. Nodes(g) = x
    <3>1. (x * BaseSize + 0) \div BaseSize = x
      BY QuotientOf
    <3>2. x * BaseSize + 0 = Len(e)
      BY <2>11
    <3>3. QED
      BY <2>10, <3>1, <3>2 DEF Nodes
  <2>13. p = 0 => q >= 1
    BY <1>3, <2>4
  <2>14. c \in (0 .. x - 1) \cup {Nil} /\ c \in Int
    BY <1>1, <2>8, <2>11, <2>13
  <2>15. g \in [mem : Seq(Int), pos : Nat, size : Nat, cur : Int, ok : BOOLEAN, thrown : BOOLEAN]
    BY <2>7, <2>9, <2>14 DEF Arrays
  <2>16. b.pos + n <= Len(e) /\ Len(b.mem) <= Len(e)
    <3>1. PICK l \in Nat, k \in Nat : l = Len(b.mem) /\ k = b.pos
      BY <1>1
    <3>2. p = l - k /\ Len(e) = l + z /\ z >= n - p
      BY <2>1, <2>4, <2>7, <3>1
    <3>3. k + n <= l + z /\ l <= l + z
      BY <3>2
    <3>4. QED
      BY <3>1, <3>2, <3>3
  <2>17. Shape(g)
    <3>1. g.pos <= g.size /\ g.size <= Len(g.mem)
      <4>1. PICK l \in Nat, z1 \in Nat : l = Len(b.mem) /\ z1 = b.size
        BY <1>1
      <4>2. z1 <= l /\ l <= Len(e) /\ Len(e) \in Nat
        BY <1>1, <2>7, <2>16, <4>1, NonEmpty
      <4>3. z1 <= Len(e)
        BY <4>2
      <4>4. QED
        BY <1>1, <2>10, <4>1, <4>3
    <3>2. g.cur \in (0 .. Nodes(g) - 1) \cup {Nil}
      BY <2>10, <2>12, <2>14
    <3>3. Len(g.mem) = x * BaseSize
      BY <2>10, <2>11
    <3>4. QED
      BY <3>1, <3>2, <3>3 DEF Shape
  <2>18. g \in Arrays
    BY <2>15, <2>17 DEF Arrays
  <2>19. ASSUME Straight(b) PROVE Straight(g)
    <3>1. CASE p = 0
      <4>1. b.pos = Len(b.mem)
        BY <1>1, <2>1, <3>1
      <4>2. PICK y \in Nat : y = Nodes(b) /\ y * BaseSize + 0 = b.pos
        BY <1>1, <4>1
      <4>3. g.pos \div BaseSize = Nodes(b)
        BY <2>10, <4>2, QuotientOf
      <4>4. g.pos < Len(g.mem)
        BY <1>1, <1>3, <2>7, <2>10, <2>16, <4>1
      <4>5. NodeAt(g, g.pos) = Nodes(b)
        BY <1>1, <2>10, <2>18, <4>3, <4>4, NodeOf
      <4>6. QED
        BY <2>8, <2>10, <3>1, <4>5 DEF Straight
    <3>2. CASE p # 0
      <4>1. b.pos < Len(b.mem) /\ g.pos < Len(g.mem)
        <5>1. b.pos < Len(b.mem)
          BY <1>1, <2>1, <3>2
        <5>2. Len(e) \in Nat /\ Len(b.mem) <= Len(e)
          BY <2>7, <2>16, NonEmpty
        <5>3. b.pos < Len(e)
          BY <1>1, <5>1, <5>2
        <5>4. QED
          BY <2>10, <5>1, <5>3
      <4>2. NodeAt(b, b.pos) = b.pos \div BaseSize /\ NodeAt(g, g.pos) = g.pos \div BaseSize
        BY <1>1, <2>10, <2>18, <4>1, NodeOf
      <4>3. QED
        BY <2>8, <2>10, <2>19, <3>2, <4>2 DEF Straight
    <3>3. QED
      BY <3>1, <3>2
  <2>20. /\ b.pos = Len(b.mem) => g.cur # Nil
         /\ b.cur # Nil => g.cur # Nil
    BY <1>1, <2>1, <2>8, <2>10 DEF Nil
  <2>21. QED
    BY <2>7, <2>10, <2>16, <2>18, <2>19, <2>20
<1>4. QED
  BY <1>1, <1>2, <1>3 DEF GetCapacity

\* write(): the bytes are where the position was, the others where they were.
LEMMA Written ==
    ASSUME NEW b \in Arrays, NEW s \in Seq(Int), NEW w, w = Write(b, s)
    PROVE  /\ w \in Arrays /\ w.thrown = b.thrown /\ (w.ok => b.ok) /\ b.pos <= w.pos
           /\ Straight(b) =>
                /\ Straight(w) /\ w.ok = b.ok
                /\ w.pos = b.pos + Len(s) /\ w.size = Most(b.size, b.pos + Len(s))
                /\ \A i \in 1 .. w.size :
                     w.mem[i] = IF i - b.pos \in 1 .. Len(s) THEN s[i - b.pos] ELSE b.mem[i]
<1>1. /\ b.mem \in Seq(Int) /\ b.pos \in Nat /\ b.size \in Nat /\ b.cur \in Int
      /\ b.ok \in BOOLEAN /\ b.thrown \in BOOLEAN /\ Len(b.mem) \in Nat
      /\ b.pos <= b.size /\ b.size <= Len(b.mem)
  BY ArrayFacts
<1>2. Len(s) \in Nat /\ (s = <<>> <=> Len(s) = 0) /\ DOMAIN s = 1 .. Len(s)
  BY NonEmpty
<1>3. CASE s = <<>>
  <2>1. w = b
    BY <1>3 DEF Write
  <2>2. w.size = Most(b.size, b.pos + Len(s)) /\ w.pos = b.pos + Len(s)
    BY <1>1, <1>2, <1>3, <2>1 DEF Most
  <2>3. \A i \in 1 .. w.size : w.mem[i] = IF i - b.pos \in 1 .. Len(s) THEN s[i - b.pos] ELSE b.mem[i]
    BY <1>1, <1>2, <1>3, <2>1
  <2>4. b.pos <= w.pos
    BY <1>1, <2>1
  <2>5. QED
    BY <2>1, <2>2, <2>3, <2>4
<1>4. CASE s # <<>>
  <2>1. PICK g : g = AddCapacity(b, Len(s))
    OBVIOUS
  <2>2. /\ g \in Arrays /\ g.pos = b.pos /\ g.size = b.size /\ g.ok = b.ok /\ g.thrown = b.thrown
        /\ g.pos + Len(s) <= Len(g.mem) /\ Len(b.mem) <= Len(g.mem)
        /\ \A i \in 1 .. Len(b.mem) : g.mem[i] = b.mem[i]
        /\ Straight(b) => Straight(g)
    <3>1. PICK n : n = Len(s)
      BY Zenon
    <3>2. n \in Nat /\ n # 0
      BY <1>2, <1>4, <3>1, Zenon
    <3>3. n > 0
      BY <3>2
    <3>4. g = AddCapacity(b, n)
      BY <2>1, <3>1, Zenon
    <3>5. /\ g \in Arrays /\ g.pos = b.pos /\ g.size = b.size /\ g.ok = b.ok /\ g.thrown = b.thrown
          /\ g.pos + n <= Len(g.mem) /\ Len(b.mem) <= Len(g.mem)
          /\ \A i \in 1 .. Len(b.mem) : g.mem[i] = b.mem[i]
          /\ Straight(b) /\ n > 0 => Straight(g)
      BY <3>2, <3>4, Grown
    <3>6. QED
      BY <3>1, <3>3, <3>5, Zenon
  <2>3. /\ g.mem \in Seq(Int) /\ g.cur \in Int /\ Len(g.mem) \in Nat /\ DOMAIN g.mem = 1 .. Len(g.mem)
        /\ Nodes(g) \in Nat \ {0} /\ Len(g.mem) = Nodes(g) * BaseSize
    BY <2>2, ArrayFacts
  <2>4. CASE g.cur = Nil
    <3>1. w = [g EXCEPT !.ok = FALSE]
      BY <1>4, <2>1, <2>4 DEF Write, Undefined
    <3>2. w \in Arrays
      <4>1. w \in [mem : Seq(Int), pos : Nat, size : Nat, cur : Int, ok : BOOLEAN, thrown : BOOLEAN]
        BY <2>2, <3>1 DEF Arrays
      <4>2. w.mem = g.mem /\ w.pos = g.pos /\ w.size = g.size /\ w.cur = g.cur /\ Nodes(w) = Nodes(g)
        BY <2>2, <3>1 DEF Arrays, Nodes
      <4>3. Shape(w)
        BY <2>2, <4>2 DEF Arrays, Shape
      <4>4. QED
        BY <4>1, <4>3 DEF Arrays
    <3>3. w.thrown = b.thrown /\ ~w.ok /\ b.pos <= w.pos
      BY <1>1, <2>2, <3>1 DEF Arrays
    <3>4. ~Straight(b)
      <4>1. g.pos < Len(g.mem)
        BY <1>1, <1>2, <1>4, <2>2, <2>3
      <4>2. Straight(g) => g.cur # Nil
        BY <2>2, <4>1, StraightAddress
      <4>3. QED
        BY <2>2, <2>4, <4>2
    <3>5. QED
      BY <3>2, <3>3, <3>4
  <2>5. CASE g.cur # Nil
    <3>1. PICK a \in Nat : a = AddressOf(g, g.pos)
      BY <1>1, <2>2, <2>5, AddressInRange
    <3>2. PICK e : e = [i \in DOMAIN g.mem |-> IF i - a \in DOMAIN s THEN s[i - a] ELSE g.mem[i]]
      OBVIOUS
    <3>3. e \in Seq(Int) /\ Len(e) = Len(g.mem) /\ \A i \in 1 .. Len(g.mem) :
            e[i] = IF i - a \in 1 .. Len(s) THEN s[i - a] ELSE g.mem[i]
      <4>1. \A i \in 1 .. Len(s) : s[i] \in Int
        BY <1>2
      <4>2. \A i \in 1 .. Len(g.mem) : g.mem[i] \in Int
        BY <2>3
      <4>3. e \in [1 .. Len(g.mem) -> Int]
        BY <1>2, <2>3, <3>2, <4>1, <4>2
      <4>4. PICK k \in Nat : k = Len(g.mem)
        BY <2>3
      <4>5. e \in [1 .. k -> Int] /\ e \in Seq(Int) /\ Len(e) = k
        BY <4>3, <4>4
      <4>6. e \in Seq(Int) /\ Len(e) = Len(g.mem)
        BY <4>4, <4>5
      <4>7. QED
        BY <1>2, <2>3, <3>2, <4>6
    <3>4. w = [g EXCEPT !.mem = e, !.cur = NodeAt(g, a + Len(s)), !.pos = g.pos + Len(s),
                        !.size = Most(g.size, g.pos + Len(s))]
      BY <1>4, <2>1, <2>5, <3>1, <3>2 DEF Write, Overwrite
    <3>5. NodeAt(g, a + Len(s)) \in (0 .. Nodes(g) - 1) \cup {Nil}
      BY <1>2, <2>2, NodeOf
    <3>6. PICK c \in Int : c = NodeAt(g, a + Len(s)) /\ c \in (0 .. Nodes(g) - 1) \cup {Nil}
      BY <2>3, <3>5 DEF Nil
    <3>7. /\ w.mem = e /\ w.cur = c /\ w.pos = b.pos + Len(s) /\ w.size = Most(b.size, b.pos + Len(s))
          /\ w.ok = b.ok /\ w.thrown = b.thrown
      BY <2>2, <3>4, <3>6 DEF Arrays
    <3>8. PICK z \in Nat : z = Most(b.size, b.pos + Len(s)) /\ b.pos + Len(s) <= z /\ z <= Len(g.mem)
      <4>1. PICK p \in Nat, n \in Nat, l \in Nat : p = b.pos + Len(s) /\ n = b.size /\ l = Len(g.mem)
        <5>1. b.pos + Len(s) \in Nat /\ b.size \in Nat /\ Len(g.mem) \in Nat
          BY <1>1, <1>2, <2>3
        <5>2. QED
          BY <5>1, Zenon
      <4>2. p <= l /\ n <= l
        <5>1. n <= Len(b.mem) /\ Len(b.mem) <= l /\ Len(b.mem) \in Nat
          BY <1>1, <2>2, <4>1
        <5>2. QED
          BY <2>2, <4>1, <5>1
      <4>3. Most(n, p) \in Nat /\ p <= Most(n, p) /\ Most(n, p) <= l
        BY <4>2 DEF Most
      <4>4. QED
        BY <4>1, <4>3
    <3>9. w \in [mem : Seq(Int), pos : Nat, size : Nat, cur : Int, ok : BOOLEAN, thrown : BOOLEAN]
      <4>1. PICK p \in Nat : p = b.pos + Len(s)
        BY <1>1, <1>2
      <4>2. w = [g EXCEPT !.mem = e, !.cur = c, !.pos = p, !.size = z]
        BY <2>2, <3>4, <3>6, <3>8, <4>1, Zenon
      <4>3. QED
        BY <2>2, <3>3, <4>2 DEF Arrays
    <3>10. Nodes(w) = Nodes(g)
      BY <3>3, <3>7 DEF Nodes
    <3>11. w \in Arrays
      <4>1. Len(w.mem) = Nodes(g) * BaseSize /\ w.pos <= w.size /\ w.size <= Len(w.mem)
            /\ w.cur \in (0 .. Nodes(w) - 1) \cup {Nil}
        BY <2>3, <3>3, <3>6, <3>7, <3>8, <3>10
      <4>2. Shape(w)
        BY <2>3, <4>1 DEF Shape
      <4>3. QED
        BY <3>9, <4>2 DEF Arrays
    <3>12. ASSUME Straight(b)
           PROVE  /\ Straight(w)
                  /\ \A i \in 1 .. w.size :
                       w.mem[i] = IF i - b.pos \in 1 .. Len(s) THEN s[i - b.pos] ELSE b.mem[i]
      <4>1. g.pos < Len(g.mem)
        BY <1>1, <1>2, <1>4, <2>2, <2>3
      <4>2. a = b.pos
        BY <2>2, <3>1, <3>12, <4>1, StraightAddress
      <4>3. Straight(w)
        BY <3>6, <3>7, <3>10, <4>2 DEF Straight, NodeAt
      <4>4. ASSUME NEW i \in 1 .. w.size
            PROVE  w.mem[i] = IF i - b.pos \in 1 .. Len(s) THEN s[i - b.pos] ELSE b.mem[i]
        <5>1. i \in 1 .. Len(g.mem)
          BY <3>3, <3>7, <3>8
        <5>2. w.mem[i] = IF i - b.pos \in 1 .. Len(s) THEN s[i - b.pos] ELSE g.mem[i]
          BY <3>3, <3>7, <4>2, <5>1
        <5>3. CASE i - b.pos \in 1 .. Len(s)
          BY <5>2, <5>3
        <5>4. CASE i - b.pos \notin 1 .. Len(s)
          <6>1. i <= b.size
            BY <1>1, <1>2, <3>7, <5>4 DEF Most
          <6>2. g.mem[i] = b.mem[i]
            BY <1>1, <2>2, <6>1
          <6>3. QED
            BY <5>2, <5>4, <6>2
        <5>5. QED
          BY <5>3, <5>4
      <4>5. QED
        BY <4>3, <4>4
    <3>13. b.pos <= w.pos
      BY <1>1, <1>2, <3>7
    <3>14. QED
      BY <3>7, <3>11, <3>12, <3>13
  <2>6. QED
    BY <2>4, <2>5
<1>5. QED
  BY <1>3, <1>4

-----------------------------------------------------------------------------
(***************************************************************************)
(* What reading may leave of an array: the same bytes, read further.       *)
(***************************************************************************)
From(b) == { c \in Arrays : /\ c.mem = b.mem /\ c.size = b.size /\ b.pos <= c.pos /\ (c.ok => b.ok)
                            /\ Straight(b) /\ c.pos <= BaseSize => Straight(c) }

\* An array in all but its position, its block and its flags.
LEMMA Repositioned ==
    ASSUME NEW b \in Arrays, NEW p \in Nat, NEW k \in (0 .. Nodes(b) - 1) \cup {Nil},
           NEW c \in [mem : Seq(Int), pos : Nat, size : Nat, cur : Int, ok : BOOLEAN, thrown : BOOLEAN],
           c.mem = b.mem, c.pos = p, c.cur = k, p <= c.size, c.size <= Len(b.mem)
    PROVE  c \in Arrays /\ (Straight(c) <=> k = NodeAt(b, p))
<1>1. /\ b.mem \in Seq(Int) /\ b.size \in Nat /\ Nodes(b) \in Nat \ {0}
      /\ Len(b.mem) = Nodes(b) * BaseSize
  BY ArrayFacts
<1>2. Nodes(c) = Nodes(b)
  BY DEF Nodes
<1>3. Shape(c)
  BY <1>1, <1>2 DEF Shape
<1>4. c \in Arrays
  BY <1>3 DEF Arrays
<1>5. NodeAt(c, p) = NodeAt(b, p)
  BY <1>2 DEF NodeAt
<1>6. QED
  BY <1>4, <1>5 DEF Straight

\* Reading nothing leaves the array as it was.
LEMMA FromItself ==
    ASSUME NEW b \in Arrays
    PROVE  b \in From(b)
<1>1. b.pos \in Nat
  BY ArrayFacts
<1>2. QED
  BY <1>1 DEF From

\* Reading on is reading.
LEMMA FromFrom ==
    ASSUME NEW b \in Arrays, NEW c \in From(b), NEW d \in From(c)
    PROVE  d \in From(b) /\ c \in Arrays /\ d \in Arrays
<1>1. c \in Arrays /\ d \in Arrays
  BY DEF From
<1>2. b.pos \in Nat /\ c.pos \in Nat /\ d.pos \in Nat
  BY <1>1, ArrayFacts
<1>3. /\ c.mem = b.mem /\ c.size = b.size /\ b.pos <= c.pos /\ (c.ok => b.ok)
      /\ Straight(b) /\ c.pos <= BaseSize => Straight(c)
  BY DEF From
<1>4. /\ d.mem = c.mem /\ d.size = c.size /\ c.pos <= d.pos /\ (d.ok => c.ok)
      /\ Straight(c) /\ d.pos <= BaseSize => Straight(d)
  BY DEF From
<1>5. d.mem = b.mem /\ d.size = b.size /\ b.pos <= d.pos /\ (d.ok => b.ok)
  BY <1>2, <1>3, <1>4
<1>6. Straight(b) /\ d.pos <= BaseSize => Straight(d)
  BY <1>2, <1>3, <1>4
<1>7. QED
  BY <1>1, <1>5, <1>6 DEF From

\* Raising a flag moves nothing.
LEMMA Flagged ==
    ASSUME NEW b \in Arrays
    PROVE  /\ Throws(b) \in From(b) /\ Undefined(b) \in From(b) /\ [b EXCEPT !.thrown = FALSE] \in From(b)
           /\ [b EXCEPT !.thrown = FALSE].ok = b.ok /\ [b EXCEPT !.thrown = FALSE].thrown = FALSE
           /\ [b EXCEPT !.thrown = FALSE].pos = b.pos
           /\ Straight(b) => Straight([b EXCEPT !.thrown = FALSE]) /\ Straight(Throws(b))
           /\ Throws(b).pos = b.pos /\ Throws(b).ok = b.ok /\ Throws(b).thrown
           /\ ~Undefined(b).ok
<1>1. /\ b.pos \in Nat /\ b.ok \in BOOLEAN /\ b.thrown \in BOOLEAN
      /\ b.pos <= b.size /\ b.size <= Len(b.mem) /\ b.cur \in (0 .. Nodes(b) - 1) \cup {Nil}
  BY ArrayFacts
<1>2. ASSUME NEW c \in [mem : Seq(Int), pos : Nat, size : Nat, cur : Int, ok : BOOLEAN, thrown : BOOLEAN],
             c.ok => b.ok, c.mem = b.mem, c.size = b.size, c.pos = b.pos, c.cur = b.cur
      PROVE  c \in From(b) /\ (Straight(b) => Straight(c))
  <2>1. c \in Arrays /\ (Straight(c) <=> b.cur = NodeAt(b, b.pos))
    BY <1>1, <1>2, Repositioned
  <2>2. Straight(b) => Straight(c)
    BY <2>1 DEF Straight
  <2>3. QED
    BY <1>1, <1>2, <2>1, <2>2 DEF From
<1>3. PICK d : d = Throws(b)
  OBVIOUS
<1>4. /\ d \in [mem : Seq(Int), pos : Nat, size : Nat, cur : Int, ok : BOOLEAN, thrown : BOOLEAN]
      /\ d.mem = b.mem /\ d.size = b.size /\ d.pos = b.pos /\ d.cur = b.cur /\ d.ok = b.ok /\ d.thrown
  BY <1>3 DEF Throws, Arrays
<1>5. PICK u : u = Undefined(b)
  OBVIOUS
<1>6. /\ u \in [mem : Seq(Int), pos : Nat, size : Nat, cur : Int, ok : BOOLEAN, thrown : BOOLEAN]
      /\ u.mem = b.mem /\ u.size = b.size /\ u.pos = b.pos /\ u.cur = b.cur /\ ~u.ok
  BY <1>5 DEF Undefined, Arrays
<1>7. PICK c : c = [b EXCEPT !.thrown = FALSE]
  OBVIOUS
<1>8. /\ c \in [mem : Seq(Int), pos : Nat, size : Nat, cur : Int, ok : BOOLEAN, thrown : BOOLEAN]
      /\ c.mem = b.mem /\ c.size = b.size /\ c.pos = b.pos /\ c.cur = b.cur /\ c.ok = b.ok /\ c.thrown = FALSE
  BY <1>7 DEF Arrays
<1>9. d \in From(b) /\ (Straight(b) => Straight(d))
  BY <1>2, <1>4
<1>10. u \in From(b)
  BY <1>2, <1>6
<1>11. c \in From(b) /\ (Straight(b) => Straight(c))
  BY <1>2, <1>8
<1>12. QED
  BY <1>3, <1>4, <1>5, <1>6, <1>7, <1>8, <1>9, <1>10, <1>11

\* A piece of the current block and the blocks after it.
LEMMA BytesOf ==
    ASSUME NEW b \in Arrays, NEW a \in Nat, NEW n \in Nat, a + n <= Len(b.mem)
    PROVE  /\ Bytes(b, a, n) \in Seq(Int) /\ Len(Bytes(b, a, n)) = n
           /\ \A i \in 1 .. n : Bytes(b, a, n)[i] = b.mem[a + i]
<1>1. b.mem \in Seq(Int)
  BY ArrayFacts
<1>2. QED
  BY <1>1, PartOf DEF Bytes

\* read() leaves the bytes and moves the position forward only.
LEMMA ReadFrom ==
    ASSUME NEW b \in Arrays, NEW n \in Nat
    PROVE  Read(b, n).ba \in From(b) /\ Read(b, n).data \in Seq(Int)
<1>1. /\ b.mem \in Seq(Int) /\ b.pos \in Nat /\ b.size \in Nat /\ b.cur \in Int
      /\ b.ok \in BOOLEAN /\ b.thrown \in BOOLEAN /\ Len(b.mem) \in Nat
      /\ Nodes(b) \in Nat \ {0} /\ Len(b.mem) = Nodes(b) * BaseSize
      /\ b.pos <= b.size /\ b.size <= Len(b.mem)
      /\ b.cur \in (0 .. Nodes(b) - 1) \cup {Nil}
  BY ArrayFacts
<1>2. PICK a : a = IF NodeRoom(b) = 0 THEN (b.cur + 1) * BaseSize ELSE AddressOf(b, b.pos)
  OBVIOUS
<1>3. PICK r : r = Read(b, n)
  OBVIOUS
<1>4. <<>> \in Seq(Int) /\ Throws(b) \in From(b) /\ Undefined(b) \in From(b)
  <2>1. <<>> \in Seq(Int)
    OBVIOUS
  <2>2. QED
    BY <2>1, Flagged
<1>5. CASE n > ReadSize(b)
  <2>1. r = [data |-> <<>>, ba |-> Throws(b)]
    BY <1>3, <1>5 DEF Read
  <2>2. QED
    BY <1>3, <1>4, <2>1
<1>6. CASE ~(n > ReadSize(b)) /\ b.cur = Nil
  <2>1. r = [data |-> <<>>, ba |-> Undefined(b)]
    BY <1>3, <1>6 DEF Read
  <2>2. QED
    BY <1>3, <1>4, <2>1
<1>7. CASE ~(n > ReadSize(b)) /\ b.cur # Nil /\ n = 0
  <2>1. r = [data |-> <<>>, ba |-> b]
    BY <1>3, <1>7 DEF Read
  <2>2. QED
    BY <1>3, <1>4, <2>1, FromItself
<1>8. CASE ~(n > ReadSize(b)) /\ b.cur # Nil /\ n # 0
  <2>1. PICK p \in Nat : p = b.pos + n /\ p <= b.size /\ p > b.pos
    <3>1. PICK o \in Nat, z \in Nat : o = b.pos /\ z = b.size
      BY <1>1
    <3>2. n <= z - o
      BY <1>8, <3>1 DEF ReadSize
    <3>3. o + n \in Nat /\ o + n <= z /\ o + n > o
      BY <1>8, <3>2
    <3>4. QED
      BY <3>1, <3>3
  <2>2. a \in Nat
    <3>1. AddressOf(b, b.pos) \in Nat
      BY <1>1, <1>8, AddressInRange
    <3>2. b.cur + 1 \in Nat
      BY <1>1, <1>8
    <3>3. (b.cur + 1) * BaseSize \in Nat
      BY <3>2
    <3>4. QED
      BY <1>2, <3>1, <3>3
  <2>3. ASSUME NEW k \in (0 .. Nodes(b) - 1) \cup {Nil}, Straight(b) /\ p <= BaseSize => k = NodeAt(b, p)
        PROVE  Moved(b, n, k) \in From(b)
    <3>1. PICK c : c = Moved(b, n, k) /\ c = [b EXCEPT !.pos = p, !.cur = k]
      BY <2>1 DEF Moved
    <3>2. /\ c \in [mem : Seq(Int), pos : Nat, size : Nat, cur : Int, ok : BOOLEAN, thrown : BOOLEAN]
          /\ c.mem = b.mem /\ c.size = b.size /\ c.pos = p /\ c.cur = k /\ c.ok = b.ok
      <4>1. k \in Int
        BY <1>1 DEF Nil
      <4>2. QED
        BY <3>1, <4>1 DEF Arrays
    <3>3. c \in Arrays /\ (Straight(c) <=> k = NodeAt(b, p))
      BY <1>1, <2>1, <3>2, Repositioned
    <3>4. b.pos <= c.pos /\ (Straight(b) /\ c.pos <= BaseSize => Straight(c))
      BY <1>1, <2>1, <2>3, <3>2, <3>3
    <3>5. (c.ok => b.ok) /\ c.mem = b.mem /\ c.size = b.size
      BY <3>2
    <3>6. c \in From(b)
      BY <3>3, <3>4, <3>5 DEF From
    <3>7. QED
      BY <3>1, <3>6
  <2>4. CASE NodeRoom(b) > BaseSize
    <3>1. b.pos > BaseSize
      BY <1>1, <2>4 DEF NodeRoom
    <3>2. ~(p <= BaseSize)
      BY <1>1, <2>1, <3>1
    <3>3. CASE Npos(b.pos) + n <= BaseSize
      <4>1. r = [data |-> Bytes(b, a, n), ba |-> Moved(b, n, b.cur)]
        BY <1>2, <1>3, <1>8, <2>4, <3>3 DEF Read
      <4>2. Moved(b, n, b.cur) \in From(b)
        BY <1>1, <2>3, <3>2
      <4>3. a + n <= Len(b.mem)
        <5>1. PICK o \in 0 .. BaseSize - 1 : o = Npos(b.pos)
          BY <1>1, Quotient DEF Npos
        <5>2. PICK m \in Nat : m = b.cur /\ m + 1 <= Nodes(b)
          BY <1>1, <1>8
        <5>3. a = m * BaseSize + o
          <6>1. NodeRoom(b) # 0
            BY <2>4
          <6>2. QED
            BY <1>2, <5>1, <5>2, <6>1 DEF AddressOf
        <5>4. a + n <= (m + 1) * BaseSize
          BY <3>3, <5>1, <5>3
        <5>5. (m + 1) * BaseSize <= Nodes(b) * BaseSize
          <6>1. PICK x \in Nat : x = Nodes(b) /\ m + 1 <= x
            BY <1>1, <5>2
          <6>2. (m + 1) * BaseSize <= x * BaseSize
            BY <6>1
          <6>3. QED
            BY <6>1, <6>2
        <5>6. PICK x \in Nat, y \in Nat : x = (m + 1) * BaseSize /\ y = Len(b.mem)
          <6>1. (m + 1) * BaseSize \in Nat
            BY <5>2
          <6>2. QED
            BY <1>1, <6>1
        <5>7. QED
          BY <1>1, <2>2, <5>4, <5>5, <5>6
      <4>4. Bytes(b, a, n) \in Seq(Int)
        BY <2>2, <4>3, BytesOf
      <4>5. QED
        BY <1>3, <4>1, <4>2, <4>4
    <3>4. CASE ~(Npos(b.pos) + n <= BaseSize)
      <4>1. r = [data |-> <<>>, ba |-> Undefined(b)]
        BY <1>3, <1>8, <2>4, <3>4 DEF Read
      <4>2. QED
        BY <1>3, <1>4, <4>1
    <3>5. QED
      BY <3>3, <3>4
  <2>5. CASE ~(NodeRoom(b) > BaseSize) /\ a + n <= Len(b.mem)
    <3>1. r = [data |-> Bytes(b, a, n), ba |-> Moved(b, n, NodeAt(b, a + n))]
      BY <1>2, <1>3, <1>8, <2>5 DEF Read
    <3>2. a + n \in Nat
      BY <2>2
    <3>3. NodeAt(b, a + n) \in (0 .. Nodes(b) - 1) \cup {Nil}
      BY <3>2, NodeOf
    <3>4. Straight(b) /\ p <= BaseSize => NodeAt(b, a + n) = NodeAt(b, p)
      <4>1. ASSUME Straight(b), p <= BaseSize PROVE a + n = p
        <5>1. b.pos < BaseSize
          BY <1>1, <2>1, <4>1
        <5>2. NodeRoom(b) # 0
          BY <1>1, <5>1 DEF NodeRoom
        <5>3. b.pos < Len(b.mem)
          BY <1>1, <2>1
        <5>4. a = b.pos
          BY <1>2, <4>1, <5>2, <5>3, StraightAddress
        <5>5. QED
          BY <2>1, <5>4
      <4>2. QED
        BY <4>1
    <3>5. Moved(b, n, NodeAt(b, a + n)) \in From(b)
      BY <2>3, <3>3, <3>4
    <3>6. Bytes(b, a, n) \in Seq(Int)
      BY <2>2, <2>5, BytesOf
    <3>7. QED
      BY <1>3, <3>1, <3>5, <3>6
  <2>6. CASE ~(NodeRoom(b) > BaseSize) /\ ~(a + n <= Len(b.mem))
    <3>1. r = [data |-> <<>>, ba |-> Undefined(b)]
      BY <1>2, <1>3, <1>8, <2>6 DEF Read
    <3>2. QED
      BY <1>3, <1>4, <3>1
  <2>7. QED
    BY <2>4, <2>5, <2>6
<1>9. QED
  BY <1>5, <1>6, <1>7, <1>8

\* set_position(): anywhere in the blocks, which makes the array straight.
LEMMA Positioned ==
    ASSUME NEW b \in Arrays, NEW p \in Int, NEW c, c = SetPosition(b, p)
    PROVE  /\ c \in Arrays /\ c.mem = b.mem /\ c.ok = b.ok
           /\ p \in 0 .. Len(b.mem) =>
                c.pos = p /\ c.size = Most(b.size, p) /\ c.thrown = b.thrown /\ Straight(c)
           /\ p \notin 0 .. Len(b.mem) =>
                c.pos = b.pos /\ c.size = b.size /\ c.thrown /\ (Straight(b) => Straight(c))
<1>1. /\ b.mem \in Seq(Int) /\ b.pos \in Nat /\ b.size \in Nat /\ b.cur \in Int
      /\ b.ok \in BOOLEAN /\ b.thrown \in BOOLEAN /\ Len(b.mem) \in Nat
      /\ Nodes(b) \in Nat \ {0} /\ b.pos <= b.size /\ b.size <= Len(b.mem)
  BY ArrayFacts
<1>2. CASE p \notin 0 .. Len(b.mem)
  <2>1. c = Throws(b)
    BY <1>2 DEF SetPosition
  <2>2. c \in From(b) /\ c.ok = b.ok /\ c.thrown /\ c.pos = b.pos /\ (Straight(b) => Straight(c))
    <3>1. /\ Throws(b) \in From(b) /\ Throws(b).ok = b.ok /\ Throws(b).thrown /\ Throws(b).pos = b.pos
          /\ Straight(b) => Straight(Throws(b))
      BY Flagged
    <3>2. QED
      BY <2>1, <3>1
  <2>3. QED
    BY <1>2, <2>2 DEF From
<1>3. CASE p \in 0 .. Len(b.mem)
  <2>1. PICK z \in Nat : z = Most(b.size, p) /\ p <= z /\ z <= Len(b.mem)
    BY <1>1, <1>3 DEF Most
  <2>2. PICK k \in Int : k = NodeAt(b, p) /\ k \in (0 .. Nodes(b) - 1) \cup {Nil}
    <3>1. p \in Nat
      BY <1>3
    <3>2. NodeAt(b, p) \in (0 .. Nodes(b) - 1) \cup {Nil}
      BY <3>1, NodeOf
    <3>3. \A k \in (0 .. Nodes(b) - 1) \cup {Nil} : k \in Int
      BY <1>1 DEF Nil
    <3>4. QED
      BY <3>2, <3>3, Zenon
  <2>3. c = [b EXCEPT !.pos = p, !.size = z, !.cur = k]
    BY <1>3, <2>1, <2>2 DEF SetPosition
  <2>4. p \in Nat
    BY <1>3
  <2>5. /\ c \in [mem : Seq(Int), pos : Nat, size : Nat, cur : Int, ok : BOOLEAN, thrown : BOOLEAN]
        /\ c.mem = b.mem /\ c.size = z /\ c.pos = p /\ c.cur = k /\ c.ok = b.ok /\ c.thrown = b.thrown
    BY <2>3, <2>4 DEF Arrays
  <2>6. c \in Arrays /\ (Straight(c) <=> k = NodeAt(b, p))
    BY <2>1, <2>2, <2>4, <2>5, Repositioned
  <2>7. QED
    BY <1>3, <2>1, <2>2, <2>5, <2>6
<1>4. QED
  BY <1>2, <1>3

\* setPosition() inside the blocks finds the block of the position.
LEMMA PositionedIn ==
    ASSUME NEW b \in Arrays, NEW p \in 0 .. Len(b.mem)
    PROVE  /\ SetPosition(b, p) \in Arrays /\ SetPosition(b, p).mem = b.mem
           /\ SetPosition(b, p).pos = p /\ SetPosition(b, p).size = Most(b.size, p)
           /\ SetPosition(b, p).ok = b.ok /\ SetPosition(b, p).thrown = b.thrown /\ Straight(SetPosition(b, p))
<1>1. PICK c : c = SetPosition(b, p)
  OBVIOUS
<1>2. p \in Int
  OBVIOUS
<1>3. /\ c \in Arrays /\ c.mem = b.mem /\ c.ok = b.ok
      /\ c.pos = p /\ c.size = Most(b.size, p) /\ c.thrown = b.thrown /\ Straight(c)
  BY <1>1, <1>2, Positioned
<1>4. QED
  BY <1>1, <1>3

\* clear(): one block, with nothing in it.
LEMMA Emptied ==
    ASSUME NEW b \in Arrays
    PROVE  /\ Clear(b) \in Arrays /\ Clear(b).ok = b.ok /\ Straight(Clear(b))
           /\ Clear(b).pos = 0 /\ Clear(b).size = 0
<1>1. b.mem \in Seq(Int) /\ Len(b.mem) = Nodes(b) * BaseSize /\ Nodes(b) \in Nat \ {0}
  BY ArrayFacts
<1>2. BaseSize <= Len(b.mem)
  <2>1. PICK k \in Nat \ {0} : k = Nodes(b)
    BY <1>1
  <2>2. BaseSize <= k * BaseSize
    OBVIOUS
  <2>3. QED
    BY <1>1, <2>1, <2>2
<1>3. PICK m \in Seq(Int) : m = SubSeq(b.mem, 1, BaseSize) /\ Len(m) = BaseSize
  <2>1. BaseSize \in Nat /\ b.mem \in Seq(Int)
    BY <1>1
  <2>2. SubSeq(b.mem, 1, BaseSize) \in Seq(Int) /\ Len(SubSeq(b.mem, 1, BaseSize)) = BaseSize
    BY <1>2, <2>1, FirstOf
  <2>3. QED
    BY <2>2, Zenon
<1>4. PICK c : c = Clear(b) /\ c = [b EXCEPT !.mem = m, !.pos = 0, !.size = 0, !.cur = 0]
  BY <1>3 DEF Clear
<1>5. /\ c \in [mem : Seq(Int), pos : Nat, size : Nat, cur : Int, ok : BOOLEAN, thrown : BOOLEAN]
      /\ c.mem = m /\ c.size = 0 /\ c.pos = 0 /\ c.cur = 0 /\ c.ok = b.ok
  <2>1. PICK z \in Nat, k \in Int : z = 0 /\ k = 0
    OBVIOUS
  <2>2. c = [b EXCEPT !.mem = m, !.pos = z, !.size = z, !.cur = k]
    BY <1>4, <2>1
  <2>3. c \in [mem : Seq(Int), pos : Nat, size : Nat, cur : Int, ok : BOOLEAN, thrown : BOOLEAN]
    BY <2>2 DEF Arrays
  <2>4. c.mem = m /\ c.size = z /\ c.pos = z /\ c.cur = k /\ c.ok = b.ok
    BY <2>2 DEF Arrays
  <2>5. QED
    BY <2>1, <2>3, <2>4
<1>6. Len(New.mem) = BaseSize /\ New \in Arrays /\ New.cur = NodeAt(New, 0) /\ New.cur = 0
      /\ Nodes(New) \in Nat \ {0} /\ Len(New.mem) = Nodes(New) * BaseSize
  BY NewArray, ArrayFacts DEF Straight
<1>7. Nodes(c) = Nodes(New)
  BY <1>3, <1>5, <1>6 DEF Nodes
<1>8. NodeAt(c, 0) = 0
  BY <1>6, <1>7 DEF NodeAt
<1>9. Shape(c)
  <2>1. PICK k \in Nat \ {0} : k = Nodes(c) /\ Len(c.mem) = k * BaseSize
    BY <1>3, <1>5, <1>6, <1>7
  <2>2. c.cur \in 0 .. k - 1 /\ c.pos <= c.size /\ c.size <= Len(c.mem)
    <3>1. Len(c.mem) = BaseSize
      BY <1>3, <1>5
    <3>2. QED
      BY <1>5, <2>1, <3>1
  <2>3. QED
    BY <2>1, <2>2 DEF Shape
<1>10. QED
  BY <1>4, <1>5, <1>8, <1>9 DEF Arrays, Straight

-----------------------------------------------------------------------------
(***************************************************************************)
(* Reading values: every reader leaves the array further on.               *)
(***************************************************************************)

\* The states of the loops that read one varint, or several values.
VarReaders(b) == [ba : From(b), value : Nat, shift : Nat, more : BOOLEAN]
Readers(b)    == [ba : From(b), value : Seq(Int)]

\* One step of a varint reads on.
LEMMA VarReader ==
    ASSUME NEW b \in Arrays, NEW r \in VarReaders(b)
    PROVE  VarStep(r) \in VarReaders(b)
<1>1. r.ba \in From(b) /\ r.value \in Nat /\ r.shift \in Nat /\ r.more \in BOOLEAN /\ r.ba \in Arrays
  BY DEF VarReaders, From
<1>2. PICK c : c = Read(r.ba, 1)
  OBVIOUS
<1>3. c.ba \in From(r.ba) /\ c.data \in Seq(Int)
  BY <1>1, <1>2, ReadFrom
<1>4. c.ba \in From(b)
  BY <1>1, <1>3, FromFrom
<1>5. CASE ~(r.more /\ r.ba.ok /\ ~r.ba.thrown)
  BY <1>5 DEF VarStep
<1>6. CASE (r.more /\ r.ba.ok /\ ~r.ba.thrown) /\ c.data = <<>>
  <2>1. VarStep(r) = [r EXCEPT !.ba = c.ba]
    BY <1>2, <1>6 DEF VarStep
  <2>2. QED
    BY <1>4, <2>1 DEF VarReaders
<1>7. CASE (r.more /\ r.ba.ok /\ ~r.ba.thrown) /\ c.data # <<>>
  <2>1. PICK d \in Int : d = c.data[1]
    BY <1>3, <1>7
  <2>2. PICK g \in Nat \ {0}, w \in Nat \ {0}, e \in Nat \ {0} :
          g = Pow2[Group] /\ w = Pow2[Bits] /\ e = Pow2[r.shift]
    BY <1>1, Doubling
  <2>3. VarStep(r) = [ba |-> c.ba, value |-> (r.value + (d % g) * e) % w, shift |-> r.shift + Group, more |-> d >= g]
    BY <1>2, <1>7, <2>1, <2>2 DEF VarStep
  <2>4. (r.value + (d % g) * e) % w \in Nat
    <3>1. d % g \in Nat
      OBVIOUS
    <3>2. (d % g) * e \in Nat
      BY <3>1
    <3>3. r.value + (d % g) * e \in Nat
      BY <1>1, <3>2
    <3>4. QED
      BY <3>3
  <2>5. r.shift + Group \in Nat
    BY <1>1
  <2>6. QED
    BY <1>4, <2>3, <2>4, <2>5 DEF VarReaders
<1>8. QED
  BY <1>5, <1>6, <1>7

\* The groups of a varint hold all its bits.
LEMMA VarMostIsNumber == VarMost \in Nat \ {0} /\ Bits <= VarMost * Group
<1>1. PICK m \in Nat : m = Bits + Group - 1
  OBVIOUS
<1>2. PICK q \in Nat, r \in 0 .. Group - 1 : q = m \div Group /\ r = m % Group /\ m = q * Group + r
  BY Quotient
<1>3. PICK z \in Nat : z = q * Group /\ (q = 0 => z = 0)
  OBVIOUS
<1>4. Bits <= z
  BY <1>1, <1>2, <1>3
<1>5. QED
  BY <1>1, <1>2, <1>3, <1>4 DEF VarMost

\* The steps of a varint's loop.
LEMMA VarUnrolled ==
    ASSUME NEW b \in Arrays
    PROVE  \E f : /\ f[0] = [ba |-> b, value |-> 0, shift |-> 0, more |-> TRUE] /\ f[0] \in VarReaders(b)
                  /\ \A i \in 1 .. VarMost : f[i] = VarStep(f[i - 1]) /\ f[i] \in VarReaders(b)
                  /\ ReadVar(b) = f[VarMost]
<1>1. PICK S : S = VarReaders(b)
  OBVIOUS
<1>2. PICK n \in Nat : n = VarMost
  BY VarMostIsNumber
<1>3. PICK x \in S : x = [ba |-> b, value |-> 0, shift |-> 0, more |-> TRUE]
  BY <1>1, FromItself DEF VarReaders
<1>4. PICK F : F = [i \in 1 .. n |-> [y \in S |-> VarStep(y)]]
  OBVIOUS
<1>5. Keeps(F, n, S)
  BY <1>1, <1>4, VarReader DEF Keeps
<1>6. PICK g \in [0 .. n -> S] : Runs(g, F, n, x)
  BY <1>5, Repeated
<1>7. \A i \in 1 .. n : i - 1 \in 0 .. n
  OBVIOUS
<1>8. g = [i \in 0 .. n |-> IF i = 0 THEN x ELSE VarStep(g[i - 1])]
  <2>1. ASSUME NEW i \in 0 .. n, i # 0 PROVE g[i] = VarStep(g[i - 1])
    <3>1. i \in 1 .. n
      BY <2>1
    <3>2. g[i - 1] \in S /\ g[i] = F[i][g[i - 1]]
      BY <1>6, <1>7, <3>1 DEF Runs
    <3>3. QED
      BY <1>4, <3>1, <3>2
  <2>2. g[0] = x
    BY <1>6 DEF Runs
  <2>3. QED
    BY <2>1, <2>2
<1>9. PICK f : f = CHOOSE h : h = [i \in 0 .. n |-> IF i = 0 THEN x ELSE VarStep(h[i - 1])]
  OBVIOUS
<1>10. f = [i \in 0 .. n |-> IF i = 0 THEN x ELSE VarStep(f[i - 1])]
  BY <1>8, <1>9, Zenon
<1>11. ReadVar(b) = f[n]
  BY <1>2, <1>3, <1>9, Zenon DEF ReadVar
<1>12. PICK G : G = { i \in 0 .. n : f[i] \in S }
  OBVIOUS
<1>13. 0 \in G
  BY <1>10, <1>12
<1>14. ASSUME NEW i \in 0 .. n - 1, i \in G PROVE i + 1 \in G
  <2>1. i + 1 \in 0 .. n /\ i + 1 # 0 /\ (i + 1) - 1 = i
    OBVIOUS
  <2>2. f[i] \in S
    BY <1>12, <1>14
  <2>3. f[i + 1] = VarStep(f[i])
    BY <1>10, <2>1
  <2>4. VarStep(f[i]) \in S
    BY <1>1, <2>2, VarReader
  <2>5. QED
    BY <1>12, <2>1, <2>3, <2>4
<1>15. ASSUME NEW i \in 0 .. n PROVE f[i] \in S
  <2>1. i \in G
    BY <1>13, <1>14, Climbs
  <2>2. QED
    BY <1>12, <2>1
<1>16. f[0] = x
  BY <1>10
<1>17. ASSUME NEW i \in 1 .. n PROVE f[i] = VarStep(f[i - 1]) /\ f[i] \in S
  <2>1. i \in 0 .. n /\ i # 0
    OBVIOUS
  <2>2. QED
    BY <1>10, <1>15, <2>1
<1>18. QED
  BY <1>1, <1>2, <1>3, <1>11, <1>16, <1>17, Zenon

\* readUint32() reads on, wherever the varint ends.
LEMMA VarRead ==
    ASSUME NEW b \in Arrays
    PROVE  ReadVar(b).ba \in From(b) /\ ReadVar(b).value \in Nat
<1>1. PICK f : /\ \A i \in 1 .. VarMost : f[i] \in VarReaders(b)
               /\ ReadVar(b) = f[VarMost]
  BY VarUnrolled
<1>2. VarMost \in 1 .. VarMost
  BY VarMostIsNumber
<1>3. ReadVar(b) \in VarReaders(b)
  BY <1>1, <1>2
<1>4. QED
  BY <1>3 DEF VarReaders

\* What no step of a loop leaves, the loop does not leave.
LEMMA Stays ==
    ASSUME NEW S, NEW n \in Nat, NEW f, f[0] \in S, \A i \in 1 .. n : f[i - 1] \in S => f[i] \in S
    PROVE  f[n] \in S
<1>1. PICK G : G = { i \in 0 .. n : f[i] \in S }
  OBVIOUS
<1>2. 0 \in G /\ n \in 0 .. n
  BY <1>1
<1>3. ASSUME NEW i \in 0 .. n - 1, i \in G PROVE i + 1 \in G
  <2>1. i + 1 \in 1 .. n /\ i + 1 \in 0 .. n /\ (i + 1) - 1 = i
    OBVIOUS
  <2>2. QED
    BY <1>1, <1>3, <2>1
<1>4. QED
  BY <1>1, <1>2, <1>3, Climbs

\* Every reader of one value reads on, from an array read so far.
LEMMA Reader ==
    ASSUME NEW b \in Arrays, NEW r \in Readers(b)
    PROVE  /\ r.ba \in From(b) /\ r.ba \in Arrays /\ r.value \in Seq(Int)
           /\ \A c \in From(r.ba) : c \in From(b)
           /\ \A n \in Nat : Read(r.ba, n).ba \in From(b)
           /\ ReadVar(r.ba).ba \in From(b) /\ ReadVar(r.ba).value \in Nat
           /\ TakeVar(r) \in Readers(b) /\ TakeZigzag(r) \in Readers(b) /\ TakeInt8(r).ba \in From(b)
           /\ \A n \in Nat : TakeFix(r, n).ba \in From(b)
           /\ TakeCount(r).r \in Readers(b) /\ TakeCount(r).count \in Nat
<1>1. r.ba \in From(b) /\ r.ba \in Arrays /\ r.value \in Seq(Int)
  BY DEF Readers, From
<1>2. \A c \in From(r.ba) : c \in From(b)
  BY <1>1, FromFrom
<1>3. \A n \in Nat : Read(r.ba, n).ba \in From(b)
  BY <1>1, <1>2, ReadFrom
<1>4. PICK c : c = ReadVar(r.ba)
  OBVIOUS
<1>5. c.ba \in From(b) /\ c.value \in Nat
  BY <1>1, <1>2, <1>4, VarRead
<1>6. ASSUME NEW v \in Int PROVE Took(r, c.ba, v) \in Readers(b)
  <2>1. Append(r.value, v) \in Seq(Int)
    BY <1>1
  <2>2. QED
    BY <1>1, <1>5, <2>1 DEF Took, Readers
<1>7. TakeVar(r) \in Readers(b)
  <2>1. TakeVar(r) = IF Going(r) THEN Took(r, c.ba, c.value) ELSE r
    BY <1>4 DEF TakeVar
  <2>2. QED
    BY <1>5, <1>6, <2>1
<1>8. TakeZigzag(r) \in Readers(b)
  <2>1. TakeZigzag(r) = IF Going(r) THEN Took(r, c.ba, DecodeZigzag(c.value)) ELSE r
    BY <1>4 DEF TakeZigzag
  <2>2. DecodeZigzag(c.value) \in Int
    BY <1>5 DEF DecodeZigzag
  <2>3. QED
    BY <1>6, <2>1, <2>2
<1>9. ASSUME NEW d \in From(b), NEW v PROVE Took(r, d, v).ba \in From(b)
  BY DEF Took
<1>10. TakeInt8(r).ba \in From(b)
  BY <1>1, <1>3, <1>9 DEF TakeInt8
<1>11. \A n \in Nat : TakeFix(r, n).ba \in From(b)
  BY <1>1, <1>3, <1>9 DEF TakeFix
<1>12. TakeCount(r).r \in Readers(b) /\ TakeCount(r).count \in Nat
  <2>1. [r EXCEPT !.ba = c.ba] \in Readers(b)
    BY <1>1, <1>5 DEF Readers
  <2>2. QED
    BY <1>4, <1>5, <2>1 DEF TakeCount
<1>13. QED
  BY <1>1, <1>2, <1>3, <1>4, <1>5, <1>7, <1>8, <1>10, <1>11, <1>12

\* The steps of a loop over varints.
LEMMA VarTimesUnrolled ==
    ASSUME NEW b \in Arrays, NEW x \in Readers(b), NEW n \in Nat
    PROVE  \E f : /\ f[0] = x /\ \A i \in 1 .. n : f[i] = TakeVar(f[i - 1])
                  /\ Times(x, n, TakeVar) = f[n]
<1>1. PICK S : S = Readers(b)
  OBVIOUS
<1>2. \A y \in S : TakeVar(y) \in S
  BY <1>1, Reader
<1>3. PICK F : F = [i \in 1 .. n |-> [y \in S |-> TakeVar(y)]]
  OBVIOUS
<1>4. Keeps(F, n, S)
  BY <1>2, <1>3 DEF Keeps
<1>5. PICK g \in [0 .. n -> S] : Runs(g, F, n, x)
  BY <1>1, <1>4, Repeated
<1>6. g = [i \in 0 .. n |-> IF i = 0 THEN x ELSE TakeVar(g[i - 1])]
  <2>1. ASSUME NEW i \in 0 .. n, i # 0 PROVE g[i] = TakeVar(g[i - 1])
    <3>1. i \in 1 .. n /\ i - 1 \in 0 .. n
      BY <2>1
    <3>2. g[i - 1] \in S /\ g[i] = F[i][g[i - 1]]
      BY <1>5, <3>1 DEF Runs
    <3>3. QED
      BY <1>3, <3>1, <3>2
  <2>2. g[0] = x
    BY <1>5 DEF Runs
  <2>3. QED
    BY <2>1, <2>2
<1>7. PICK f : f = CHOOSE h : h = [i \in 0 .. n |-> IF i = 0 THEN x ELSE TakeVar(h[i - 1])]
  OBVIOUS
<1>8. f = [i \in 0 .. n |-> IF i = 0 THEN x ELSE TakeVar(f[i - 1])]
  BY <1>6, <1>7, Zenon
<1>9. Times(x, n, TakeVar) = f[n]
  BY <1>7, Zenon DEF Times
<1>10. ASSUME NEW i \in 1 .. n PROVE f[i] = TakeVar(f[i - 1])
  <2>1. i \in 0 .. n /\ i # 0
    OBVIOUS
  <2>2. QED
    BY <1>8, <2>1
<1>11. f[0] = x
  BY <1>8
<1>12. QED
  BY <1>9, <1>10, <1>11, Zenon

\* So a loop of varints reads on ...
LEMMA VarTimes ==
    ASSUME NEW b \in Arrays, NEW x \in Readers(b), NEW n \in Nat
    PROVE  Times(x, n, TakeVar) \in Readers(b)
<1>1. PICK f : /\ f[0] = x /\ \A i \in 1 .. n : f[i] = TakeVar(f[i - 1])
               /\ Times(x, n, TakeVar) = f[n]
  BY VarTimesUnrolled
<1>2. PICK S : S = Readers(b)
  OBVIOUS
<1>3. f[0] \in S /\ \A i \in 1 .. n : f[i - 1] \in S => f[i] \in S
  BY <1>1, <1>2, Reader
<1>4. f[n] \in S
  BY <1>3, Stays
<1>5. QED
  BY <1>1, <1>2, <1>4

\* ... and over signed ones.
LEMMA ZigzagUnrolled ==
    ASSUME NEW b \in Arrays, NEW x \in Readers(b), NEW n \in Nat
    PROVE  \E f : /\ f[0] = x /\ \A i \in 1 .. n : f[i] = TakeZigzag(f[i - 1])
                  /\ Times(x, n, TakeZigzag) = f[n]
<1>1. PICK S : S = Readers(b)
  OBVIOUS
<1>2. \A y \in S : TakeZigzag(y) \in S
  BY <1>1, Reader
<1>3. PICK F : F = [i \in 1 .. n |-> [y \in S |-> TakeZigzag(y)]]
  OBVIOUS
<1>4. Keeps(F, n, S)
  BY <1>2, <1>3 DEF Keeps
<1>5. PICK g \in [0 .. n -> S] : Runs(g, F, n, x)
  BY <1>1, <1>4, Repeated
<1>6. g = [i \in 0 .. n |-> IF i = 0 THEN x ELSE TakeZigzag(g[i - 1])]
  <2>1. ASSUME NEW i \in 0 .. n, i # 0 PROVE g[i] = TakeZigzag(g[i - 1])
    <3>1. i \in 1 .. n /\ i - 1 \in 0 .. n
      BY <2>1
    <3>2. g[i - 1] \in S /\ g[i] = F[i][g[i - 1]]
      BY <1>5, <3>1 DEF Runs
    <3>3. QED
      BY <1>3, <3>1, <3>2
  <2>2. g[0] = x
    BY <1>5 DEF Runs
  <2>3. QED
    BY <2>1, <2>2
<1>7. PICK f : f = CHOOSE h : h = [i \in 0 .. n |-> IF i = 0 THEN x ELSE TakeZigzag(h[i - 1])]
  OBVIOUS
<1>8. f = [i \in 0 .. n |-> IF i = 0 THEN x ELSE TakeZigzag(f[i - 1])]
  BY <1>6, <1>7, Zenon
<1>9. Times(x, n, TakeZigzag) = f[n]
  BY <1>7, Zenon DEF Times
<1>10. ASSUME NEW i \in 1 .. n PROVE f[i] = TakeZigzag(f[i - 1])
  <2>1. i \in 0 .. n /\ i # 0
    OBVIOUS
  <2>2. QED
    BY <1>8, <2>1
<1>11. f[0] = x
  BY <1>8
<1>12. QED
  BY <1>9, <1>10, <1>11, Zenon

\* ... and one of signed ones.
LEMMA ZigzagTimes ==
    ASSUME NEW b \in Arrays, NEW x \in Readers(b), NEW n \in Nat
    PROVE  Times(x, n, TakeZigzag) \in Readers(b)
<1>1. PICK f : /\ f[0] = x /\ \A i \in 1 .. n : f[i] = TakeZigzag(f[i - 1])
               /\ Times(x, n, TakeZigzag) = f[n]
  BY ZigzagUnrolled
<1>2. PICK S : S = Readers(b)
  OBVIOUS
<1>3. f[0] \in S /\ \A i \in 1 .. n : f[i - 1] \in S => f[i] \in S
  BY <1>1, <1>2, Reader
<1>4. f[n] \in S
  BY <1>3, Stays
<1>5. QED
  BY <1>1, <1>2, <1>4

\* The types of values the Serializer reads back.
Types == {"int8", "uint16", "uint32", "int32", "string", "list", "tuple", "map"}

\* Serializer::read(): whatever is taken out, the array is read further.
LEMMA DecodeFrom ==
    ASSUME NEW b \in Arrays, NEW type \in Types
    PROVE  Decode(b, type).ba \in From(b)
<1>1. PICK c : c = [b EXCEPT !.thrown = FALSE]
  OBVIOUS
<1>2. c \in From(b) /\ c \in Arrays
  BY <1>1, Flagged DEF From
<1>3. PICK r : r = [ba |-> c, value |-> <<>>]
  OBVIOUS
<1>4. r \in Readers(b)
  <2>1. <<>> \in Seq(Int)
    OBVIOUS
  <2>2. QED
    BY <1>2, <1>3, <2>1 DEF Readers
<1>5. /\ \A q \in Readers(b) : q.ba \in From(b)
      /\ TakeVar(r) \in Readers(b) /\ TakeZigzag(r) \in Readers(b) /\ TakeInt8(r).ba \in From(b)
      /\ \A n \in Nat : TakeFix(r, n).ba \in From(b)
  BY <1>4, Reader DEF Readers
<1>6. TakeString(r).ba \in From(b)
  <2>1. PICK x : x = TakeCount(r)
    OBVIOUS
  <2>2. x.r \in Readers(b) /\ x.count \in Nat
    BY <1>4, <2>1, Reader
  <2>3. Read(x.r.ba, x.count).ba \in From(b)
    BY <2>2, Reader
  <2>4. TakeString(r) = IF Going(x.r) THEN [ba |-> Read(x.r.ba, x.count).ba, value |-> Read(x.r.ba, x.count).data]
                        ELSE x.r
    BY <2>1 DEF TakeString
  <2>5. QED
    BY <1>5, <2>2, <2>3, <2>4
<1>7. TakeList(r).ba \in From(b)
  <2>1. PICK x : x = TakeCount(r)
    OBVIOUS
  <2>2. x.r \in Readers(b) /\ x.count \in Nat
    BY <1>4, <2>1, Reader
  <2>3. TakeList(r) = Times(x.r, x.count, TakeZigzag)
    BY <2>1, Zenon DEF TakeList
  <2>4. QED
    BY <1>5, <2>2, <2>3, ZigzagTimes
<1>8. TakeMap(r).ba \in From(b)
  <2>1. PICK x : x = TakeCount(r)
    OBVIOUS
  <2>2. x.r \in Readers(b) /\ x.count \in Nat
    BY <1>4, <2>1, Reader
  <2>3. PICK n \in Nat : n = 2 * x.count
    BY <2>2
  <2>4. TakeMap(r) = Times(x.r, n, TakeVar)
    BY <2>1, <2>3, Zenon DEF TakeMap
  <2>5. QED
    BY <1>5, <2>2, <2>4, VarTimes
<1>9. TakeVar(TakeInt8(r)).ba \in From(b)
  <2>1. PICK q : q = TakeInt8(r)
    OBVIOUS
  <2>2. q.ba \in From(b) /\ q.ba \in Arrays
    BY <1>5, <2>1 DEF From
  <2>3. ReadVar(q.ba).ba \in From(b)
    BY <2>2, VarRead, FromFrom
  <2>4. QED
    BY <2>1, <2>2, <2>3 DEF TakeVar, Took
<1>10. Decode(b, type) =
        CASE type = "int8"   -> TakeInt8(r)
          [] type = "uint16" -> TakeFix(r, 2)
          [] type = "uint32" -> TakeVar(r)
          [] type = "int32"  -> TakeZigzag(r)
          [] type = "string" -> TakeString(r)
          [] type = "list"   -> TakeList(r)
          [] type = "tuple"  -> TakeVar(TakeInt8(r))
          [] type = "map"    -> TakeMap(r)
  BY <1>1, <1>3, Zenon DEF Decode
<1>11. 2 \in Nat
  OBVIOUS
<1>12. QED
  BY <1>5, <1>6, <1>7, <1>8, <1>9, <1>10, <1>11 DEF Types

-----------------------------------------------------------------------------
(***************************************************************************)
(* A file read in block by block is one write of all of it.                *)
(***************************************************************************)
\* w is b with the sequence s written at its position.
Holds(w, b, s) ==
  /\ Straight(w) /\ w.ok = b.ok
  /\ w.pos = b.pos + Len(s) /\ w.size = Most(b.size, b.pos + Len(s))
  /\ \A i \in 1 .. w.size : w.mem[i] = IF i - b.pos \in 1 .. Len(s) THEN s[i - b.pos] ELSE b.mem[i]

\* write() of a straight array leaves the bytes at the position.
LEMMA WriteHolds ==
    ASSUME NEW b \in Arrays, NEW s \in Seq(Int)
    PROVE  /\ Write(b, s) \in Arrays /\ (Write(b, s).ok => b.ok) /\ b.pos <= Write(b, s).pos
           /\ Straight(b) => Holds(Write(b, s), b, s)
BY Written DEF Holds

\* u is s with t after it.
Glued(u, s, t) == /\ Len(u) = Len(s) + Len(t)
                  /\ \A i \in 1 .. Len(s) : u[i] = s[i]
                  /\ \A i \in 1 .. Len(t) : u[Len(s) + i] = t[i]

\* A write after a write.
LEMMA HoldsMore ==
    ASSUME NEW b \in Arrays, NEW w \in Arrays, NEW x \in Arrays, NEW s \in Seq(Int), NEW t \in Seq(Int),
           NEW u \in Seq(Int), Glued(u, s, t), Holds(w, b, s), Holds(x, w, t)
    PROVE  Holds(x, b, u)
<1>1. PICK p \in Nat, z \in Nat, m \in Nat, n \in Nat : p = b.pos /\ z = b.size /\ m = Len(s) /\ n = Len(t) /\ p <= z
  BY ArrayFacts, NonEmpty
<1>2. w.ok = b.ok /\ w.pos = p + m /\ w.size = Most(z, p + m)
  BY <1>1 DEF Holds
<1>3. Straight(x) /\ x.ok = w.ok /\ x.pos = w.pos + n /\ x.size = Most(w.size, w.pos + n)
  BY <1>1 DEF Holds
<1>4. x.pos = p + (m + n) /\ x.size = Most(z, p + (m + n)) /\ x.size \in Nat
  <2>1. PICK a \in Nat, c \in Nat : a = p + m /\ c = p + (m + n) /\ a + n = c /\ a <= c
    OBVIOUS
  <2>2. x.pos = a + n /\ x.size = Most(Most(z, a), c)
    BY <1>2, <1>3, <2>1
  <2>3. Most(Most(z, a), c) = Most(z, c) /\ Most(z, c) \in Nat
    BY <2>1 DEF Most
  <2>4. QED
    BY <2>1, <2>2, <2>3
<1>5. ASSUME NEW i \in 1 .. x.size PROVE x.mem[i] = IF i - p \in 1 .. m + n THEN u[i - p] ELSE b.mem[i]
  <2>1. x.mem[i] = IF i - (p + m) \in 1 .. n THEN t[i - (p + m)] ELSE w.mem[i]
    BY <1>1, <1>2 DEF Holds
  <2>2. i \in Nat
    BY <1>4
  <2>3. CASE i - (p + m) \in 1 .. n
    <3>1. PICK j \in 1 .. n : j = i - (p + m) /\ m + j = i - p /\ i - p \in 1 .. m + n
      <4>1. i - (p + m) \in Int /\ m + (i - (p + m)) = i - p
        BY <2>2
      <4>2. \A k \in 1 .. n : m + k \in 1 .. m + n
        OBVIOUS
      <4>3. QED
        BY <2>3, <4>1, <4>2
    <3>2. u[m + j] = t[j]
      BY <1>1 DEF Glued
    <3>3. QED
      BY <2>1, <2>3, <3>1, <3>2
  <2>4. CASE i - (p + m) \notin 1 .. n
    <3>1. i <= w.size /\ w.size \in Nat
      <4>1. i <= Most(z, p + (m + n))
        BY <1>4
      <4>2. i <= Most(z, p + m)
        BY <2>2, <2>4, <4>1 DEF Most
      <4>3. QED
        BY <1>2, <4>2 DEF Most
    <3>2. w.mem[i] = IF i - p \in 1 .. m THEN s[i - p] ELSE b.mem[i]
      <4>1. i \in 1 .. w.size
        BY <3>1
      <4>2. QED
        BY <1>1, <4>1 DEF Holds
    <3>3. i - p \in 1 .. m + n <=> i - p \in 1 .. m
      BY <2>2, <2>4
    <3>4. i - p \in 1 .. m => u[i - p] = s[i - p]
      BY <1>1 DEF Glued
    <3>5. QED
      BY <2>1, <2>4, <3>2, <3>3, <3>4
  <2>5. QED
    BY <2>3, <2>4
<1>6. QED
  <2>1. Len(u) = m + n
    BY <1>1 DEF Glued
  <2>2. QED
    BY <1>1, <1>2, <1>3, <1>4, <1>5, <2>1 DEF Holds

\* So does readFromFile(), of all the bytes of the file.
LEMMA FileHolds ==
    ASSUME NEW b \in Arrays, NEW s \in Seq(Int)
    PROVE  /\ FromFile(b, s) \in Arrays /\ (FromFile(b, s).ok => b.ok) /\ b.pos <= FromFile(b, s).pos
           /\ Straight(b) => Holds(FromFile(b, s), b, s)
<1>1. PICK l \in Nat : l = Len(s)
  BY NonEmpty
<1>2. PICK q \in Nat, r \in 0 .. BaseSize - 1 : q = l \div BaseSize /\ r = l % BaseSize /\ l = q * BaseSize + r
  BY Quotient
<1>3. PICK n \in Nat : n = q + 1
  OBVIOUS
<1> DEFINE piece(k) == SubSeq(s, k * BaseSize + 1, Least((k + 1) * BaseSize, l))
<1>4. ASSUME NEW k \in 0 .. q
      PROVE  /\ piece(k) \in Seq(Int)
             /\ \E t \in Seq(Int), v \in Seq(Int) :
                  /\ t = SubSeq(s, 1, Least(k * BaseSize, l)) /\ v = SubSeq(s, 1, Least((k + 1) * BaseSize, l))
                  /\ Glued(v, t, piece(k))
  <2>1. PICK a \in Nat : a = k * BaseSize
    OBVIOUS
  <2>2. PICK c \in Nat : c = Least((k + 1) * BaseSize, l) /\ a <= c /\ c <= l /\ a <= l
    <3>1. (k + 1) * BaseSize = a + BaseSize
      BY <2>1
    <3>2. a <= l
      <4>1. k * BaseSize <= q * BaseSize
        OBVIOUS
      <4>2. PICK z \in Nat : z = q * BaseSize
        OBVIOUS
      <4>3. QED
        BY <1>2, <2>1, <4>1, <4>2
    <3>3. QED
      BY <3>1, <3>2 DEF Least
  <2>3. PICK d \in Nat : d = c - a
    BY <2>2
  <2>4. piece(k) = SubSeq(s, a + 1, a + d)
    BY <2>1, <2>2, <2>3
  <2> HIDE DEF piece
  <2>5. PICK p : p = piece(k)
    OBVIOUS
  <2>6. p \in Seq(Int) /\ Len(p) = d /\ \A i \in 1 .. d : p[i] = s[a + i]
    <3>1. a + d <= Len(s)
      BY <1>1, <2>2, <2>3
    <3>2. QED
      BY <2>4, <2>5, <3>1, PartOf
  <2>7. PICK t \in Seq(Int) : t = SubSeq(s, 1, a) /\ Len(t) = a /\ \A i \in 1 .. a : t[i] = s[i]
    <3>1. a <= Len(s)
      BY <1>1, <2>2
    <3>2. QED
      BY <3>1, FrontOf
  <2>8. PICK v \in Seq(Int) : v = SubSeq(s, 1, c) /\ Len(v) = c /\ \A i \in 1 .. c : v[i] = s[i]
    <3>1. c <= Len(s)
      BY <1>1, <2>2
    <3>2. QED
      BY <3>1, FrontOf
  <2>9. Least(k * BaseSize, l) = a
    BY <2>1, <2>2 DEF Least
  <2>10. Glued(v, t, p)
    <3>1. Len(v) = Len(t) + Len(p)
      BY <2>2, <2>3, <2>6, <2>7, <2>8
    <3>2. \A i \in 1 .. a : i \in 1 .. c
      BY <2>2
    <3>3. \A i \in 1 .. d : a + i \in 1 .. c
      BY <2>2, <2>3
    <3>4. \A i \in 1 .. a : v[i] = t[i]
      BY <2>7, <2>8, <3>2
    <3>5. \A i \in 1 .. d : v[a + i] = p[i]
      BY <2>6, <2>8, <3>3
    <3>6. QED
      BY <2>6, <2>7, <3>1, <3>4, <3>5 DEF Glued
  <2>11. t = SubSeq(s, 1, Least(k * BaseSize, l)) /\ v = SubSeq(s, 1, Least((k + 1) * BaseSize, l))
    BY <2>2, <2>7, <2>8, <2>9
  <2>12. QED
    BY <2>5, <2>6, <2>10, <2>11
<1> HIDE DEF piece
<1>5. PICK F : F = [i \in 1 .. n |-> [y \in Arrays |-> Write(y, piece(i - 1))]]
  OBVIOUS
<1>6. \A i \in 1 .. n : i - 1 \in 0 .. q /\ piece(i - 1) \in Seq(Int)
  <2>1. \A i \in 1 .. n : i - 1 \in 0 .. q
    BY <1>3
  <2>2. QED
    BY <1>4, <2>1
<1>7. Keeps(F, n, Arrays)
  BY <1>5, <1>6, WriteHolds DEF Keeps
<1>8. PICK g \in [0 .. n -> Arrays] : Runs(g, F, n, b)
  BY <1>7, Repeated
<1>9. g = [k \in 0 .. n |-> IF k = 0 THEN b ELSE Write(g[k - 1], piece(k - 1))]
  <2>1. ASSUME NEW i \in 0 .. n, i # 0 PROVE g[i] = Write(g[i - 1], piece(i - 1))
    <3>1. i \in 1 .. n /\ i - 1 \in 0 .. n
      BY <2>1
    <3>2. g[i - 1] \in Arrays /\ g[i] = F[i][g[i - 1]]
      BY <1>8, <3>1 DEF Runs
    <3>3. QED
      BY <1>5, <3>1, <3>2
  <2>2. g[0] = b
    BY <1>8 DEF Runs
  <2>3. QED
    BY <2>1, <2>2
<1>10. PICK f : f = CHOOSE h : h = [k \in 0 .. n |-> IF k = 0 THEN b ELSE Write(h[k - 1], piece(k - 1))]
  OBVIOUS
<1>11. f = [k \in 0 .. n |-> IF k = 0 THEN b ELSE Write(f[k - 1], piece(k - 1))]
  BY <1>9, <1>10, Zenon
<1>12. FromFile(b, s) = f[n]
  BY <1>1, <1>2, <1>3, <1>10, Zenon DEF FromFile, piece
<1>13. f[0] = b /\ \A k \in 0 .. q : f[k + 1] = Write(f[k], piece(k))
  <2>1. \A k \in 0 .. q : k + 1 \in 0 .. n /\ k + 1 # 0 /\ (k + 1) - 1 = k
    BY <1>3
  <2>2. QED
    BY <1>11, <2>1
<1> DEFINE Upto(k) == SubSeq(s, 1, Least(k * BaseSize, l))
<1>14. PICK G : G = { k \in 0 .. n : /\ f[k] \in Arrays /\ (f[k].ok => b.ok) /\ b.pos <= f[k].pos
                                     /\ Straight(b) => Holds(f[k], b, Upto(k)) }
  OBVIOUS
<1>15. Upto(0) = <<>>
  <2>1. Least(0 * BaseSize, l) = 0
    BY DEF Least
  <2>2. SubSeq(s, 1, 0) = <<>>
    OBVIOUS
  <2>3. QED
    BY <2>1, <2>2
<1> HIDE DEF Upto
<1>16. Straight(b) => Holds(b, b, <<>>)
  <2>1. b.pos \in Nat /\ b.size \in Nat /\ b.pos <= b.size
    BY ArrayFacts
  <2>2. Len(<<>>) = 0 /\ b.pos + 0 = b.pos /\ Most(b.size, b.pos + 0) = b.size /\ 1 .. 0 = {}
    BY <2>1 DEF Most
  <2>3. \A i \in 1 .. b.size : b.mem[i] = IF i - b.pos \in 1 .. Len(<<>>) THEN <<>>[i - b.pos] ELSE b.mem[i]
    BY <2>2
  <2>4. QED
    BY <2>1, <2>2, <2>3 DEF Holds
<1>17. 0 \in G
  <2>1. b.pos <= b.pos
    BY ArrayFacts
  <2>2. QED
    BY <1>13, <1>14, <1>15, <1>16, <2>1
<1>18. ASSUME NEW k \in 0 .. n - 1, k \in G PROVE k + 1 \in G
  <2>1. k \in 0 .. q /\ k + 1 \in 0 .. n
    BY <1>3
  <2>2. /\ f[k] \in Arrays /\ (f[k].ok => b.ok) /\ b.pos <= f[k].pos
        /\ Straight(b) => Holds(f[k], b, Upto(k))
    BY <1>14, <1>18
  <2>3. piece(k) \in Seq(Int) /\ f[k + 1] = Write(f[k], piece(k))
    BY <1>4, <1>13, <2>1
  <2>4. PICK x : x = f[k + 1]
    OBVIOUS
  <2>5. x \in Arrays /\ (x.ok => f[k].ok) /\ f[k].pos <= x.pos /\ (Straight(f[k]) => Holds(x, f[k], piece(k)))
    BY <2>2, <2>3, <2>4, WriteHolds
  <2>6. ASSUME Straight(b) PROVE Holds(x, b, Upto(k + 1))
    <3>1. Holds(f[k], b, Upto(k)) /\ Holds(x, f[k], piece(k))
      BY <2>2, <2>5, <2>6 DEF Holds
    <3>2. PICK t \in Seq(Int), v \in Seq(Int) :
            /\ t = Upto(k) /\ v = Upto(k + 1)
            /\ Glued(v, t, piece(k))
      BY <1>4, <2>1 DEF Upto
    <3>3. PICK y \in Arrays, p \in Seq(Int) : y = f[k] /\ p = piece(k)
      BY <2>2, <2>3
    <3>4. Holds(y, b, t) /\ Holds(x, y, p) /\ Glued(v, t, p)
      BY <3>1, <3>2, <3>3
    <3>5. Holds(x, b, v)
      BY <2>5, <3>2, <3>3, <3>4, HoldsMore
    <3>6. QED
      BY <3>2, <3>5
  <2>7. b.pos <= x.pos
    <3>1. b.pos \in Nat /\ f[k].pos \in Nat /\ x.pos \in Nat
      BY <2>2, <2>5, ArrayFacts
    <3>2. QED
      BY <2>2, <2>5, <3>1
  <2>8. QED
    BY <1>14, <2>1, <2>2, <2>4, <2>5, <2>6, <2>7
<1>19. n \in 0 .. n
  OBVIOUS
<1>20. n \in G
  BY <1>17, <1>18, <1>19, Climbs
<1>21. Upto(n) = s
  <2>1. n * BaseSize = q * BaseSize + BaseSize
    BY <1>3
  <2>2. PICK z \in Nat : z = q * BaseSize
    OBVIOUS
  <2>3. Least(n * BaseSize, l) = l
    BY <1>2, <2>1, <2>2 DEF Least
  <2>4. SubSeq(s, 1, l) = s
    BY <1>1
  <2>5. QED
    BY <2>3, <2>4 DEF Upto
<1>22. QED
  BY <1>12, <1>14, <1>20, <1>21

-----------------------------------------------------------------------------
(***************************************************************************)
(* The bytes of a value.                                                   *)
(***************************************************************************)
LEMMA Growing ==
    ASSUME NEW a \in Nat, NEW b \in Nat, a <= b
    PROVE  Pow2[a] <= Pow2[b]
<1>1. PICK n \in Nat : n = b - a /\ a + n = b
  OBVIOUS
<1>2. PICK G : G = { k \in 0 .. n : Pow2[a] <= Pow2[a + k] }
  OBVIOUS
<1>3. 0 \in G
  BY <1>2, Doubling
<1>4. ASSUME NEW k \in 0 .. n - 1, k \in G PROVE k + 1 \in G
  <2>1. k + 1 \in 0 .. n /\ a + k \in Nat /\ (a + k) + 1 = a + (k + 1)
    OBVIOUS
  <2>2. Pow2[a] \in Nat /\ Pow2[a + k] \in Nat /\ Pow2[(a + k) + 1] = 2 * Pow2[a + k]
    BY <2>1, Doubling
  <2>3. QED
    BY <1>2, <1>4, <2>1, <2>2
<1>5. n \in 0 .. n
  OBVIOUS
<1>6. n \in G
  BY <1>3, <1>4, <1>5, Climbs
<1>7. QED
  BY <1>1, <1>2, <1>6

\* A number of fixed width has that many bytes.
LEMMA FixBytesOf ==
    ASSUME NEW v \in Int, NEW n \in Nat
    PROVE  FixBytes(v, n) \in Seq(Int) /\ Len(FixBytes(v, n)) = n
<1>1. ASSUME NEW i \in 1 .. n PROVE (v \div Pow2[(n - i) * (Group + 1)]) % Radix \in Int
  <2>1. PICK m \in Nat, g \in Nat : m = n - i /\ g = Group + 1
    OBVIOUS
  <2>2. m * g \in Nat
    BY <2>1
  <2>3. PICK d \in Nat \ {0}, r \in Nat \ {0} : d = Pow2[m * g] /\ r = Radix
    BY <2>2, Doubling, RadixIsNumber
  <2>4. v \div d \in Int
    OBVIOUS
  <2>5. (v \div d) % r \in Int
    BY <2>4
  <2>6. QED
    BY <2>1, <2>3, <2>5
<1>2. PICK f : f = FixBytes(v, n)
  OBVIOUS
<1>3. f \in [1 .. n -> Int]
  BY <1>1, <1>2 DEF FixBytes
<1>4. f \in Seq(Int) /\ Len(f) = n
  BY <1>3
<1>5. QED
  BY <1>2, <1>4

\* A varint has at least one byte, and no more than hold all its bits.
LEMMA VarLenOf ==
    ASSUME NEW v \in Uint32
    PROVE  VarLen(v) \in 1 .. VarMost /\ v \in Nat
<1>1. v \in Nat /\ v < Pow2[Bits]
  BY Doubling DEF Uint32
<1>2. PICK S : S = { n \in Nat \ {0} : v < Pow2[n * Group] }
  OBVIOUS
<1>3. VarMost \in S
  <2>1. PICK n \in Nat \ {0} : n = VarMost /\ Bits <= n * Group /\ n * Group \in Nat
    BY VarMostIsNumber
  <2>2. Pow2[Bits] <= Pow2[n * Group] /\ Pow2[Bits] \in Nat /\ Pow2[n * Group] \in Nat
    BY <2>1, Growing, Doubling
  <2>3. v < Pow2[n * Group]
    BY <1>1, <2>2
  <2>4. QED
    BY <1>2, <2>1, <2>3
<1>4. S \in SUBSET Nat
  BY <1>2
<1>5. PICK m \in S : \A k \in S : m <= k
  BY <1>3, <1>4, Smallest
<1>6. m \in Nat \ {0} /\ v < Pow2[m * Group] /\ m <= VarMost
  BY <1>2, <1>3, <1>5
<1>7. m > 1 => v >= Pow2[(m - 1) * Group]
  <2>1. SUFFICES ASSUME m > 1 PROVE v >= Pow2[(m - 1) * Group]
    OBVIOUS
  <2>2. PICK k \in Nat \ {0} : k = m - 1 /\ ~(m <= k) /\ k * Group \in Nat
    BY <1>6, <2>1
  <2>3. k \notin S
    BY <1>5, <2>2
  <2>4. Pow2[k * Group] \in Nat /\ ~(v < Pow2[k * Group])
    BY <1>2, <2>2, <2>3, Doubling
  <2>5. QED
    BY <1>1, <2>2, <2>4
<1>8. m \in 1 .. VarMost
  BY <1>6, VarMostIsNumber
<1>9. VarLen(v) \in 1 .. VarMost
  BY <1>6, <1>7, <1>8, Zenon DEF VarLen
<1>10. QED
  BY <1>1, <1>9

\* A varint is a sequence of bytes.
LEMMA VarBytesOf ==
    ASSUME NEW v \in Uint32
    PROVE  VarBytes(v) \in Seq(Int)
<1>1. PICK n \in Nat : n = VarLen(v)
  BY VarLenOf, VarMostIsNumber
<1>2. PICK g \in Nat \ {0} : g = Pow2[Group]
  BY Doubling
<1>3. ASSUME NEW i \in 1 .. n
      PROVE  ((v \div Pow2[(i - 1) * Group]) % g) + (IF i < n THEN g ELSE 0) \in Int
  <2>1. PICK m \in Nat : m = i - 1 /\ m * Group \in Nat
    OBVIOUS
  <2>2. PICK d \in Nat \ {0} : d = Pow2[m * Group]
    BY <2>1, Doubling
  <2>3. v \in Nat
    BY VarLenOf
  <2>4. (v \div d) % g \in Int
    BY <2>3
  <2>5. QED
    BY <2>1, <2>2, <2>4
<1>4. PICK f : f = VarBytes(v)
  OBVIOUS
<1>5. f = [i \in 1 .. n |-> ((v \div Pow2[(i - 1) * Group]) % g) + (IF i < n THEN g ELSE 0)]
  BY <1>1, <1>2, <1>4 DEF VarBytes
<1>6. f \in [1 .. n -> Int]
  BY <1>3, <1>5
<1>7. f \in Seq(Int)
  BY <1>6
<1>8. QED
  BY <1>4, <1>7

\* EncodeZigzag32() returns an unsigned number of 32 bits.
LEMMA ZigzagOf ==
    ASSUME NEW v \in Int32
    PROVE  EncodeZigzag(v) \in Uint32
<1>1. PICK h \in Nat \ {0} : h = Pow2[Bits - 1] /\ Pow2[Bits] = 2 * h
  <2>1. PICK n \in Nat : n = Bits - 1 /\ n + 1 = Bits
    OBVIOUS
  <2>2. Pow2[n] \in Nat \ {0} /\ Pow2[n + 1] = 2 * Pow2[n]
    BY Doubling
  <2>3. QED
    BY <2>1, <2>2
<1>2. v \in -h .. h - 1
  BY <1>1 DEF Int32
<1>3. EncodeZigzag(v) \in 0 .. 2 * h - 1
  BY <1>2 DEF EncodeZigzag
<1>4. QED
  BY <1>1, <1>3 DEF Uint32

\* The varints of a list, one after the other.
LEMMA VarintsUnrolled ==
    ASSUME NEW s \in Seq(Int32)
    PROVE  \E f : /\ f[0] = <<>> /\ f[0] \in Seq(Int)
                  /\ \A i \in 1 .. Len(s) : f[i] = f[i - 1] \o VarBytes(EncodeZigzag(s[i]))
                  /\ \A i \in 0 .. Len(s) : f[i] \in Seq(Int)
                  /\ Varints(s) = f[Len(s)]
<1>1. PICK n \in Nat : n = Len(s)
  BY NonEmpty
<1>2. PICK S : S = Seq(Int)
  OBVIOUS
<1>3. ASSUME NEW i \in 1 .. n PROVE VarBytes(EncodeZigzag(s[i])) \in S
  <2>1. s[i] \in Int32
    BY <1>1
  <2>2. QED
    BY <1>2, <2>1, ZigzagOf, VarBytesOf
<1>4. \A i \in 1 .. n : \A y \in S : y \o VarBytes(EncodeZigzag(s[i])) \in S
  BY <1>2, <1>3, Joining
<1>5. PICK F : F = [i \in 1 .. n |-> [y \in S |-> y \o VarBytes(EncodeZigzag(s[i]))]]
  OBVIOUS
<1>6. Keeps(F, n, S) /\ <<>> \in S
  <2>1. <<>> \in S
    BY <1>2
  <2>2. QED
    BY <1>4, <1>5, <2>1 DEF Keeps
<1>7. PICK g \in [0 .. n -> S] : Runs(g, F, n, <<>>)
  BY <1>6, Repeated
<1>8. g = [i \in 0 .. n |-> IF i = 0 THEN <<>> ELSE g[i - 1] \o VarBytes(EncodeZigzag(s[i]))]
  <2>1. ASSUME NEW i \in 0 .. n, i # 0 PROVE g[i] = g[i - 1] \o VarBytes(EncodeZigzag(s[i]))
    <3>1. i \in 1 .. n /\ i - 1 \in 0 .. n
      BY <2>1
    <3>2. g[i - 1] \in S /\ g[i] = F[i][g[i - 1]]
      BY <1>7, <3>1 DEF Runs
    <3>3. QED
      BY <1>5, <3>1, <3>2
  <2>2. g[0] = <<>>
    BY <1>7 DEF Runs
  <2>3. QED
    BY <2>1, <2>2
<1>9. PICK f : f = CHOOSE h : h = [i \in 0 .. n |-> IF i = 0 THEN <<>> ELSE h[i - 1] \o VarBytes(EncodeZigzag(s[i]))]
  OBVIOUS
<1>10. f = [i \in 0 .. n |-> IF i = 0 THEN <<>> ELSE f[i - 1] \o VarBytes(EncodeZigzag(s[i]))]
  BY <1>8, <1>9, Zenon
<1>11. Varints(s) = f[n]
  BY <1>1, <1>9, Zenon DEF Varints
<1>12. f[0] = <<>> /\ \A i \in 1 .. n : f[i] = f[i - 1] \o VarBytes(EncodeZigzag(s[i]))
  <2>1. \A i \in 1 .. n : i \in 0 .. n /\ i # 0
    OBVIOUS
  <2>2. QED
    BY <1>10, <2>1
<1>13. PICK G : G = { i \in 0 .. n : f[i] \in S }
  OBVIOUS
<1>14. 0 \in G
  BY <1>6, <1>12, <1>13
<1>15. ASSUME NEW i \in 0 .. n - 1, i \in G PROVE i + 1 \in G
  <2>1. i + 1 \in 1 .. n /\ i + 1 \in 0 .. n /\ (i + 1) - 1 = i
    OBVIOUS
  <2>2. f[i] \in S /\ f[i + 1] = f[i] \o VarBytes(EncodeZigzag(s[i + 1]))
    BY <1>12, <1>13, <1>15, <2>1
  <2>3. f[i + 1] \in S
    BY <1>4, <2>1, <2>2
  <2>4. QED
    BY <1>13, <2>1, <2>3
<1>16. \A i \in 0 .. n : i \in G
  BY <1>14, <1>15, Climbs
<1>17. \A i \in 0 .. n : f[i] \in Seq(Int)
  BY <1>2, <1>13, <1>16
<1>18. f[0] \in Seq(Int)
  BY <1>2, <1>6, <1>12
<1>19. QED
  BY <1>1, <1>11, <1>12, <1>17, <1>18, Zenon

\* So the list as a whole is bytes.
LEMMA VarintsOf ==
    ASSUME NEW s \in Seq(Int32)
    PROVE  Varints(s) \in Seq(Int)
<1>1. PICK f : (\A i \in 0 .. Len(s) : f[i] \in Seq(Int)) /\ Varints(s) = f[Len(s)]
  BY VarintsUnrolled
<1>2. Len(s) \in 0 .. Len(s)
  BY NonEmpty
<1>3. QED
  BY <1>1, <1>2

\* Every value the Serializer takes becomes bytes, and its type has a reader.
LEMMA EncodeOf ==
    ASSUME NEW it, Typed(it)
    PROVE  Encode(it) \in Seq(Int) /\ it.type \in Types
<1>1. PICK v : v = it.value
  OBVIOUS
<1>2. Int8 \subseteq Int /\ Uint16 \subseteq Int
  BY DEF Int8, Uint16
<1>3. \A n \in Uint32 : VarBytes(n) \in Seq(Int)
  BY VarBytesOf
<1>4. CASE it.type = "int8"
  <2>1. v \in Seq(Int8) /\ Len(v) = 1
    BY <1>1, <1>4 DEF Typed
  <2>2. v[1] \in Int
    <3>1. v[1] \in Int8
      BY <2>1
    <3>2. QED
      BY <1>2, <3>1
  <2>3. FixBytes(v[1], 1) \in Seq(Int)
    BY <2>2, FixBytesOf
  <2>4. QED
    BY <1>1, <1>4, <2>3 DEF Encode, Types
<1>5. CASE it.type = "uint16"
  <2>1. v \in Seq(Uint16) /\ Len(v) = 1
    BY <1>1, <1>5 DEF Typed
  <2>2. v[1] \in Int
    <3>1. v[1] \in Uint16
      BY <2>1
    <3>2. QED
      BY <1>2, <3>1
  <2>3. FixBytes(v[1], 2) \in Seq(Int)
    BY <2>2, FixBytesOf
  <2>4. QED
    BY <1>1, <1>5, <2>3 DEF Encode, Types
<1>6. CASE it.type = "uint32"
  <2>1. v \in Seq(Uint32) /\ Len(v) = 1
    BY <1>1, <1>6 DEF Typed
  <2>2. VarBytes(v[1]) \in Seq(Int)
    BY <1>3, <2>1
  <2>3. QED
    BY <1>1, <1>6, <2>2 DEF Encode, Types
<1>7. CASE it.type = "int32"
  <2>1. v \in Seq(Int32) /\ Len(v) = 1
    BY <1>1, <1>7 DEF Typed
  <2>2. v[1] \in Int32
    BY <2>1
  <2>3. VarBytes(EncodeZigzag(v[1])) \in Seq(Int)
    BY <1>3, <2>2, ZigzagOf
  <2>4. QED
    BY <1>1, <1>7, <2>3 DEF Encode, Types
<1>8. CASE it.type = "string"
  <2>1. v \in Seq(0 .. Radix - 1) /\ Len(v) \in Uint32
    BY <1>1, <1>8 DEF Typed
  <2>2. v \in Seq(Int)
    <3>1. PICK B : B = 0 .. Radix - 1 /\ B \subseteq Int
      BY RadixIsNumber
    <3>2. v \in Seq(B)
      BY <2>1, <3>1
    <3>3. PICK n \in Nat : n = Len(v) /\ v \in [1 .. n -> B]
      BY <3>2
    <3>4. v \in [1 .. n -> Int]
      BY <3>1, <3>3
    <3>5. QED
      BY <3>4
  <2>3. StringBytes(v) \in Seq(Int)
    BY <1>3, <2>1, <2>2, Joining DEF StringBytes
  <2>4. QED
    BY <1>1, <1>8, <2>3 DEF Encode, Types
<1>9. CASE it.type = "list"
  <2>1. v \in Seq(Int32) /\ Len(v) \in Uint32
    BY <1>1, <1>9 DEF Typed
  <2>2. SequenceBytes(v) \in Seq(Int)
    BY <1>3, <2>1, VarintsOf, Joining DEF SequenceBytes
  <2>3. QED
    BY <1>1, <1>9, <2>2 DEF Encode, Types
<1>10. CASE it.type = "tuple"
  <2>1. v[1] \in Int8 /\ v[2] \in Uint32
    <3>1. v \in Int8 \X Uint32
      BY <1>1, <1>10 DEF Typed
    <3>2. QED
      BY <3>1
  <2>2. FixBytes(v[1], 1) \in Seq(Int)
    BY <1>2, <2>1, FixBytesOf
  <2>3. TupleBytes(v) \in Seq(Int)
    BY <1>3, <2>1, <2>2, Joining DEF TupleBytes
  <2>4. QED
    BY <1>1, <1>10, <2>3 DEF Encode, Types
<1>11. CASE it.type = "map"
  <2>1. v \in Seq(Uint32) /\ Len(v) \in Uint32
    BY <1>1, <1>11 DEF Typed
  <2>2. PICK n \in Nat : n = Len(v)
    BY <2>1, NonEmpty
  <2>3. n \div 2 \in 0 .. n
    OBVIOUS
  <2>4. n \div 2 \in Uint32
    <3>1. PICK w \in Nat \ {0} : w = Pow2[Bits]
      BY Doubling
    <3>2. QED
      BY <2>1, <2>2, <2>3, <3>1 DEF Uint32
  <2>5. MapBytes(v) \in Seq(Int)
    BY <1>3, <2>2, <2>4 DEF MapBytes
  <2>6. QED
    BY <1>1, <1>11, <2>5 DEF Encode, Types
<1>12. QED
  BY <1>4, <1>5, <1>6, <1>7, <1>8, <1>9, <1>10, <1>11 DEF Typed

-----------------------------------------------------------------------------
(***************************************************************************)
(* What a straight array hands out: bytes from its position on.            *)
(***************************************************************************)
Ahead(d, b) == /\ d \in Seq(Int) /\ b.pos + Len(d) <= b.size
               /\ \A i \in 1 .. Len(d) : d[i] = b.mem[b.pos + i]

\* getReadBuffers() offers less than is left.
LEMMA OfferedBelow ==
    ASSUME NEW b, NEW p \in Nat, NEW n \in Nat \ {0}
    PROVE  Offered(b, p, n) \in 0 .. n - 1
<1>1. PICK o \in 0 .. BaseSize - 1 : o = Npos(p)
  BY Quotient DEF Npos
<1>2. PICK f \in Nat \ {0} : f = BaseSize - Npos(p)
  BY <1>1
<1>3. CASE n <= f
  BY <1>2, <1>3 DEF Offered
<1>4. CASE n > f
  <2>1. PICK m \in Nat : m = n - f - 1
    BY <1>4
  <2>2. PICK q \in Nat, r \in 0 .. BaseSize - 1 : q = m \div BaseSize /\ r = m % BaseSize /\ m = q * BaseSize + r
    BY Quotient
  <2>3. PICK z \in Nat : z = q * BaseSize
    OBVIOUS
  <2>4. f + z \in 0 .. n - 1
    BY <1>4, <2>1, <2>2, <2>3
  <2>5. Offered(b, p, n) = f + z
    BY <1>2, <1>4, <2>1, <2>2, <2>3 DEF Offered
  <2>6. QED
    BY <2>4, <2>5
<1>5. QED
  BY <1>2, <1>3, <1>4

\* The bytes of the array from its position on are ahead of it ...
LEMMA AheadOf ==
    ASSUME NEW b \in Arrays, NEW n \in Nat, b.pos + n <= b.size
    PROVE  Ahead(Bytes(b, b.pos, n), b) /\ Len(Bytes(b, b.pos, n)) = n
<1>1. /\ b.pos \in Nat /\ b.size \in Nat /\ Len(b.mem) \in Nat /\ b.size <= Len(b.mem)
  BY ArrayFacts
<1>2. b.pos + n <= Len(b.mem)
  BY <1>1
<1>3. QED
  <2>1. PICK d : d = Bytes(b, b.pos, n)
    OBVIOUS
  <2>2. d \in Seq(Int) /\ Len(d) = n /\ \A i \in 1 .. n : d[i] = b.mem[b.pos + i]
    <3>1. PICK p \in Nat : p = b.pos /\ p + n <= Len(b.mem)
      BY <1>1, <1>2
    <3>2. /\ Bytes(b, p, n) \in Seq(Int) /\ Len(Bytes(b, p, n)) = n
          /\ \A i \in 1 .. n : Bytes(b, p, n)[i] = b.mem[p + i]
      BY <3>1, BytesOf
    <3>3. QED
      BY <2>1, <3>1, <3>2
  <2>3. QED
    BY <2>1, <2>2 DEF Ahead

\* ... and so is nothing at all.
LEMMA NothingAhead ==
    ASSUME NEW b \in Arrays
    PROVE  Ahead(<<>>, b)
<1>1. b.pos \in Nat /\ b.pos <= b.size
  BY ArrayFacts
<1>2. <<>> \in Seq(Int) /\ Len(<<>>) = 0 /\ b.pos + 0 <= b.size /\ 1 .. 0 = {}
  BY <1>1
<1>3. QED
  BY <1>2 DEF Ahead

\* read(buffer, size, position) at the position, of all that is left.
LEMMA RestRead ==
    ASSUME NEW b \in Arrays, NEW n \in Nat, n = ReadSize(b)
    PROVE  /\ ReadAt(b, n, b.pos).data \in Seq(Int)
           /\ Straight(b) /\ n > 0 =>
                /\ Ahead(ReadAt(b, n, b.pos).data, b) /\ Len(ReadAt(b, n, b.pos).data) = n
                /\ b.cur # Nil
<1>1. /\ b.mem \in Seq(Int) /\ b.pos \in Nat /\ b.size \in Nat /\ Len(b.mem) \in Nat
      /\ b.pos <= b.size /\ b.size <= Len(b.mem)
  BY ArrayFacts
<1>2. n = b.size - b.pos /\ b.pos + n = b.size
  BY <1>1 DEF ReadSize
<1>3. ~(b.pos <= b.size /\ n > b.size - b.pos)
  BY <1>1, <1>2
<1>4. PICK a : a = AddressOf(b, b.pos)
  OBVIOUS
<1>5. CASE b.cur = Nil \/ a + n > Len(b.mem)
  <2>1. ReadAt(b, n, b.pos) = [data |-> <<>>, ba |-> Undefined(b)]
    BY <1>3, <1>4, <1>5 DEF ReadAt
  <2>2. ASSUME Straight(b), n > 0 PROVE FALSE
    <3>1. b.pos < Len(b.mem)
      BY <1>1, <1>2, <2>2
    <3>2. a = b.pos /\ b.cur # Nil
      BY <1>4, <2>2, <3>1, StraightAddress
    <3>3. QED
      BY <1>1, <1>2, <1>5, <3>2
  <2>3. <<>> \in Seq(Int)
    OBVIOUS
  <2>4. QED
    BY <2>1, <2>2, <2>3
<1>6. CASE ~(b.cur = Nil \/ a + n > Len(b.mem))
  <2>1. ReadAt(b, n, b.pos).data = Bytes(b, a, n)
    BY <1>3, <1>4, <1>6 DEF ReadAt
  <2>2. a \in Nat
    BY <1>1, <1>4, <1>6, AddressInRange
  <2>3. a + n <= Len(b.mem)
    BY <1>1, <1>6, <2>2
  <2>4. Bytes(b, a, n) \in Seq(Int)
    BY <2>2, <2>3, BytesOf
  <2>5. ASSUME Straight(b), n > 0 PROVE a = b.pos
    <3>1. b.pos < Len(b.mem)
      BY <1>1, <1>2, <2>5
    <3>2. QED
      BY <1>4, <2>5, <3>1, StraightAddress
  <2>6. b.pos + n <= b.size
    BY <1>1, <1>2
  <2>7. Ahead(Bytes(b, b.pos, n), b) /\ Len(Bytes(b, b.pos, n)) = n
    BY <2>6, AheadOf
  <2>8. QED
    BY <1>6, <2>1, <2>4, <2>5, <2>7
<1>7. QED
  BY <1>5, <1>6

\* to_string() and write_to_file().
LEMMA RestOf ==
    ASSUME NEW b \in Arrays
    PROVE  /\ Rest(b).data \in Seq(Int)
           /\ Straight(b) => Ahead(Rest(b).data, b) /\ b.pos + Len(Rest(b).data) = b.size
           /\ Straight(b) /\ Npos(b.pos) = 0 =>
                Ahead(ToFile(b).data, b) /\ b.pos + Len(ToFile(b).data) = b.size
<1>1. b.pos \in Nat /\ b.size \in Nat /\ b.pos <= b.size
  BY ArrayFacts
<1>2. PICK n \in Nat : n = ReadSize(b) /\ b.pos + n = b.size
  BY <1>1 DEF ReadSize
<1>3. CASE n = 0
  <2>1. Rest(b).data = <<>> /\ ToFile(b).data = <<>>
    BY <1>2, <1>3 DEF Rest, ToFile
  <2>2. Ahead(<<>>, b) /\ Len(<<>>) = 0 /\ <<>> \in Seq(Int)
    BY NothingAhead
  <2>3. QED
    BY <1>2, <1>3, <2>1, <2>2
<1>4. CASE n > 0
  <2>1. PICK d : d = ReadAt(b, n, b.pos).data
    OBVIOUS
  <2>2. d \in Seq(Int) /\ (Straight(b) => Ahead(d, b) /\ Len(d) = n /\ b.cur # Nil)
    BY <1>2, <1>4, <2>1, RestRead
  <2>3. Rest(b).data = d
    BY <1>2, <1>4, <2>1 DEF Rest
  <2>4. b.cur # Nil /\ Npos(b.pos) = 0 => ToFile(b).data = d
    BY <1>2, <1>4, <2>1 DEF ToFile
  <2>5. QED
    BY <1>2, <2>2, <2>3, <2>4
<1>5. QED
  BY <1>3, <1>4

\* The read buffers of a straight array.
LEMMA BuffersOf ==
    ASSUME NEW b \in Arrays, Straight(b), NEW n \in Nat
    PROVE  /\ Ahead(ReadBuffers(b, n), b)
           /\ b.pos < b.size => b.pos + Len(ReadBuffers(b, n)) < b.size
           /\ ReadBuffers(b, n) # <<>> => Len(ReadBuffers(b, n)) < n
           /\ b.cur = 0 => Ahead(ReadBuffersAt(b, n, b.pos), b)
<1>1. b.pos \in Nat /\ b.size \in Nat /\ b.pos <= b.size /\ Len(b.mem) \in Nat /\ b.size <= Len(b.mem)
  BY ArrayFacts
<1>2. PICK l \in Nat : l = Least(n, ReadSize(b)) /\ l <= n /\ b.pos + l <= b.size
  <2>1. PICK p \in Nat, z \in Nat : p = b.pos /\ z = b.size /\ p <= z
    BY <1>1
  <2>2. ReadSize(b) = z - p
    BY <2>1 DEF ReadSize
  <2>3. Least(n, z - p) \in Nat /\ Least(n, z - p) <= n /\ p + Least(n, z - p) <= z
    BY <2>1 DEF Least
  <2>4. QED
    BY <2>1, <2>2, <2>3
<1>3. CASE l = 0
  <2>1. ReadBuffers(b, n) = <<>> /\ ReadBuffersAt(b, n, b.pos) = <<>>
    BY <1>2, <1>3 DEF ReadBuffers, ReadBuffersAt
  <2>2. Len(<<>>) = 0
    OBVIOUS
  <2>3. QED
    BY <1>1, <2>1, <2>2, NothingAhead
<1>4. CASE l # 0
  <2>1. PICK o \in 0 .. l - 1 : o = Offered(b, b.pos, l)
    BY <1>1, <1>4, OfferedBelow
  <2>2. b.pos < Len(b.mem)
    BY <1>1, <1>2, <1>4
  <2>3. AddressOf(b, b.pos) = b.pos
    BY <2>2, StraightAddress
  <2>4. PICK d : d = Bytes(b, b.pos, o)
    OBVIOUS
  <2>5. Ahead(d, b) /\ Len(d) = o
    <3>1. b.pos + o <= b.size /\ o \in Nat
      BY <1>1, <1>2, <2>1
    <3>2. QED
      BY <2>4, <3>1, AheadOf
  <2>6. ReadBuffers(b, n) = d
    BY <1>2, <1>4, <2>1, <2>3, <2>4 DEF ReadBuffers
  <2>7. ASSUME b.cur = 0 PROVE ReadBuffersAt(b, n, b.pos) = d
    <3>1. b.pos \div BaseSize = 0
      BY <1>1, <2>2, <2>7, NodeOf DEF Straight
    <3>2. b.pos + 0 * BaseSize = b.pos
      BY <1>1
    <3>3. QED
      BY <1>2, <1>4, <2>1, <2>3, <2>4, <3>1, <3>2 DEF ReadBuffersAt
  <2>8. b.pos + o < b.size /\ o < n
    BY <1>1, <1>2, <2>1
  <2>9. QED
    BY <2>5, <2>6, <2>7, <2>8
<1>5. QED
  BY <1>3, <1>4

\* Protocol::encode(): a frame with something in it, at its start.
LEMMA FrameOf ==
    ASSUME NEW x0 \in Nat, NEW y0 \in Nat, NEW s \in Seq(Int)
    PROVE  /\ EncodeFrame(x0, y0, s) \in Arrays /\ Straight(EncodeFrame(x0, y0, s))
           /\ EncodeFrame(x0, y0, s).pos = 0 /\ EncodeFrame(x0, y0, s).size > 0
           /\ EncodeFrame(x0, y0, s).ok /\ ~EncodeFrame(x0, y0, s).thrown
           /\ EncodeFrame(x0, y0, s).size = BaseLength + Len(s)
           /\ Ahead(Header(x0, y0, Len(s)) \o s, EncodeFrame(x0, y0, s))
<1>1. PICK n \in Nat : n = Len(s)
  BY NonEmpty
<1>2. PICK f \in Seq(Int) : f = FixBytes(n, 2) /\ Len(f) = 2
  <2>1. n \in Int /\ 2 \in Nat
    OBVIOUS
  <2>2. QED
    BY <2>1, FixBytesOf
<1>3. PICK a \in Seq(Int) : a = <<Magic, x0, y0>> /\ Len(a) = 3
  <2>1. PICK x \in Int, y \in Int, z \in Int : x = Magic /\ y = x0 /\ z = y0
    BY DEF Magic
  <2>2. <<x, y, z>> \in Seq(Int) /\ Len(<<x, y, z>>) = 3
    OBVIOUS
  <2>3. QED
    BY <2>1, <2>2
<1>4. PICK h \in Seq(Int) : h = Header(x0, y0, Len(s)) /\ Len(h) = 5
  <2>1. PICK x \in Seq(Int) : x = a \o f /\ Len(x) = 5
    <3>1. a \o f \in Seq(Int) /\ Len(a \o f) = Len(a) + Len(f)
      BY Joining
    <3>2. Len(a) + Len(f) = 5
      <4>1. Len(a) = 3
        BY <1>3
      <4>2. Len(f) = 2
        BY <1>2
      <4>3. QED
        BY <4>1, <4>2
    <3>3. QED
      BY <3>1, <3>2
  <2>2. Header(x0, y0, Len(s)) = x
    BY <1>1, <1>2, <1>3, <2>1 DEF Header
  <2>3. QED
    BY <2>1, <2>2
<1>5. PICK t \in Seq(Int) : t = h \o s /\ Len(t) = 5 + n
  <2>1. h \o s \in Seq(Int) /\ Len(h \o s) = Len(h) + Len(s)
    BY Joining
  <2>2. QED
    BY <1>1, <1>4, <2>1
<1>6. New \in Arrays /\ Straight(New) /\ New.pos = 0 /\ New.size = 0 /\ New.ok /\ ~New.thrown
  BY NewArray DEF New
<1>7. PICK w : w = Write(New, t)
  OBVIOUS
<1>8. /\ w \in Arrays /\ w.size = Most(0, 0 + Len(t)) /\ w.ok /\ ~w.thrown
      /\ \A i \in 1 .. w.size : w.mem[i] = IF i - 0 \in 1 .. Len(t) THEN t[i - 0] ELSE New.mem[i]
  <2>1. w \in Arrays /\ Holds(w, New, t) /\ w.thrown = New.thrown
    BY <1>6, <1>7, WriteHolds, Written
  <2>2. QED
    BY <1>6, <2>1 DEF Holds
<1>9. w.size = 5 + n /\ w.size \in Nat /\ w.size > 0 /\ Len(w.mem) \in Nat
  BY <1>5, <1>8, ArrayFacts DEF Most
<1>10. PICK e : e = SetPosition(w, 0)
  OBVIOUS
<1>11. 0 \in Int /\ 0 \in 0 .. Len(w.mem)
  BY <1>9
<1>12. /\ e \in Arrays /\ e.pos = 0 /\ e.size = Most(w.size, 0) /\ Straight(e)
       /\ e.mem = w.mem /\ e.ok /\ ~e.thrown
  BY <1>8, <1>10, <1>11, PositionedIn
<1>13. e.size > 0 /\ e.size = 5 + n
  BY <1>9, <1>12 DEF Most
<1>14. EncodeFrame(x0, y0, s) = e
  BY <1>4, <1>5, <1>7, <1>10 DEF EncodeFrame
<1>15. Ahead(t, e)
  <2>1. ASSUME NEW i \in 1 .. 5 + n PROVE t[i] = e.mem[0 + i]
    <3>1. i - 0 = i /\ 0 + i = i /\ i \in 1 .. Len(t) /\ i \in 1 .. w.size
      BY <1>5, <1>9
    <3>2. QED
      BY <1>8, <1>12, <3>1
  <2>2. 0 + Len(t) <= e.size
    BY <1>5, <1>13
  <2>3. QED
    BY <1>5, <1>12, <2>1, <2>2 DEF Ahead
<1>16. e.size = BaseLength + Len(s)
  BY <1>1, <1>13 DEF BaseLength
<1>17. Header(x0, y0, Len(s)) \o s = t
  BY <1>4, <1>5
<1>18. QED
  BY <1>12, <1>13, <1>14, <1>15, <1>16, <1>17

-----------------------------------------------------------------------------
(***************************************************************************)
(* Wire: the array under its user.  While no read strayed, the bytes of    *)
(* the array are those the history knows; a frame that is being sent is    *)
(* straight, and the peer has seen it up to its position.                  *)
(***************************************************************************)

\* The history has one entry per byte, each unknown or that byte.
Matches(f, b) == Len(f) = b.size /\ \A i \in 1 .. b.size : f[i] \in {Unknown, b.mem[i]}

\* What the user does next, and how much of it.
BookInv ==
  /\ mode \in {"write", "raw", "read", "send", "over"}
  /\ items \in Seq(Items) /\ Len(items) <= MaxItems /\ next \in 1 .. MaxItems + 1

\* No read strayed, nothing undefined was done and nothing is being sent.
Kept == ~strayed /\ ba.ok /\ send = NoSend

\* The blocks of the array, and what they hold as long as it is kept.
ArrayInv ==
  /\ ba \in Arrays /\ flat \in Seq(Int) /\ strayed \in BOOLEAN
  /\ Kept => Straight(ba) /\ Matches(flat, ba)

\* The peer has the frame up to its position, and left counts what remains, and
\* one more for every call of the socket that failed.
Sending ==
  /\ mode \in {"send", "over"} /\ Straight(frame) /\ frame.pos < frame.size
  /\ arrived = SubSeq(frame.mem, 1, frame.pos)
  /\ send \in [left : Nat, ret : {"none", "closed"}] /\ send.left = frame.size - frame.pos + fails

\* Either nothing was sent, or the frame is being sent.
LineInv ==
  /\ frame \in Arrays /\ fails \in 0 .. MaxFails
  /\ (send = NoSend /\ arrived = <<>> /\ fails = 0 /\ mode # "send") \/ Sending

WireInv == BookInv /\ ArrayInv /\ LineInv

\* No frame is on its way: nothing is left and nothing is told.
LEMMA NoSendIs == NoSend \in [left : Nat, ret : {"none"}] /\ NoSend.left = 0 /\ NoSend.ret = "none"
BY DEF NoSend

\* The history after a write: new bytes where it wrote, old ones elsewhere.
LEMMA KnownIs ==
    ASSUME flat \in Seq(Int), NEW p \in Nat, NEW s \in Seq(Int)
    PROVE  /\ Known(p, s) \in Seq(Int) /\ Len(Known(p, s)) = Most(Len(flat), p + Len(s))
           /\ \A i \in 1 .. Most(Len(flat), p + Len(s)) :
                Known(p, s)[i] = IF i - p \in 1 .. Len(s) THEN s[i - p]
                                 ELSE IF i <= Len(flat) THEN flat[i] ELSE Unknown
<1>1. PICK l \in Nat, m \in Nat : l = Len(flat) /\ m = Len(s) /\ DOMAIN s = 1 .. m /\ DOMAIN flat = 1 .. l
  BY NonEmpty
<1>2. PICK n \in Nat : n = Most(l, p + m)
  BY DEF Most
<1>3. PICK g : g = Known(p, s)
  OBVIOUS
<1>4. g = [i \in 1 .. n |-> IF i - p \in 1 .. m THEN s[i - p] ELSE IF i <= l THEN flat[i] ELSE -1]
  BY <1>1, <1>2, <1>3 DEF Known, Unknown
<1>5. g \in [1 .. n -> Int]
  <2>1. \A i \in 1 .. m : s[i] \in Int
    BY <1>1
  <2>2. \A i \in 1 .. l : flat[i] \in Int
    BY <1>1
  <2>3. \A i \in 1 .. n : i <= l => i \in 1 .. l
    OBVIOUS
  <2>4. QED
    BY <1>4, <2>1, <2>2, <2>3
<1>6. g \in Seq(Int) /\ Len(g) = n
  BY <1>5
<1>7. QED
  BY <1>1, <1>2, <1>3, <1>4, <1>6 DEF Unknown

\* A history that matches an array matches it after a write.
LEMMA KnownMatches ==
    ASSUME NEW b \in Arrays, NEW w \in Arrays, NEW s \in Seq(Int), flat \in Seq(Int),
           Matches(flat, b), Holds(w, b, s)
    PROVE  Matches(Known(b.pos, s), w)
<1>1. PICK p \in Nat, z \in Nat, m \in Nat : p = b.pos /\ z = b.size /\ m = Len(s) /\ p <= z
  BY ArrayFacts, NonEmpty
<1>2. PICK n \in Nat : n = Most(z, p + m) /\ z <= n
  BY DEF Most
<1>3. PICK g : g = Known(p, s)
  OBVIOUS
<1>4. Len(flat) = z
  BY <1>1 DEF Matches
<1>5. /\ Len(g) = n
      /\ \A i \in 1 .. n : g[i] = IF i - p \in 1 .. m THEN s[i - p] ELSE IF i <= z THEN flat[i] ELSE Unknown
  <2>1. /\ Len(Known(p, s)) = Most(Len(flat), p + Len(s))
        /\ \A i \in 1 .. Most(Len(flat), p + Len(s)) :
             Known(p, s)[i] = IF i - p \in 1 .. Len(s) THEN s[i - p]
                              ELSE IF i <= Len(flat) THEN flat[i] ELSE Unknown
    BY KnownIs
  <2>2. Most(Len(flat), p + Len(s)) = n
    BY <1>1, <1>2, <1>4
  <2>3. QED
    BY <1>1, <1>3, <1>4, <2>1, <2>2
<1>6. w.size = n /\ \A i \in 1 .. n : w.mem[i] = IF i - p \in 1 .. m THEN s[i - p] ELSE b.mem[i]
  BY <1>1, <1>2 DEF Holds
<1>7. \A i \in 1 .. z : flat[i] \in {Unknown, b.mem[i]}
  BY <1>1 DEF Matches
<1>8. ASSUME NEW i \in 1 .. n PROVE g[i] \in {Unknown, w.mem[i]}
  <2>1. CASE i - p \in 1 .. m
    BY <1>5, <1>6, <2>1
  <2>2. CASE i - p \notin 1 .. m /\ i <= z
    <3>1. i \in 1 .. z
      BY <2>2
    <3>2. QED
      BY <1>5, <1>6, <1>7, <2>2, <3>1
  <2>3. CASE i - p \notin 1 .. m /\ ~(i <= z)
    BY <1>5, <2>3
  <2>4. QED
    BY <2>1, <2>2, <2>3
<1>9. QED
  BY <1>1, <1>3, <1>5, <1>6, <1>8 DEF Matches

\* The same bytes and as many: what is known of them stays true.
LEMMA MatchesSame ==
    ASSUME NEW f, NEW b, NEW c, Matches(f, b), c.mem = b.mem, c.size = b.size
    PROVE  Matches(f, c)
BY DEF Matches

\* What lies ahead agrees with what is known of it.
LEMMA AheadAgrees ==
    ASSUME NEW b \in Arrays, NEW d, Ahead(d, b), NEW f \in Seq(Int), Matches(f, b)
    PROVE  Agree(d, SubSeq(f, b.pos + 1, b.pos + Len(d)))
<1>1. PICK p \in Nat, z \in Nat : p = b.pos /\ z = b.size
  BY ArrayFacts
<1>2. PICK n \in Nat : n = Len(d) /\ DOMAIN d = 1 .. n /\ p + n <= z /\ \A i \in 1 .. n : d[i] = b.mem[p + i]
  BY <1>1, NonEmpty DEF Ahead
<1>3. Len(f) = z /\ \A i \in 1 .. z : f[i] \in {Unknown, b.mem[i]}
  BY <1>1 DEF Matches
<1>4. PICK g : g = SubSeq(f, p + 1, p + n)
  OBVIOUS
<1>5. Len(g) = n /\ \A i \in 1 .. n : g[i] = f[p + i]
  BY <1>2, <1>3, <1>4, PartOf
<1>6. \A i \in 1 .. n : p + i \in 1 .. z
  BY <1>2
<1>7. \A i \in 1 .. n : g[i] \in {Unknown, d[i]}
  BY <1>2, <1>3, <1>5, <1>6
<1>8. QED
  BY <1>1, <1>2, <1>4, <1>5, <1>7 DEF Agree

\* A new array is empty and straight, and nothing is being sent.
LEMMA WireStart == WireInit => WireInv
<1> SUFFICES ASSUME WireInit PROVE WireInv
  OBVIOUS
<1>1. New \in Arrays /\ Straight(New) /\ New.pos = 0 /\ New.size = 0
  BY NewArray
<1>2. BookInv
  <2>1. <<>> \in Seq(Items) /\ Len(<<>>) = 0 /\ 0 <= MaxItems /\ 1 \in 1 .. MaxItems + 1
    BY WireAssumption
  <2>2. QED
    BY <2>1 DEF WireInit, BookInv
<1>3. ArrayInv
  <2>1. <<>> \in Seq(Int) /\ Len(<<>>) = 0 /\ 1 .. 0 = {}
    OBVIOUS
  <2>2. Matches(<<>>, New)
    BY <1>1, <2>1 DEF Matches
  <2>3. QED
    BY <1>1, <2>1, <2>2 DEF WireInit, ArrayInv
<1>4. LineInv
  <2>1. 0 \in 0 .. MaxFails
    BY WireAssumption
  <2>2. QED
    BY <1>1, <2>1 DEF WireInit, LineInv
<1>5. QED
  BY <1>2, <1>3, <1>4 DEF WireInv

\* A user at work sends nothing.
LEMMA NotSending ==
    ASSUME WireInv, mode \notin {"send", "over"}
    PROVE  send = NoSend /\ arrived = <<>> /\ fails = 0
BY DEF WireInv, LineInv, Sending

\* A step of the array alone leaves the line as it was.
LEMMA LineSame ==
    ASSUME WireInv, UNCHANGED sendVars, send = NoSend, mode' # "send"
    PROVE  LineInv'
<1>1. send # NoSend \/ (arrived = <<>> /\ fails = 0)
  <2>1. ASSUME Sending PROVE send # NoSend
    <3>1. frame \in Arrays /\ fails \in Nat
      BY WireAssumption DEF WireInv, LineInv
    <3>2. frame.pos \in Nat /\ frame.size \in Nat
      BY <3>1, ArrayFacts
    <3>3. send.left > 0
      BY <2>1, <3>1, <3>2 DEF Sending
    <3>4. QED
      BY <3>3, NoSendIs
  <2>2. QED
    BY <2>1 DEF WireInv, LineInv
<1>2. QED
  BY <1>1 DEF WireInv, LineInv, sendVars

\* The user writes: a value, or a file.
LEMMA WroteKeeps ==
    ASSUME WireInv, NEW w, NEW s \in Seq(Int), NEW b \in From(ba), b.pos = ba.pos,
           Straight(ba) => Straight(b),
           w \in Arrays, w.ok => b.ok, Straight(b) => Holds(w, b, s),
           ba' = w, flat' = Known(ba.pos, s), strayed' = strayed, send' = send
    PROVE  ArrayInv'
<1>1. ba \in Arrays /\ flat \in Seq(Int) /\ b \in Arrays /\ strayed \in BOOLEAN
  BY DEF WireInv, ArrayInv, From
<1>2. ba.pos \in Nat
  BY <1>1, ArrayFacts
<1>3. flat' \in Seq(Int)
  BY <1>1, <1>2, KnownIs
<1>4. ASSUME Kept' PROVE Straight(ba)' /\ Matches(flat, ba)'
  <2>1. Kept
    BY <1>4 DEF Kept, From
  <2>2. Straight(ba) /\ Matches(flat, ba)
    BY <2>1 DEF WireInv, ArrayInv
  <2>3. Holds(w, b, s) /\ Matches(flat, b)
    BY <2>2, MatchesSame DEF From
  <2>4. Matches(Known(b.pos, s), w)
    BY <1>1, <2>3, KnownMatches
  <2>5. Straight(w)
    BY <2>3 DEF Holds
  <2>6. QED
    BY <2>4, <2>5
<1>5. QED
  BY <1>1, <1>3, <1>4 DEF ArrayInv

\* A value written is a write of its bytes.
LEMMA PutStep ==
    ASSUME WireInv, NEW it \in Items, Put(it)
    PROVE  WireInv'
<1>1. PICK s : s = Encode(it)
  OBVIOUS
<1>2. s \in Seq(Int)
  BY <1>1, EncodeOf, WireAssumption
<1>3. ba \in Arrays
  BY DEF WireInv, ArrayInv
<1>4. PICK b : b = [ba EXCEPT !.thrown = FALSE]
  OBVIOUS
<1>5. b \in From(ba) /\ b \in Arrays /\ b.pos = ba.pos /\ (Straight(ba) => Straight(b))
  BY <1>3, <1>4, Flagged DEF From
<1>6. PICK w : w = Write(b, s)
  OBVIOUS
<1>7. w \in Arrays /\ (w.ok => b.ok) /\ (Straight(b) => Holds(w, b, s))
  BY <1>2, <1>5, <1>6, WriteHolds
<1>8. ArrayInv'
  <2>1. ba' = w /\ flat' = Known(ba.pos, s) /\ strayed' = strayed /\ send' = send
    BY <1>1, <1>4, <1>6 DEF Put, sendVars
  <2>2. QED
    BY <1>2, <1>5, <1>7, <2>1, WroteKeeps
<1>9. BookInv'
  <2>1. items \in Seq(Items) /\ Len(items) \in Nat
    BY NonEmpty DEF WireInv, BookInv
  <2>2. Append(items, it) \in Seq(Items) /\ Len(Append(items, it)) = Len(items) + 1
    BY <2>1, Appending
  <2>3. items' \in Seq(Items) /\ Len(items') <= MaxItems
    BY <2>1, <2>2, WireAssumption DEF Put, WireInv, BookInv
  <2>4. mode' \in {"write", "over"} /\ next' = next
    BY DEF Put
  <2>5. QED
    BY <2>3, <2>4 DEF WireInv, BookInv
<1>10. LineInv'
  <2>1. mode \in {"write", "raw"} /\ mode' # "send" /\ UNCHANGED sendVars
    BY DEF Put
  <2>2. send = NoSend
    BY <2>1, NotSending
  <2>3. QED
    BY <2>1, <2>2, LineSame
<1>11. QED
  BY <1>8, <1>9, <1>10 DEF WireInv

\* A file read in is a write of its bytes.
LEMMA SetFromFileStep ==
    ASSUME WireInv, SetFromFile(File)
    PROVE  WireInv'
<1>1. PICK s : s = File
  OBVIOUS
<1>2. s \in Seq(Int)
  <2>1. PICK n \in Nat, r \in Nat \ {0} : n = BaseSize + 2 /\ r = Radix
    BY RadixIsNumber
  <2>2. [i \in 1 .. n |-> i % r] \in [1 .. n -> Int]
    OBVIOUS
  <2>3. [i \in 1 .. n |-> i % r] \in Seq(Int)
    BY <2>2
  <2>4. QED
    BY <1>1, <2>1, <2>3 DEF File
<1>3. ba \in Arrays
  BY DEF WireInv, ArrayInv
<1>4. PICK b : b = [ba EXCEPT !.thrown = FALSE]
  OBVIOUS
<1>5. b \in From(ba) /\ b \in Arrays /\ b.pos = ba.pos /\ (Straight(ba) => Straight(b))
  BY <1>3, <1>4, Flagged DEF From
<1>6. PICK w : w = FromFile(b, s)
  OBVIOUS
<1>7. w \in Arrays /\ (w.ok => b.ok) /\ (Straight(b) => Holds(w, b, s))
  BY <1>2, <1>5, <1>6, FileHolds
<1>8. ArrayInv'
  <2>1. ba' = w /\ flat' = Known(ba.pos, s) /\ strayed' = strayed /\ send' = send
    BY <1>1, <1>4, <1>6 DEF SetFromFile, sendVars
  <2>2. QED
    BY <1>2, <1>5, <1>7, <2>1, WroteKeeps
<1>9. BookInv'
  BY DEF SetFromFile, WireInv, BookInv
<1>10. LineInv'
  <2>1. mode \in {"write", "raw"} /\ mode' # "send" /\ UNCHANGED sendVars
    BY DEF SetFromFile
  <2>2. send = NoSend
    BY <2>1, NotSending
  <2>3. QED
    BY <2>1, <2>2, LineSame
<1>11. QED
  BY <1>8, <1>9, <1>10 DEF WireInv

\* Back at position 0, the block is the first one.
LEMMA ResetStep ==
    ASSUME WireInv, Reset
    PROVE  WireInv'
<1>1. ba \in Arrays
  BY DEF WireInv, ArrayInv
<1>2. PICK b : b = [ba EXCEPT !.thrown = FALSE]
  OBVIOUS
<1>3. b \in From(ba) /\ b \in Arrays /\ b.mem = ba.mem /\ b.size = ba.size
  BY <1>1, <1>2, Flagged DEF From
<1>4. PICK c : c = SetPosition(b, 0)
  OBVIOUS
<1>5. 0 \in 0 .. Len(b.mem) /\ Most(b.size, 0) = b.size
  <2>1. Len(b.mem) \in Nat /\ b.size \in Nat
    BY <1>3, ArrayFacts
  <2>2. QED
    BY <2>1 DEF Most
<1>6. c \in Arrays /\ c.mem = b.mem /\ c.ok = b.ok /\ c.size = b.size /\ Straight(c)
  BY <1>3, <1>4, <1>5, PositionedIn
<1>7. ba' = c /\ flat' = flat /\ strayed' = strayed /\ UNCHANGED sendVars
  BY <1>2, <1>4 DEF Reset
<1>8. ArrayInv'
  <2>1. Kept' => Kept
    BY <1>3, <1>6, <1>7 DEF Kept, From, sendVars
  <2>2. Matches(flat, ba) => Matches(flat, c)
    BY <1>3, <1>6, MatchesSame
  <2>3. QED
    BY <1>6, <1>7, <2>1, <2>2 DEF WireInv, ArrayInv
<1>9. BookInv'
  <2>1. 1 \in 1 .. MaxItems + 1
    BY WireAssumption
  <2>2. QED
    BY <2>1 DEF Reset, WireInv, BookInv
<1>10. LineInv'
  <2>1. mode = "write" /\ mode' # "send"
    BY DEF Reset
  <2>2. send = NoSend
    BY <2>1, NotSending
  <2>3. QED
    BY <1>7, <2>1, <2>2, LineSame
<1>11. QED
  BY <1>8, <1>9, <1>10 DEF WireInv

\* A value read leaves the bytes; only a read past the first block strays.
LEMMA GetStep ==
    ASSUME WireInv, Get
    PROVE  WireInv'
<1>1. ba \in Arrays /\ strayed \in BOOLEAN /\ flat \in Seq(Int)
  BY DEF WireInv, ArrayInv
<1>2. items \in Seq(Items) /\ Len(items) \in Nat /\ next \in Nat /\ next \in 1 .. Len(items) /\ Len(items) <= MaxItems
  <2>1. items \in Seq(Items) /\ Len(items) \in Nat /\ Len(items) <= MaxItems
    BY NonEmpty DEF WireInv, BookInv
  <2>2. next \in Nat /\ next >= 1
    BY DEF WireInv, BookInv
  <2>3. next <= Len(items)
    BY DEF Get
  <2>4. QED
    BY <2>1, <2>2, <2>3
<1>3. items[next] \in Items
  BY <1>2
<1>4. PICK t \in Types : t = items[next].type
  BY <1>3, EncodeOf, WireAssumption
<1>5. PICK c : c = Decode(ba, t).ba
  OBVIOUS
<1>6. c \in From(ba)
  BY <1>1, <1>5, DecodeFrom
<1>7. /\ c \in Arrays /\ c.mem = ba.mem /\ c.size = ba.size /\ (c.ok => ba.ok)
      /\ Straight(ba) /\ c.pos <= BaseSize => Straight(c)
  BY <1>6 DEF From
<1>8. /\ ba' = c /\ flat' = flat /\ strayed' = (strayed \/ c.pos > BaseSize) /\ UNCHANGED sendVars
  BY <1>4, <1>5 DEF Get
<1>9. ArrayInv'
  <2>1. ASSUME Kept' PROVE Straight(c) /\ Matches(flat, c)
    <3>1. ~strayed /\ ~(c.pos > BaseSize) /\ ba.ok /\ send = NoSend
      BY <1>7, <1>8, <2>1 DEF Kept, sendVars
    <3>2. Straight(ba) /\ Matches(flat, ba)
      BY <3>1 DEF Kept, WireInv, ArrayInv
    <3>3. c.pos <= BaseSize
      BY <1>7, <3>1, ArrayFacts
    <3>4. QED
      BY <1>7, <3>2, <3>3, MatchesSame
  <2>2. strayed' \in BOOLEAN
    BY <1>8
  <2>3. QED
    BY <1>1, <1>7, <1>8, <2>1, <2>2 DEF ArrayInv
<1>10. BookInv'
  <2>1. next + 1 \in 1 .. MaxItems + 1
    BY <1>2, WireAssumption
  <2>2. QED
    BY <2>1 DEF Get, WireInv, BookInv
<1>11. LineInv'
  <2>1. mode = "read" /\ mode' # "send"
    BY DEF Get
  <2>2. send = NoSend
    BY <2>1, NotSending
  <2>3. QED
    BY <1>8, <2>1, <2>2, LineSame
<1>12. QED
  BY <1>9, <1>10, <1>11 DEF WireInv

\* setPosition() finds the block of the new position.
LEMMA SeekStep ==
    ASSUME WireInv, NEW p \in Places, Seek(p)
    PROVE  WireInv'
<1>1. ba \in Arrays /\ strayed \in BOOLEAN /\ flat \in Seq(Int)
  BY DEF WireInv, ArrayInv
<1>2. p \in Int
  <2>1. Len(ba.mem) \in Nat
    BY <1>1, ArrayFacts
  <2>2. QED
    BY <2>1 DEF Places
<1>3. PICK b : b = [ba EXCEPT !.thrown = FALSE]
  OBVIOUS
<1>4. /\ b \in From(ba) /\ b \in Arrays /\ b.mem = ba.mem /\ b.size = ba.size
      /\ b.thrown = FALSE /\ (Straight(ba) => Straight(b))
  BY <1>1, <1>3, Flagged DEF From
<1>5. PICK c : c = SetPosition(b, p)
  OBVIOUS
<1>6. /\ ba' = c /\ flat' = (IF c.thrown THEN flat ELSE Known(p, <<>>)) /\ strayed' = strayed
      /\ UNCHANGED sendVars /\ send = NoSend /\ mode' \in {"write", "raw"} /\ items' = <<>> /\ next' = next
  BY <1>3, <1>5 DEF Seek
<1>7. c \in Arrays /\ c.mem = b.mem /\ c.ok = b.ok
  BY <1>2, <1>4, <1>5, Positioned
<1>8. Kept' => Straight(ba) /\ Matches(flat, ba) /\ Straight(b) /\ Matches(flat, b)
  <2>1. Kept' => Kept
    BY <1>4, <1>6, <1>7 DEF Kept, From
  <2>2. Matches(flat, ba) => Matches(flat, b)
    BY <1>4, MatchesSame
  <2>3. QED
    BY <1>4, <2>1, <2>2 DEF WireInv, ArrayInv
<1>9. ArrayInv'
  <2>1. CASE p \in 0 .. Len(b.mem)
    <3>1. /\ c.pos = p /\ c.size = Most(b.size, p) /\ c.thrown = FALSE /\ Straight(c)
      BY <1>4, <1>5, <2>1, PositionedIn
    <3>2. flat' = Known(p, <<>>) /\ p \in Nat /\ <<>> \in Seq(Int) /\ Len(<<>>) = 0 /\ 1 .. 0 = {}
      BY <1>6, <2>1, <3>1
    <3>3. PICK g : g = Known(p, <<>>)
      OBVIOUS
    <3>4. PICK l \in Nat : l = Len(flat)
      BY <1>1, NonEmpty
    <3>5. /\ g \in Seq(Int) /\ Len(g) = Most(l, p)
          /\ \A i \in 1 .. Most(l, p) : g[i] = IF i <= l THEN flat[i] ELSE Unknown
      <4>1. /\ Known(p, <<>>) \in Seq(Int) /\ Len(Known(p, <<>>)) = Most(Len(flat), p + Len(<<>>))
            /\ \A i \in 1 .. Most(Len(flat), p + Len(<<>>)) :
                 Known(p, <<>>)[i] = IF i - p \in 1 .. Len(<<>>) THEN <<>>[i - p]
                                     ELSE IF i <= Len(flat) THEN flat[i] ELSE Unknown
        BY <1>1, <3>2, KnownIs
      <4>2. p + Len(<<>>) = p
        BY <3>2
      <4>3. QED
        BY <3>2, <3>3, <3>4, <4>1, <4>2
    <3>6. Matches(flat, b) => Matches(g, c)
      <4>1. SUFFICES ASSUME Matches(flat, b) PROVE Matches(g, c)
        OBVIOUS
      <4>2. l = b.size /\ \A i \in 1 .. l : flat[i] \in {Unknown, c.mem[i]}
        BY <1>7, <3>4, <4>1 DEF Matches
      <4>3. PICK n \in Nat : n = Most(l, p) /\ Len(g) = n /\ c.size = n
        BY <3>1, <3>2, <3>5, <4>2 DEF Most
      <4>4. ASSUME NEW i \in 1 .. n PROVE g[i] \in {Unknown, c.mem[i]}
        <5>1. CASE i <= l
          <6>1. i \in 1 .. l
            BY <5>1
          <6>2. QED
            BY <3>5, <4>2, <4>3, <5>1, <6>1
        <5>2. CASE ~(i <= l)
          BY <3>5, <4>3, <5>2
        <5>3. QED
          BY <5>1, <5>2
      <4>5. QED
        BY <4>3, <4>4 DEF Matches
    <3>7. QED
      BY <1>1, <1>6, <1>7, <1>8, <3>1, <3>2, <3>3, <3>5, <3>6 DEF ArrayInv
  <2>2. CASE p \notin 0 .. Len(b.mem)
    <3>1. c.size = b.size /\ c.thrown /\ (Straight(b) => Straight(c))
      BY <1>2, <1>4, <1>5, <2>2, Positioned
    <3>2. Matches(flat, b) => Matches(flat, c)
      BY <1>7, <3>1, MatchesSame
    <3>3. flat' = flat
      BY <1>6, <3>1
    <3>4. QED
      BY <1>1, <1>6, <1>7, <1>8, <3>1, <3>2, <3>3 DEF ArrayInv
  <2>3. QED
    BY <2>1, <2>2
<1>10. BookInv'
  <2>1. <<>> \in Seq(Items) /\ Len(<<>>) = 0 /\ 0 <= MaxItems
    BY WireAssumption
  <2>2. QED
    BY <1>6, <2>1 DEF WireInv, BookInv
<1>11. LineInv'
  BY <1>6, LineSame
<1>12. QED
  BY <1>9, <1>10, <1>11 DEF WireInv

\* clear() keeps the first block and nothing known.
LEMMA ClearStep ==
    ASSUME WireInv, ClearArray
    PROVE  WireInv'
<1>1. ba \in Arrays
  BY DEF WireInv, ArrayInv
<1>2. PICK b : b = [ba EXCEPT !.thrown = FALSE]
  OBVIOUS
<1>3. b \in Arrays
  BY <1>1, <1>2, Flagged DEF From
<1>4. PICK c : c = Clear(b)
  OBVIOUS
<1>5. c \in Arrays /\ Straight(c) /\ c.size = 0
  BY <1>3, <1>4, Emptied
<1>6. /\ ba' = c /\ flat' = <<>> /\ items' = <<>> /\ next' = 1 /\ strayed' = FALSE /\ mode' = "write"
      /\ send = NoSend /\ UNCHANGED sendVars
  BY <1>2, <1>4 DEF ClearArray
<1>7. ArrayInv'
  <2>1. <<>> \in Seq(Int) /\ Len(<<>>) = 0 /\ 1 .. 0 = {}
    OBVIOUS
  <2>2. Matches(<<>>, c)
    BY <1>5, <2>1 DEF Matches
  <2>3. QED
    BY <1>5, <1>6, <2>1, <2>2 DEF ArrayInv
<1>8. BookInv'
  <2>1. <<>> \in Seq(Items) /\ Len(<<>>) = 0 /\ 0 <= MaxItems /\ 1 \in 1 .. MaxItems + 1
    BY WireAssumption
  <2>2. QED
    BY <1>6, <2>1 DEF BookInv
<1>9. LineInv'
  BY <1>6, LineSame
<1>10. QED
  BY <1>7, <1>8, <1>9 DEF WireInv

\* Of a frame not yet sent the peer has seen nothing.
LEMMA NothingSeen ==
    ASSUME NEW b \in Arrays
    PROVE  SubSeq(b.mem, 1, 0) = <<>>
BY ArrayFacts

\* The frame is straight at its start, with all of it left to send.
LEMMA SendProtocolStep ==
    ASSUME WireInv, SendProtocol
    PROVE  WireInv'
<1>1. ba \in Arrays
  BY DEF WireInv, ArrayInv
<1>2. send = NoSend /\ arrived = <<>> /\ fails = 0
  <2>1. mode = "read"
    BY DEF SendProtocol
  <2>2. QED
    BY <2>1, NotSending
<1>3. PICK d \in Seq(Int) : d = Rest(ba).data
  BY <1>1, RestOf
<1>4. PICK f : f = EncodeFrame(2, 1, d)
  OBVIOUS
<1>5. f \in Arrays /\ Straight(f) /\ f.pos = 0 /\ f.size > 0 /\ f.size \in Nat
  <2>1. 2 \in Nat /\ 1 \in Nat
    OBVIOUS
  <2>2. f \in Arrays /\ Straight(f) /\ f.pos = 0 /\ f.size > 0
    BY <1>4, <2>1, FrameOf
  <2>3. QED
    BY <2>2, ArrayFacts
<1>6. /\ ba' = New /\ items' = <<>> /\ flat' = d /\ strayed' = FALSE /\ frame' = f
      /\ send' = [left |-> f.size, ret |-> "none"] /\ mode' = "send"
      /\ next' = next /\ arrived' = <<>> /\ fails' = 0
  BY <1>2, <1>3, <1>4 DEF SendProtocol
<1>7. ArrayInv'
  <2>1. New \in Arrays
    BY NewArray
  <2>2. send'.left = f.size
    BY <1>6
  <2>3. send' # NoSend
    BY <1>5, <2>2, NoSendIs
  <2>4. QED
    BY <1>6, <2>1, <2>3 DEF ArrayInv, Kept
<1>8. BookInv'
  <2>1. <<>> \in Seq(Items) /\ Len(<<>>) = 0 /\ 0 <= MaxItems
    BY WireAssumption
  <2>2. QED
    BY <1>6, <2>1 DEF WireInv, BookInv
<1>9. LineInv'
  <2>1. 0 \in 0 .. MaxFails
    BY WireAssumption
  <2>2. /\ send' \in [left : Nat, ret : {"none", "closed"}] /\ send'.left = f.size - f.pos + 0
    BY <1>5, <1>6
  <2>3. SubSeq(f.mem, 1, f.pos) = <<>>
    BY <1>5, NothingSeen
  <2>4. f.pos < f.size
    BY <1>5
  <2>5. QED
    BY <1>5, <1>6, <2>1, <2>2, <2>3, <2>4 DEF LineInv, Sending
<1>10. QED
  BY <1>7, <1>8, <1>9 DEF WireInv

\* While a frame is sent the user's array is left alone, and what is left to
\* send is never nothing.
LEMMA SendingKeeps ==
    ASSUME WireInv, UNCHANGED arrayVars, UNCHANGED mode, mode = "send", LineInv'
    PROVE  WireInv'
<1>1. ba' = ba /\ items' = items /\ next' = next /\ flat' = flat /\ strayed' = strayed
  BY DEF arrayVars
<1>2. Sending'
  BY DEF LineInv
<1>3. send' # NoSend
  <2>1. frame' \in Arrays /\ fails' \in Nat
    BY WireAssumption DEF LineInv
  <2>2. frame'.pos \in Nat /\ frame'.size \in Nat
    BY <2>1, ArrayFacts
  <2>3. send'.left > 0
    BY <1>2, <2>1, <2>2 DEF Sending
  <2>4. QED
    BY <2>3, NoSendIs
<1>4. ArrayInv'
  BY <1>1, <1>3 DEF WireInv, ArrayInv, Kept
<1>5. QED
  BY <1>1, <1>4 DEF WireInv, BookInv

\* What the socket took is what was offered, and the position follows it.
LEMMA SendsStep ==
    ASSUME WireInv, NEW n \in Nat, Sends(n)
    PROVE  WireInv'
<1>1. mode = "send" /\ UNCHANGED arrayVars /\ UNCHANGED mode /\ UNCHANGED fails
  BY DEF Sends
<1>2. Sending /\ frame \in Arrays /\ fails \in 0 .. MaxFails /\ fails \in Nat
  BY <1>1, WireAssumption DEF WireInv, LineInv
<1>3. PICK o : o = ReadBuffers(frame, send.left)
  OBVIOUS
<1>4. send \in [left : Nat, ret : {"none", "closed"}] /\ send.left = frame.size - frame.pos + fails
  BY <1>2 DEF Sending
<1>5. /\ frame.mem \in Seq(Int) /\ frame.pos \in Nat /\ frame.size \in Nat /\ Len(frame.mem) \in Nat
      /\ frame.pos < frame.size /\ frame.size <= Len(frame.mem)
  BY <1>2, ArrayFacts DEF Sending
<1>6. Ahead(o, frame) /\ frame.pos + Len(o) < frame.size /\ Len(o) \in Nat
  <2>1. Straight(frame) /\ send.left \in Nat
    BY <1>2, <1>4 DEF Sending
  <2>2. Ahead(o, frame) /\ frame.pos + Len(o) < frame.size
    BY <1>2, <1>3, <1>5, <2>1, BuffersOf
  <2>3. Len(o) \in Nat
    BY <2>2, NonEmpty DEF Ahead
  <2>4. QED
    BY <2>2, <2>3
<1>7. n <= Len(o) /\ arrived' = arrived \o SubSeq(o, 1, n)
  BY <1>3, <1>6 DEF Sends
<1>8. CASE n = 0
  <2>1. frame' = frame /\ send' = [send EXCEPT !.ret = "closed"]
    BY <1>8 DEF Sends
  <2>2. send' \in [left : Nat, ret : {"none", "closed"}] /\ send'.left = send.left
    BY <1>4, <2>1
  <2>3. arrived' = arrived
    <3>1. SubSeq(o, 1, 0) = <<>> /\ arrived \in Seq(Int)
      <4>1. arrived = SubSeq(frame.mem, 0 + 1, 0 + frame.pos)
        BY <1>2, <1>5 DEF Sending
      <4>2. 0 \in Nat /\ 0 + frame.pos <= Len(frame.mem)
        BY <1>5
      <4>3. arrived \in Seq(Int)
        BY <1>5, <4>1, <4>2, PartOf
      <4>4. o \in Seq(Int)
        BY <1>6 DEF Ahead
      <4>5. QED
        BY <4>3, <4>4
    <3>2. QED
      BY <1>7, <1>8, <3>1
  <2>4. LineInv'
    BY <1>1, <1>2, <2>1, <2>2, <2>3 DEF LineInv, Sending
  <2>5. QED
    BY <1>1, <2>4, SendingKeeps
<1>9. CASE n # 0
  <2>1. PICK p \in Nat : p = frame.pos + n /\ p < frame.size /\ p \in 0 .. Len(frame.mem)
    <3>1. PICK z \in Nat, q \in Nat, l \in Nat, k \in Nat :
            z = frame.size /\ q = frame.pos /\ l = Len(frame.mem) /\ k = Len(o)
      BY <1>5, <1>6
    <3>2. q + k < z /\ z <= l /\ n <= k
      BY <1>5, <1>6, <1>7, <3>1
    <3>3. q + n \in Nat /\ q + n < z /\ q + n \in 0 .. l
      BY <3>2
    <3>4. QED
      BY <3>1, <3>3
  <2>2. PICK f : f = SetPosition(frame, p)
    OBVIOUS
  <2>3. frame' = f /\ send' = [left |-> send.left - n, ret |-> IF send.left = n THEN "sent" ELSE "none"]
    BY <1>9, <2>1, <2>2 DEF Sends
  <2>4. f \in Arrays /\ f.mem = frame.mem /\ f.pos = p /\ f.size = Most(frame.size, p) /\ Straight(f)
    BY <1>2, <2>1, <2>2, PositionedIn
  <2>5. f.size = frame.size
    BY <1>5, <2>1, <2>4 DEF Most
  <2>6. PICK l \in Nat : l = send.left - n /\ l > 0 /\ l = f.size - f.pos + fails
    <3>1. PICK z \in Nat, q \in Nat : z = frame.size /\ q = frame.pos /\ q + n = p /\ p < z
      BY <1>5, <2>1
    <3>2. send.left = z - q + fails
      BY <1>4, <3>1
    <3>3. send.left - n = z - p + fails
      BY <1>2, <3>1, <3>2
    <3>4. z - p + fails \in Nat /\ z - p + fails > 0
      BY <1>2, <3>1
    <3>5. QED
      BY <2>4, <2>5, <3>1, <3>3, <3>4
  <2>7. send' \in [left : Nat, ret : {"none", "closed"}] /\ send'.left = l
    <3>1. send.left # n
      BY <1>4, <2>6
    <3>2. send' = [left |-> l, ret |-> "none"]
      BY <2>3, <2>6, <3>1
    <3>3. QED
      BY <3>2
  <2>8. arrived' = SubSeq(f.mem, 1, f.pos)
    <3>1. PICK m \in Seq(Int), q \in Nat : m = frame.mem /\ q = frame.pos /\ q + n = p /\ p <= Len(m)
      BY <1>5, <2>1
    <3>2. arrived = SubSeq(m, 1, q)
      BY <1>2, <3>1 DEF Sending
    <3>3. PICK x \in Seq(Int) : x = SubSeq(m, 1, q) /\ Len(x) = q /\ \A i \in 1 .. q : x[i] = m[i]
      <4>1. q <= Len(m)
        BY <3>1
      <4>2. QED
        BY <4>1, FrontOf
    <3>4. o \in Seq(Int) /\ \A i \in 1 .. Len(o) : o[i] = m[q + i]
      BY <1>6, <3>1 DEF Ahead
    <3>5. PICK y \in Seq(Int) : y = SubSeq(o, 1, n) /\ Len(y) = n /\ \A i \in 1 .. n : y[i] = o[i]
      <4>1. n <= Len(o)
        BY <1>7
      <4>2. /\ SubSeq(o, 1, n) \in Seq(Int) /\ Len(SubSeq(o, 1, n)) = n
            /\ \A i \in 1 .. n : SubSeq(o, 1, n)[i] = o[i]
        BY <3>4, <4>1, FirstOf
      <4>3. QED
        BY <4>2
    <3>6. \A i \in 1 .. n : y[i] = m[q + i]
      <4>1. \A i \in 1 .. n : i \in 1 .. Len(o)
        BY <1>6, <1>7
      <4>2. QED
        BY <3>4, <3>5, <4>1
    <3>7. PICK z \in Seq(Int) : z = SubSeq(m, 1, p) /\ Len(z) = p /\ \A i \in 1 .. p : z[i] = m[i]
      <4>1. /\ SubSeq(m, 1, p) \in Seq(Int) /\ Len(SubSeq(m, 1, p)) = p
            /\ \A i \in 1 .. p : SubSeq(m, 1, p)[i] = m[i]
        BY <3>1, FirstOf
      <4>2. QED
        BY <4>1
    <3>8. PICK w \in Seq(Int) : /\ w = x \o y /\ Len(w) = p
                                /\ \A i \in 1 .. q : w[i] = x[i]
                                /\ \A j \in 1 .. n : w[q + j] = y[j]
      <4>1. /\ x \o y \in Seq(Int) /\ Len(x \o y) = Len(x) + Len(y)
            /\ \A i \in 1 .. Len(x) : (x \o y)[i] = x[i]
            /\ \A i \in 1 .. Len(y) : (x \o y)[Len(x) + i] = y[i]
        BY Joining
      <4>2. Len(x) + Len(y) = p
        BY <3>1, <3>3, <3>5
      <4>3. Len(x) = q /\ Len(y) = n
        BY <3>3, <3>5
      <4>4. PICK w : w = x \o y
        OBVIOUS
      <4>5. w \in Seq(Int) /\ Len(w) = p
        BY <4>1, <4>2, <4>4
      <4>6. \A i \in 1 .. q : w[i] = x[i]
        BY <4>1, <4>3, <4>4
      <4>7. \A j \in 1 .. n : w[q + j] = y[j]
        BY <4>1, <4>3, <4>4
      <4>8. QED
        BY <4>4, <4>5, <4>6, <4>7
    <3>9. ASSUME NEW i \in 1 .. p PROVE w[i] = z[i]
      <4>1. CASE i <= q
        BY <3>3, <3>7, <3>8, <4>1
      <4>2. CASE i > q
        <5>1. PICK j \in 1 .. n : i = q + j
          <6>1. q + n = p
            BY <3>1
          <6>2. QED
            BY <4>2, <6>1, Beyond
        <5>2. w[i] = m[q + j]
          <6>1. w[q + j] = y[j]
            BY <3>8
          <6>2. y[j] = m[q + j]
            BY <3>6
          <6>3. QED
            BY <5>1, <6>1, <6>2
        <5>3. z[i] = m[i]
          BY <3>7
        <5>4. QED
          BY <5>1, <5>2, <5>3
      <4>3. QED
        BY <4>1, <4>2
    <3>10. w = z
      BY <3>7, <3>8, <3>9
    <3>11. QED
      BY <1>7, <2>1, <2>4, <3>1, <3>2, <3>3, <3>5, <3>7, <3>8, <3>10
  <2>9. LineInv'
    <3>1. Sending'
      BY <1>1, <2>1, <2>3, <2>4, <2>5, <2>6, <2>7, <2>8 DEF Sending
    <3>2. QED
      BY <1>1, <1>2, <2>3, <2>4, <3>1 DEF LineInv
  <2>10. QED
    BY <1>1, <2>9, SendingKeeps
<1>10. QED
  BY <1>8, <1>9

\* A socket that fails adds one to what is left: the length was unsigned.
LEMMA SendFailsStep ==
    ASSUME WireInv, SendFails
    PROVE  WireInv'
<1>1. /\ mode = "send" /\ UNCHANGED arrayVars /\ UNCHANGED mode /\ UNCHANGED <<frame, arrived>>
      /\ fails < MaxFails /\ fails' = fails + 1 /\ send' = [send EXCEPT !.left = @ + 1]
  BY DEF SendFails
<1>2. Sending /\ frame \in Arrays /\ fails \in 0 .. MaxFails /\ fails \in Nat
  BY <1>1, WireAssumption DEF WireInv, LineInv
<1>3. fails' \in 0 .. MaxFails
  BY <1>1, <1>2, WireAssumption
<1>4. send \in [left : Nat, ret : {"none", "closed"}] /\ send.left = frame.size - frame.pos + fails
  BY <1>2 DEF Sending
<1>5. send' \in [left : Nat, ret : {"none", "closed"}] /\ send'.left = send.left + 1
  BY <1>1, <1>4
<1>6. send'.left = frame.size - frame.pos + fails'
  <2>1. frame.size \in Nat /\ frame.pos \in Nat
    BY <1>2, ArrayFacts
  <2>2. QED
    BY <1>1, <1>2, <1>4, <1>5, <2>1
<1>7. LineInv'
  BY <1>1, <1>2, <1>3, <1>5, <1>6 DEF LineInv, Sending
<1>8. QED
  BY <1>1, <1>7, SendingKeeps

\* The receiver reads what arrived and leaves the line.
LEMMA RecvProtocolStep ==
    ASSUME WireInv, RecvProtocol
    PROVE  WireInv'
<1>1. mode = "send" /\ mode' = "over" /\ UNCHANGED <<arrayVars, sendVars>>
  BY DEF RecvProtocol
<1>2. ArrayInv' /\ BookInv'
  BY <1>1 DEF WireInv, ArrayInv, BookInv, Kept, arrayVars, sendVars
<1>3. Sending /\ frame \in Arrays /\ fails \in 0 .. MaxFails
  BY <1>1 DEF WireInv, LineInv
<1>4. LineInv'
  BY <1>1, <1>3 DEF LineInv, Sending, sendVars
<1>5. QED
  BY <1>2, <1>4 DEF WireInv

\* Every step keeps WireInv.
LEMMA WireKeeps == WireInv /\ [WireNext]_wireVars => WireInv'
<1> SUFFICES ASSUME WireInv, [WireNext]_wireVars PROVE WireInv'
  OBVIOUS
<1>1. CASE \E it \in Items : Put(it)
  BY <1>1, PutStep
<1>2. CASE Reset
  BY <1>2, ResetStep
<1>3. CASE Get
  BY <1>3, GetStep
<1>4. CASE \E p \in Places : Seek(p)
  BY <1>4, SeekStep
<1>5. CASE ClearArray
  BY <1>5, ClearStep
<1>6. CASE SetFromFile(File)
  BY <1>6, SetFromFileStep
<1>7. CASE SendProtocol
  BY <1>7, SendProtocolStep
<1>8. CASE \E n \in 0 .. BaseSize * Nodes(frame) : Sends(n)
  <2>1. PICK n \in Nat : Sends(n)
    BY <1>8
  <2>2. QED
    BY <2>1, SendsStep
<1>9. CASE SendFails
  BY <1>9, SendFailsStep
<1>10. CASE RecvProtocol
  BY <1>10, RecvProtocolStep
<1>11. CASE UNCHANGED wireVars
  BY <1>11 DEF wireVars, arrayVars, sendVars, WireInv, BookInv, ArrayInv, LineInv, Kept, Sending
<1>12. QED
  BY <1>1, <1>2, <1>3, <1>4, <1>5, <1>6, <1>7, <1>8, <1>9, <1>10, <1>11 DEF WireNext

\* WireInv holds always.
LEMMA WireAlways == WireSpec => []WireInv
BY WireStart, WireKeeps, PTL DEF WireSpec

\* What WireInv says of types.
LEMMA WireIsTyped ==
    ASSUME WireInv
    PROVE  WireTypeOK
<1>1. ba \in Arrays /\ frame \in Arrays /\ fails \in 0 .. MaxFails /\ MaxFails \in Nat
  BY WireAssumption DEF WireInv, ArrayInv, LineInv
<1>2. /\ Len(ba.mem) = Nodes(ba) * BaseSize /\ Nodes(ba) \in Nat
      /\ ba.pos \in 0 .. ba.size /\ ba.size <= Len(ba.mem)
      /\ ba.cur \in (0 .. Nodes(ba) - 1) \cup {Nil} /\ ba.ok \in BOOLEAN /\ ba.thrown \in BOOLEAN
  <2>1. /\ ba.pos \in Nat /\ ba.size \in Nat /\ ba.pos <= ba.size
        /\ Len(ba.mem) = Nodes(ba) * BaseSize /\ Nodes(ba) \in Nat /\ ba.size <= Len(ba.mem)
        /\ ba.cur \in (0 .. Nodes(ba) - 1) \cup {Nil} /\ ba.ok \in BOOLEAN /\ ba.thrown \in BOOLEAN
    BY <1>1, ArrayFacts
  <2>2. ba.pos \in 0 .. ba.size
    BY <2>1
  <2>3. QED
    BY <2>1, <2>2
<1>3. Len(ba.mem) % BaseSize = 0
  <2>1. PICK k \in Nat : k = Nodes(ba)
    BY <1>2
  <2>2. (k * BaseSize + 0) % BaseSize = 0 /\ k * BaseSize + 0 = k * BaseSize
    BY QuotientOf
  <2>3. QED
    BY <1>2, <2>1, <2>2
<1>4. send.left \in 0 .. Len(frame.mem) + MaxFails /\ send.ret \in {"none", "closed", "sent"}
  <2>1. PICK l \in Nat, z \in Nat, p \in Nat : l = Len(frame.mem) /\ z = frame.size /\ p = frame.pos /\ p <= z /\ z <= l
    BY <1>1, ArrayFacts
  <2>2. CASE send = NoSend
    BY <1>1, <2>1, <2>2, NoSendIs
  <2>3. CASE Sending
    <3>1. send.left = z - p + fails /\ send.ret \in {"none", "closed"}
      BY <2>1, <2>3 DEF Sending
    <3>2. PICK x \in Nat, y \in Nat : x = fails /\ y = MaxFails /\ x <= y
      BY <1>1
    <3>3. z - p + x \in 0 .. l + y
      BY <2>1, <3>2
    <3>4. QED
      BY <2>1, <3>1, <3>2, <3>3
  <2>4. QED
    BY <2>2, <2>3 DEF WireInv, LineInv
<1>5. QED
  BY <1>2, <1>3, <1>4 DEF WireTypeOK, WireInv, BookInv

\* What it says of the bytes the user may look at.
LEMMA BytesAreKept ==
    ASSUME WireInv
    PROVE  BytesKept
<1> SUFFICES ASSUME ~strayed, ba.ok, send = NoSend
             PROVE  /\ Agree(SubSeq(ba.mem, 1, ba.size), flat)
                    /\ ba.cur = LET b == ba.pos \div BaseSize IN IF b < Nodes(ba) THEN b ELSE Nil
                    /\ Agree(Rest(ba).data, SubSeq(flat, ba.pos + 1, ba.size))
                    /\ ba.cur = 0 => LET offered == ReadBuffersAt(ba, ba.size, ba.pos)
                                     IN  Agree(offered, SubSeq(flat, ba.pos + 1, ba.pos + Len(offered)))
                    /\ Npos(ba.pos) = 0 => Agree(ToFile(ba).data, SubSeq(flat, ba.pos + 1, ba.size))
  BY DEF BytesKept
<1>1. ba \in Arrays /\ flat \in Seq(Int) /\ Straight(ba) /\ Matches(flat, ba)
  BY DEF WireInv, ArrayInv, Kept
<1>2. ba.mem \in Seq(Int) /\ ba.size \in Nat /\ ba.size <= Len(ba.mem)
  BY <1>1, ArrayFacts
<1>3. Agree(SubSeq(ba.mem, 1, ba.size), flat)
  <2>1. PICK s \in Seq(Int) : /\ s = SubSeq(ba.mem, 1, ba.size) /\ Len(s) = ba.size
                              /\ \A i \in 1 .. ba.size : s[i] = ba.mem[i]
    <3>1. /\ SubSeq(ba.mem, 1, ba.size) \in Seq(Int) /\ Len(SubSeq(ba.mem, 1, ba.size)) = ba.size
          /\ \A i \in 1 .. ba.size : SubSeq(ba.mem, 1, ba.size)[i] = ba.mem[i]
      BY <1>2, FirstOf
    <3>2. QED
      BY <3>1
  <2>2. DOMAIN s = 1 .. ba.size /\ Len(flat) = ba.size
    BY <1>1, <2>1, NonEmpty DEF Matches
  <2>3. \A i \in 1 .. ba.size : flat[i] \in {Unknown, s[i]}
    BY <1>1, <2>1 DEF Matches
  <2>4. Agree(s, flat)
    BY <2>1, <2>2, <2>3 DEF Agree
  <2>5. QED
    BY <2>1, <2>4
<1>4. ba.cur = LET b == ba.pos \div BaseSize IN IF b < Nodes(ba) THEN b ELSE Nil
  BY <1>1 DEF Straight, NodeAt
<1>5. /\ Ahead(Rest(ba).data, ba) /\ ba.pos + Len(Rest(ba).data) = ba.size
      /\ Npos(ba.pos) = 0 => Ahead(ToFile(ba).data, ba) /\ ba.pos + Len(ToFile(ba).data) = ba.size
  BY <1>1, RestOf
<1>6. ba.cur = 0 => Ahead(ReadBuffersAt(ba, ba.size, ba.pos), ba)
  BY <1>1, <1>2, BuffersOf
<1>7. Agree(Rest(ba).data, SubSeq(flat, ba.pos + 1, ba.size))
  BY <1>1, <1>5, AheadAgrees
<1>8. Npos(ba.pos) = 0 => Agree(ToFile(ba).data, SubSeq(flat, ba.pos + 1, ba.size))
  BY <1>1, <1>5, AheadAgrees
<1>9. ba.cur = 0 => LET offered == ReadBuffersAt(ba, ba.size, ba.pos)
                    IN  Agree(offered, SubSeq(flat, ba.pos + 1, ba.pos + Len(offered)))
  BY <1>1, <1>6, AheadAgrees
<1>10. QED
  BY <1>3, <1>4, <1>7, <1>8, <1>9

\* ByteArray's fields fit together after every call, and unless a read went
\* past the first block the array is a flat sequence of bytes: each is where
\* it was written, and what is read, offered or put into a file is what lies
\* ahead of the position (byte_array.cpp), for every block size and width.
THEOREM ArrayIsSound == WireSpec => []ArraySound
<1>1. WireInv => ArraySound
  BY WireIsTyped, BytesAreKept DEF ArraySound
<1>2. QED
  BY <1>1, WireAlways, PTL

\* However many sends come up short or fail, the peer has seen a prefix of
\* the frame, and nothing is reported as sent that was not; in fact nothing
\* is, for the last piece of a range is not offered
\* (Stream::write_fix_size, ByteArray::get_read_buffers).
THEOREM LineIsPrefix == WireSpec => []LinePrefix
<1>1. WireInv => LinePrefix
  <2>1. SUFFICES ASSUME WireInv, mode = "send"
                 PROVE  arrived = SubSeq(frame.mem, 1, Len(arrived)) /\ send.ret # "sent"
    BY DEF LinePrefix
  <2>2. Sending /\ frame \in Arrays
    BY <2>1 DEF WireInv, LineInv
  <2>3. PICK p \in Nat : p = frame.pos /\ p <= Len(frame.mem) /\ frame.mem \in Seq(Int)
    <3>1. /\ frame.pos \in Nat /\ frame.size \in Nat /\ Len(frame.mem) \in Nat /\ frame.mem \in Seq(Int)
          /\ frame.pos <= frame.size /\ frame.size <= Len(frame.mem)
      BY <2>2, ArrayFacts
    <3>2. QED
      BY <3>1
  <2>4. arrived = SubSeq(frame.mem, 1, p)
    BY <2>2, <2>3 DEF Sending
  <2>5. Len(arrived) = p
    BY <2>3, <2>4, FirstOf
  <2>6. send.ret # "sent"
    BY <2>2 DEF Sending
  <2>7. QED
    BY <2>4, <2>5, <2>6
<1>2. QED
  BY <1>1, WireAlways, PTL

\* A remainder by a product, in two steps.
LEMMA Splitting ==
    ASSUME NEW v \in Nat, NEW a \in Nat \ {0}, NEW g \in Nat \ {0}
    PROVE  v % (a * g) = (v % a) + ((v \div a) % g) * a /\ a * g \in Nat \ {0}
<1>1. PICK q \in Nat, r \in 0 .. a - 1 : q = v \div a /\ r = v % a /\ v = q * a + r
  BY Quotient
<1>2. PICK u \in Nat, s \in 0 .. g - 1 : u = q \div g /\ s = q % g /\ q = u * g + s
  BY Quotient
<1>3. PICK d \in Nat \ {0} : d = a * g
  OBVIOUS
<1>4. PICK x \in Nat : x = s * a + r
  OBVIOUS
<1>5. x < d
  <2>1. PICK y \in Nat : y = s + 1 /\ y <= g
    OBVIOUS
  <2>2. y * a <= g * a
    BY <2>1
  <2>3. y * a = s * a + a
    BY <2>1
  <2>4. g * a = d
    BY <1>3
  <2>5. QED
    BY <1>4, <2>2, <2>3, <2>4
<1>6. v = u * d + x
  <2>1. PICK z \in Nat : z = u * g
    OBVIOUS
  <2>2. (z + s) * a = z * a + s * a
    OBVIOUS
  <2>3. z * a = u * d
    BY <1>3, <2>1
  <2>4. q * a = u * d + s * a
    BY <1>2, <2>1, <2>2, <2>3
  <2>5. PICK x1 \in Nat, x2 \in Nat, x3 \in Nat : x1 = q * a /\ x2 = u * d /\ x3 = s * a
    OBVIOUS
  <2>6. v = x1 + r /\ x = x3 + r /\ x1 = x2 + x3
    BY <1>1, <1>4, <2>4, <2>5
  <2>7. v = x2 + x
    BY <2>6
  <2>8. QED
    BY <2>5, <2>7
<1>7. v % d = x
  <2>1. x \in 0 .. d - 1
    BY <1>5
  <2>2. (u * d + x) % d = x
    BY <2>1, QuotientOf
  <2>3. QED
    BY <1>6, <2>2
<1>8. QED
  BY <1>1, <1>2, <1>3, <1>4, <1>7

\* Powers of a sum.
LEMMA Powers ==
    ASSUME NEW a \in Nat, NEW b \in Nat
    PROVE  Pow2[a + b] = Pow2[a] * Pow2[b]
<1>1. PICK G : G = { k \in 0 .. b : Pow2[a + k] = Pow2[a] * Pow2[k] }
  OBVIOUS
<1>2. 0 \in G
  <2>1. Pow2[a] \in Nat /\ Pow2[0] = 1 /\ a + 0 = a
    BY Doubling
  <2>2. Pow2[a] * Pow2[0] = Pow2[a]
    BY <2>1
  <2>3. QED
    BY <1>1, <2>1, <2>2
<1>3. ASSUME NEW k \in 0 .. b - 1, k \in G PROVE k + 1 \in G
  <2>1. PICK j \in Nat : j = a + k /\ j + 1 = a + (k + 1) /\ k \in Nat /\ k + 1 \in 0 .. b
    OBVIOUS
  <2>2. PICK x \in Nat, y \in Nat : x = Pow2[a] /\ y = Pow2[k] /\ Pow2[k + 1] = 2 * y
    BY <2>1, Doubling
  <2>3. Pow2[j] = x * y
    BY <1>1, <1>3, <2>1, <2>2
  <2>4. Pow2[j + 1] = 2 * (x * y)
    BY <2>1, <2>3, Doubling
  <2>5. 2 * (x * y) = x * (2 * y)
    OBVIOUS
  <2>6. QED
    BY <1>1, <2>1, <2>2, <2>4, <2>5
<1>4. b \in 0 .. b
  OBVIOUS
<1>5. b \in G
  BY <1>2, <1>3, <1>4, Climbs
<1>6. QED
  BY <1>1, <1>5

\* readInt32() undoes what writeInt32() does to the sign.
LEMMA ZigzagBack ==
    ASSUME NEW v \in Int
    PROVE  DecodeZigzag(EncodeZigzag(v)) = v
<1>1. CASE v >= 0
  <2>1. PICK u \in Nat : u = 2 * v
    BY <1>1
  <2>2. u % 2 = 0 /\ u \div 2 = v
    BY <1>1, <2>1
  <2>3. QED
    BY <1>1, <2>1, <2>2 DEF DecodeZigzag, EncodeZigzag
<1>2. CASE v < 0
  <2>1. PICK w \in Nat : w = -v /\ w > 0
    BY <1>2
  <2>2. PICK u \in Nat : u = 2 * w - 1 /\ u = -2 * v - 1
    BY <2>1
  <2>3. u % 2 = 1 /\ (u + 1) \div 2 = w
    BY <2>1, <2>2
  <2>4. QED
    BY <1>2, <2>1, <2>2, <2>3 DEF DecodeZigzag, EncodeZigzag
<1>3. QED
  BY <1>1, <1>2

\* The groups a value needs, and not one more.
LEMMA VarLenIs ==
    ASSUME NEW v \in Uint32
    PROVE  /\ v \in Nat
           /\ \E n \in 1 .. VarMost : v < Pow2[n * Group] /\ (n > 1 => v >= Pow2[(n - 1) * Group])
<1>1. v \in Nat /\ v < Pow2[Bits]
  BY Doubling DEF Uint32
<1>2. PICK S : S = { n \in Nat \ {0} : v < Pow2[n * Group] }
  OBVIOUS
<1>3. VarMost \in S
  <2>1. PICK n \in Nat \ {0} : n = VarMost /\ Bits <= n * Group /\ n * Group \in Nat
    BY VarMostIsNumber
  <2>2. Pow2[Bits] <= Pow2[n * Group] /\ Pow2[Bits] \in Nat /\ Pow2[n * Group] \in Nat
    BY <2>1, Growing, Doubling
  <2>3. v < Pow2[n * Group]
    BY <1>1, <2>2
  <2>4. QED
    BY <1>2, <2>1, <2>3
<1>4. S \in SUBSET Nat
  BY <1>2
<1>5. PICK m \in S : \A k \in S : m <= k
  BY <1>3, <1>4, Smallest
<1>6. m \in Nat \ {0} /\ v < Pow2[m * Group] /\ m <= VarMost
  BY <1>2, <1>3, <1>5
<1>7. m > 1 => v >= Pow2[(m - 1) * Group]
  <2>1. SUFFICES ASSUME m > 1 PROVE v >= Pow2[(m - 1) * Group]
    OBVIOUS
  <2>2. PICK k \in Nat \ {0} : k = m - 1 /\ ~(m <= k) /\ k * Group \in Nat
    BY <1>6, <2>1
  <2>3. k \notin S
    BY <1>5, <2>2
  <2>4. Pow2[k * Group] \in Nat /\ ~(v < Pow2[k * Group])
    BY <1>2, <2>2, <2>3, Doubling
  <2>5. QED
    BY <1>1, <2>2, <2>4
<1>8. m \in 1 .. VarMost
  BY <1>6, VarMostIsNumber
<1>9. QED
  BY <1>1, <1>6, <1>7, <1>8

\* The bytes of a varint: a group of bits each, all but the last marked.
LEMMA VarBytesAre ==
    ASSUME NEW v \in Uint32
    PROVE  /\ VarBytes(v) \in Seq(Int) /\ Len(VarBytes(v)) = VarLen(v)
           /\ VarLen(v) \in Nat \ {0} /\ VarLen(v) <= VarMost /\ v < Pow2[VarLen(v) * Group]
           /\ \A k \in 0 .. VarLen(v) - 1 :
                /\ VarBytes(v)[k + 1] % Pow2[Group] = (v \div Pow2[k * Group]) % Pow2[Group]
                /\ VarBytes(v)[k + 1] >= Pow2[Group] <=> k + 1 < VarLen(v)
<1>1. PICK n \in Nat \ {0} : n = VarLen(v) /\ n <= VarMost
  BY VarLenOf, VarMostIsNumber
<1>2. PICK g \in Nat \ {0} : g = Pow2[Group]
  BY Doubling
<1>3. v \in Nat
  BY VarLenOf
<1>4. PICK f \in Seq(Int) : f = VarBytes(v)
  BY VarBytesOf
<1>5. f = [i \in 1 .. n |-> ((v \div Pow2[(i - 1) * Group]) % g) + (IF i < n THEN g ELSE 0)]
  BY <1>1, <1>2, <1>4 DEF VarBytes
<1>6. Len(f) = n
  BY <1>5
<1>7. ASSUME NEW k \in 0 .. n - 1
      PROVE  /\ f[k + 1] % g = (v \div Pow2[k * Group]) % g
             /\ f[k + 1] >= g <=> k + 1 < n
  <2>1. k \in Nat /\ k + 1 \in 1 .. n /\ (k + 1) - 1 = k /\ k * Group \in Nat
    OBVIOUS
  <2>2. PICK d \in Nat \ {0} : d = Pow2[k * Group]
    BY <2>1, Doubling
  <2>3. PICK q \in Nat : q = v \div d
    BY <1>3, Quotient
  <2>4. PICK x \in 0 .. g - 1 : x = q % g
    BY Quotient
  <2>5. f[k + 1] = x + (IF k + 1 < n THEN g ELSE 0)
    BY <1>5, <2>1, <2>2, <2>3, <2>4
  <2>6. x % g = x /\ (x + g) % g = x
    <3>1. (0 * g + x) % g = x /\ (1 * g + x) % g = x
      BY QuotientOf
    <3>2. 0 * g + x = x /\ 1 * g + x = x + g
      OBVIOUS
    <3>3. QED
      BY <3>1, <3>2
  <2>7. f[k + 1] % g = x
    BY <2>5, <2>6
  <2>8. f[k + 1] >= g <=> k + 1 < n
    BY <2>5
  <2>9. QED
    BY <2>2, <2>3, <2>4, <2>7, <2>8
<1>8. v < Pow2[n * Group]
  <2>1. \E m \in 1 .. VarMost : v < Pow2[m * Group] /\ (m > 1 => v >= Pow2[(m - 1) * Group])
    BY VarLenIs
  <2>2. VarLen(v) \in 1 .. VarMost /\ v < Pow2[VarLen(v) * Group]
    BY <2>1, Zenon DEF VarLen
  <2>3. QED
    BY <1>1, <2>2
<1>9. QED
  BY <1>1, <1>2, <1>4, <1>6, <1>7, <1>8

-----------------------------------------------------------------------------
(***************************************************************************)
(* Reading what was written, inside the first block.                       *)
(***************************************************************************)
Ready(b) == b \in Arrays /\ Straight(b) /\ b.ok /\ ~b.thrown /\ b.pos < BaseSize

\* c is b read n bytes on.
Further(c, b, n) == /\ c \in From(b) /\ c.pos = b.pos + n /\ c.ok /\ ~c.thrown
                    /\ c.pos < BaseSize => Ready(c)

\* read() of what is there.
LEMMA ReadAhead ==
    ASSUME NEW b, Ready(b), NEW n \in Nat, b.pos + n <= b.size
    PROVE  /\ Further(Read(b, n).ba, b, n) /\ Read(b, n).data \in Seq(Int) /\ Len(Read(b, n).data) = n
           /\ \A i \in 1 .. n : Read(b, n).data[i] = b.mem[b.pos + i]
<1>1. b \in Arrays /\ Straight(b) /\ b.ok /\ ~b.thrown /\ b.pos < BaseSize
  BY DEF Ready
<1>2. /\ b.mem \in Seq(Int) /\ b.pos \in Nat /\ b.size \in Nat /\ Len(b.mem) \in Nat
      /\ Nodes(b) \in Nat \ {0} /\ Len(b.mem) = Nodes(b) * BaseSize
      /\ b.pos <= b.size /\ b.size <= Len(b.mem)
  BY <1>1, ArrayFacts
<1>3. b.pos < Len(b.mem)
  <2>1. PICK k \in Nat \ {0} : k = Nodes(b)
    BY <1>2
  <2>2. BaseSize <= k * BaseSize /\ k * BaseSize \in Nat
    OBVIOUS
  <2>3. QED
    BY <1>1, <1>2, <2>1, <2>2
<1>4. AddressOf(b, b.pos) = b.pos /\ b.cur # Nil
  BY <1>1, <1>3, StraightAddress
<1>5. PICK p \in Nat : p = b.pos /\ p < BaseSize /\ p + n <= Len(b.mem) /\ ~(n > b.size - p)
  <2>1. b.pos + n <= Len(b.mem) /\ ~(n > b.size - b.pos)
    BY <1>2
  <2>2. QED
    BY <1>1, <1>2, <2>1, Zenon
<1>6. NodeRoom(b) = BaseSize - p /\ NodeRoom(b) # 0 /\ ~(NodeRoom(b) > BaseSize)
  BY <1>5 DEF NodeRoom
<1>7. PICK c : c = Read(b, n)
  OBVIOUS
<1>8. c.ba \in From(b) /\ c.data \in Seq(Int)
  BY <1>1, <1>7, ReadFrom
<1>9. ASSUME c.ba.pos = p + n, c.ba.ok, ~c.ba.thrown PROVE Further(c.ba, b, n)
  <2>1. c.ba \in Arrays /\ (c.ba.pos <= BaseSize => Straight(c.ba))
    BY <1>1, <1>8 DEF From
  <2>2. c.ba.pos < BaseSize => Straight(c.ba)
    <3>1. c.ba.pos \in Nat
      BY <2>1, ArrayFacts
    <3>2. QED
      BY <2>1, <3>1
  <2>3. QED
    BY <1>5, <1>8, <1>9, <2>1, <2>2 DEF Further, Ready
<1>10. CASE n = 0
  <2>1. c = [data |-> <<>>, ba |-> b]
    <3>1. ~(0 > ReadSize(b))
      BY <1>2 DEF ReadSize
    <3>2. QED
      BY <1>4, <1>7, <1>10, <3>1 DEF Read
  <2>2. c.data = <<>> /\ c.ba = b /\ c.ba.pos = p + n
    BY <1>5, <1>10, <2>1
  <2>3. Further(c.ba, b, n)
    BY <1>1, <1>9, <2>2
  <2>4. Len(c.data) = n /\ \A i \in 1 .. n : c.data[i] = b.mem[b.pos + i]
    BY <1>10, <2>2
  <2>5. QED
    BY <1>7, <1>8, <2>3, <2>4
<1>11. CASE n # 0
  <2>1. c = [data |-> Bytes(b, p, n), ba |-> Moved(b, n, NodeAt(b, p + n))]
    <3>1. ~(n > ReadSize(b))
      BY <1>5 DEF ReadSize
    <3>2. QED
      BY <1>4, <1>5, <1>6, <1>7, <1>11, <3>1 DEF Read
  <2>2. c.data = Bytes(b, p, n) /\ c.ba = Moved(b, n, NodeAt(b, p + n))
    BY <2>1
  <2>3. c.ba.pos = p + n /\ c.ba.ok /\ ~c.ba.thrown
    BY <1>1, <1>5, <2>2 DEF Moved, Arrays
  <2>4. Further(c.ba, b, n)
    BY <1>9, <2>3
  <2>5. Len(c.data) = n /\ \A i \in 1 .. n : c.data[i] = b.mem[p + i]
    <3>1. b \in Arrays /\ p + n <= Len(b.mem)
      BY <1>1, <1>5
    <3>2. Len(Bytes(b, p, n)) = n /\ \A i \in 1 .. n : Bytes(b, p, n)[i] = b.mem[p + i]
      BY <3>1, BytesOf
    <3>3. QED
      BY <2>2, <3>2
  <2>6. QED
    BY <1>5, <1>7, <1>8, <2>4, <2>5
<1>12. QED
  BY <1>10, <1>11

\* What lies ahead of an array that was read on.
LEMMA AheadFurther ==
    ASSUME NEW b \in Arrays, NEW s \in Seq(Int), NEW t \in Seq(Int), Ahead(s \o t, b)
    PROVE  /\ Ahead(s, b)
           /\ \A c \in From(b) : c.pos = b.pos + Len(s) => Ahead(t, c)
<1>1. /\ s \o t \in Seq(Int) /\ Len(s \o t) = Len(s) + Len(t)
      /\ \A i \in 1 .. Len(s) : (s \o t)[i] = s[i]
      /\ \A i \in 1 .. Len(t) : (s \o t)[Len(s) + i] = t[i]
  BY Joining
<1>2. PICK p \in Nat, m \in Nat, n \in Nat, z \in Nat : p = b.pos /\ m = Len(s) /\ n = Len(t) /\ z = b.size
  <2>1. b.pos \in Nat /\ Len(s) \in Nat /\ Len(t) \in Nat /\ b.size \in Nat
    BY ArrayFacts, NonEmpty
  <2>2. QED
    BY <2>1, Zenon
<1>3. p + (m + n) <= z /\ \A i \in 1 .. m + n : (s \o t)[i] = b.mem[p + i]
  BY <1>1, <1>2 DEF Ahead
<1>4. p + m <= z
  BY <1>3
<1>5. \A i \in 1 .. m : s[i] = b.mem[p + i]
  <2>1. \A i \in 1 .. m : i \in 1 .. m + n
    OBVIOUS
  <2>2. QED
    BY <1>1, <1>2, <1>3, <2>1
<1>6. Ahead(s, b)
  BY <1>2, <1>4, <1>5 DEF Ahead
<1>7. ASSUME NEW c \in From(b), c.pos = b.pos + Len(s) PROVE Ahead(t, c)
  <2>1. c.mem = b.mem /\ c.size = z /\ c.pos = p + m
    BY <1>2, <1>7 DEF From
  <2>2. ASSUME NEW i \in 1 .. n PROVE t[i] = b.mem[(p + m) + i]
    <3>1. m + i \in 1 .. m + n /\ p + (m + i) = (p + m) + i
      OBVIOUS
    <3>2. (s \o t)[m + i] = b.mem[p + (m + i)]
      BY <1>3, <3>1
    <3>3. QED
      BY <1>1, <1>2, <3>1, <3>2
  <2>3. (p + m) + n <= z
    BY <1>3
  <2>4. QED
    BY <1>2, <2>1, <2>2, <2>3 DEF Ahead
<1>8. QED
  BY <1>6, <1>7

\* Reading on from b gives c: past the first block, or n bytes further and as
\* good as before.
Reads(c, b, n) == c \in From(b) /\ (c.pos < BaseSize => c.pos = b.pos + n /\ Ready(c))

\* Sequences are the same when their elements are.
LEMMA SameElements ==
    ASSUME NEW s \in Seq(Int), NEW t \in Seq(Int), Len(s) = Len(t), \A i \in 1 .. Len(s) : s[i] = t[i]
    PROVE  s = t
OBVIOUS

\* read() of what lies ahead.
LEMMA BytesAhead ==
    ASSUME NEW b, Ready(b), NEW s \in Seq(Int), Ahead(s, b)
    PROVE  /\ Reads(Read(b, Len(s)).ba, b, Len(s)) /\ Read(b, Len(s)).data = s
           /\ Read(b, Len(s)).ba.pos = b.pos + Len(s)
           /\ Read(b, Len(s)).ba.ok /\ ~Read(b, Len(s)).ba.thrown
<1>1. Len(s) \in Nat /\ b.pos + Len(s) <= b.size /\ \A i \in 1 .. Len(s) : s[i] = b.mem[b.pos + i]
  BY DEF Ahead
<1>2. PICK n, c : n = Len(s) /\ n \in Nat /\ c = Read(b, n)
  BY <1>1
<1>3. /\ Further(c.ba, b, n) /\ c.data \in Seq(Int) /\ Len(c.data) = n
      /\ \A i \in 1 .. n : c.data[i] = b.mem[b.pos + i]
  BY <1>1, <1>2, ReadAhead
<1>4. \A i \in 1 .. n : c.data[i] = s[i]
  BY <1>1, <1>2, <1>3
<1>5. c.data = s
  <2>1. PICK d : d = c.data
    OBVIOUS
  <2>2. d \in Seq(Int) /\ Len(d) = Len(s) /\ \A i \in 1 .. Len(d) : d[i] = s[i]
    BY <1>2, <1>3, <1>4, <2>1
  <2>3. QED
    BY <2>1, <2>2, SameElements
<1>6. QED
  BY <1>2, <1>3, <1>5 DEF Reads, Further

\* Reading on in two goes.
LEMMA ReadsOn ==
    ASSUME NEW b \in Arrays, NEW c, NEW d, NEW m \in Nat, NEW n \in Nat,
           Reads(c, b, m), c.pos < BaseSize => Reads(d, c, n), d \in From(c)
    PROVE  Reads(d, b, m + n)
<1>1. c \in From(b) /\ c \in Arrays /\ d \in From(b) /\ d \in Arrays
  BY FromFrom DEF Reads, From
<1>2. b.pos \in Nat /\ c.pos \in Nat /\ d.pos \in Nat /\ c.pos <= d.pos
  BY <1>1, ArrayFacts DEF From
<1>3. SUFFICES ASSUME d.pos < BaseSize PROVE d.pos = b.pos + (m + n) /\ Ready(d)
  BY <1>1 DEF Reads
<1>4. c.pos < BaseSize
  BY <1>2, <1>3
<1>5. c.pos = b.pos + m /\ d.pos = c.pos + n /\ Ready(d)
  BY <1>3, <1>4 DEF Reads
<1>6. QED
  BY <1>2, <1>5

\* A varint's reader that has the first m groups of v.
VarAt(r, b, v, m) ==
  /\ Ready(r.ba) /\ r.ba.pos = b.pos + m
  /\ r.shift = m * Group /\ r.value = v % Pow2[m * Group] /\ r.more = (m < VarLen(v))

\* A group more.
LEMMA VarStepAhead ==
    ASSUME NEW b, Ready(b), NEW v \in Uint32, Ahead(VarBytes(v), b), NEW m \in Nat, NEW r \in VarReaders(b),
           VarAt(r, b, v, m), m < VarLen(v), VarStep(r).ba.pos < BaseSize
    PROVE  VarAt(VarStep(r), b, v, m + 1)
<1>1. /\ Ready(r.ba) /\ r.ba.ok /\ ~r.ba.thrown /\ r.more
      /\ r.shift = m * Group /\ r.value = v % Pow2[m * Group] /\ r.ba.pos = b.pos + m
      /\ b \in Arrays /\ r.ba \in Arrays /\ r.ba \in From(b)
  BY DEF VarAt, Ready, VarReaders
<1>2. PICK n \in Nat \ {0} : n = VarLen(v) /\ n <= VarMost /\ m < n /\ Len(VarBytes(v)) = n
  BY VarBytesAre
<1>3. PICK f \in Seq(Int) : f = VarBytes(v) /\ Len(f) = n
  BY <1>2, VarBytesAre
<1>4. PICK p \in Nat, z \in Nat : p = b.pos /\ z = b.size
  BY <1>1, ArrayFacts, Zenon
<1>5. p + n <= z /\ \A i \in 1 .. n : f[i] = b.mem[p + i]
  BY <1>3, <1>4 DEF Ahead
<1>6. r.ba.mem = b.mem /\ r.ba.size = z /\ r.ba.pos = p + m /\ r.ba.pos + 1 <= r.ba.size
  BY <1>1, <1>2, <1>4, <1>5 DEF From
<1>7. PICK c : c = Read(r.ba, 1)
  OBVIOUS
<1>8. Further(c.ba, r.ba, 1) /\ c.data \in Seq(Int) /\ Len(c.data) = 1 /\ c.data[1] = b.mem[(p + m) + 1]
  <2>1. /\ Further(c.ba, r.ba, 1) /\ c.data \in Seq(Int) /\ Len(c.data) = 1
        /\ \A i \in 1 .. 1 : c.data[i] = r.ba.mem[r.ba.pos + i]
    <3>1. PICK a : a = r.ba
      OBVIOUS
    <3>2. Ready(a) /\ 1 \in Nat /\ a.pos + 1 <= a.size /\ c = Read(a, 1)
      BY <1>1, <1>6, <1>7, <3>1
    <3>3. /\ Further(c.ba, a, 1) /\ c.data \in Seq(Int) /\ Len(c.data) = 1
          /\ \A i \in 1 .. 1 : c.data[i] = a.mem[a.pos + i]
      BY <3>2, ReadAhead
    <3>4. QED
      BY <3>1, <3>3
  <2>2. QED
    BY <1>6, <2>1
<1>9. PICK y \in Int : y = c.data[1] /\ y = f[m + 1]
  <2>1. m + 1 \in 1 .. n /\ p + (m + 1) = (p + m) + 1
    BY <1>2
  <2>2. f[m + 1] = b.mem[(p + m) + 1] /\ f[m + 1] \in Int
    BY <1>3, <1>5, <2>1
  <2>3. QED
    BY <1>8, <2>2
<1>10. PICK g \in Nat \ {0}, d \in Nat \ {0} : g = Pow2[Group] /\ d = Pow2[m * Group]
  <2>1. PICK k : k = m * Group
    OBVIOUS
  <2>2. k \in Nat /\ Group \in Nat
    BY <2>1
  <2>3. Pow2[Group] \in Nat \ {0} /\ Pow2[k] \in Nat \ {0}
    BY <2>2, Doubling
  <2>4. QED
    BY <2>1, <2>3
<1>11. y % g = (v \div d) % g /\ (y >= g <=> m + 1 < n)
  <2>1. m \in 0 .. n - 1
    BY <1>2
  <2>2. QED
    BY <1>2, <1>3, <1>9, <1>10, <2>1, VarBytesAre
<1>12. Pow2[(m + 1) * Group] = d * g
  <2>1. (m + 1) * Group = m * Group + Group /\ m * Group \in Nat
    OBVIOUS
  <2>2. QED
    BY <1>10, <2>1, Powers
<1>13. (r.value + (y % g) * d) % Pow2[Bits] = v % Pow2[(m + 1) * Group]
  <2>1. v \in Nat /\ v < Pow2[Bits] /\ Pow2[Bits] \in Nat \ {0}
    <3>1. PICK w \in Nat \ {0} : w = Pow2[Bits]
      BY Doubling
    <3>2. v \in 0 .. w - 1
      BY <3>1 DEF Uint32
    <3>3. QED
      BY <3>1, <3>2
  <2>2. v % (d * g) = (v % d) + ((v \div d) % g) * d /\ d * g \in Nat \ {0}
    BY <2>1, Splitting
  <2>3. PICK x \in Nat, k \in Nat \ {0} : k = d * g /\ x = v % k /\ x <= v
    <3>1. PICK k \in Nat \ {0} : k = d * g
      BY <2>2
    <3>2. PICK q \in Nat, x \in 0 .. k - 1 : q = v \div k /\ x = v % k /\ v = q * k + x
      BY <2>1, Quotient
    <3>3. q * k \in Nat
      OBVIOUS
    <3>4. x \in Nat /\ x <= v
      BY <3>2, <3>3
    <3>5. QED
      BY <3>1, <3>2, <3>4
  <2>4. r.value + (y % g) * d = x
    BY <1>1, <1>10, <1>11, <2>2, <2>3
  <2>5. PICK w \in Nat \ {0} : w = Pow2[Bits] /\ x \in 0 .. w - 1
    BY <2>1, <2>3
  <2>6. (0 * w + x) % w = x
    BY <2>5, QuotientOf
  <2>7. 0 * w + x = x
    BY <2>5
  <2>8. QED
    BY <1>12, <2>3, <2>4, <2>5, <2>6, <2>7
<1>14. VarStep(r) = [ba |-> c.ba, value |-> (r.value + (y % g) * d) % Pow2[Bits],
                      shift |-> m * Group + Group, more |-> y >= g]
  <2>1. c.data # <<>>
    BY <1>8
  <2>2. QED
    BY <1>1, <1>7, <1>9, <1>10, <2>1 DEF VarStep
<1>15. VarStep(r).ba = c.ba /\ VarStep(r).value = v % Pow2[(m + 1) * Group]
       /\ VarStep(r).shift = m * Group + Group /\ VarStep(r).more = (m + 1 < n)
  BY <1>11, <1>13, <1>14
<1>16. Ready(c.ba) /\ c.ba.pos = p + (m + 1)
  <2>1. c.ba.pos < BaseSize
    BY <1>15
  <2>2. c.ba.pos = (p + m) + 1
    BY <1>6, <1>8 DEF Further
  <2>3. QED
    BY <1>8, <2>1, <2>2 DEF Further
<1>17. m * Group + Group = (m + 1) * Group
  OBVIOUS
<1>18. QED
  BY <1>2, <1>4, <1>15, <1>16, <1>17 DEF VarAt

\* read_var_uint32() of a varint that lies ahead.
LEMMA VarAhead ==
    ASSUME NEW b, Ready(b), NEW v \in Uint32, Ahead(VarBytes(v), b)
    PROVE  /\ Reads(ReadVar(b).ba, b, Len(VarBytes(v)))
           /\ ReadVar(b).ba.pos < BaseSize => ReadVar(b).value = v
<1>1. b \in Arrays /\ b.ok /\ ~b.thrown /\ b.pos \in Nat /\ b.pos < BaseSize
  BY ArrayFacts DEF Ready
<1>2. PICK n \in Nat \ {0}, w \in Nat \ {0} : n = VarLen(v) /\ w = VarMost /\ n <= w /\ Len(VarBytes(v)) = n
  BY VarBytesAre, VarMostIsNumber
<1>3. PICK f : /\ f[0] = [ba |-> b, value |-> 0, shift |-> 0, more |-> TRUE] /\ f[0] \in VarReaders(b)
               /\ \A i \in 1 .. w : f[i] = VarStep(f[i - 1]) /\ f[i] \in VarReaders(b)
               /\ ReadVar(b) = f[w]
  BY <1>1, <1>2, VarUnrolled
<1>4. PICK G : G = { i \in 0 .. w : /\ f[i] \in VarReaders(b)
                                    /\ f[i].ba.pos < BaseSize => VarAt(f[i], b, v, Least(i, n)) }
  OBVIOUS
<1>5. 0 \in G
  <2>1. f[0].ba = b /\ f[0].value = 0 /\ f[0].shift = 0 /\ f[0].more = TRUE
    BY <1>3
  <2>2. Least(0, n) = 0
    BY DEF Least
  <2>3. 0 * Group = 0 /\ Pow2[0 * Group] = 1
    BY Doubling
  <2>4. v \in Nat /\ v % 1 = 0
    BY VarLenOf
  <2>5. VarAt(f[0], b, v, 0)
    <3>1. b.pos = b.pos + 0 /\ (0 < VarLen(v)) = TRUE /\ Ready(b)
      BY <1>1, <1>2
    <3>2. f[0].value = v % Pow2[0 * Group]
      BY <2>1, <2>3, <2>4
    <3>3. QED
      BY <2>1, <2>3, <3>1, <3>2, Zenon DEF VarAt
  <2>6. QED
    BY <1>3, <1>4, <2>2, <2>5
<1>6. ASSUME NEW i \in 0 .. w - 1, i \in G PROVE i + 1 \in G
  <2>1. i + 1 \in 1 .. w /\ i + 1 \in 0 .. w /\ (i + 1) - 1 = i /\ i \in Nat
    OBVIOUS
  <2>2. PICK r \in VarReaders(b) : r = f[i] /\ (r.ba.pos < BaseSize => VarAt(r, b, v, Least(i, n)))
    BY <1>4, <1>6
  <2>3. f[i + 1] = VarStep(r) /\ f[i + 1] \in VarReaders(b)
    BY <1>3, <2>1, <2>2
  <2>4. SUFFICES ASSUME VarStep(r).ba.pos < BaseSize PROVE VarAt(VarStep(r), b, v, Least(i + 1, n))
    BY <1>4, <2>1, <2>3
  <2>5. r.ba.pos < BaseSize
    <3>1. r \in [ba : From(b), value : Nat, shift : Nat, more : BOOLEAN] /\ r.ba \in Arrays
      BY DEF VarReaders, From
    <3>2. r \in VarReaders(r.ba)
      BY <3>1, FromItself DEF VarReaders
    <3>3. VarStep(r) \in VarReaders(r.ba)
      BY <3>1, <3>2, VarReader
    <3>4. VarStep(r).ba \in Arrays /\ r.ba.pos <= VarStep(r).ba.pos
      BY <3>3 DEF VarReaders, From
    <3>5. r.ba.pos \in Nat /\ VarStep(r).ba.pos \in Nat
      BY <3>1, <3>4, ArrayFacts
    <3>6. QED
      BY <2>4, <3>4, <3>5
  <2>6. VarAt(r, b, v, Least(i, n))
    BY <2>2, <2>5
  <2>7. CASE i < n
    <3>1. Least(i, n) = i /\ Least(i + 1, n) = i + 1
      BY <2>1, <2>7 DEF Least
    <3>2. VarAt(VarStep(r), b, v, i + 1)
      <4>1. i < VarLen(v) /\ VarAt(r, b, v, i)
        BY <1>2, <2>6, <2>7, <3>1
      <4>2. QED
        BY <2>1, <2>4, <4>1, VarStepAhead
    <3>3. QED
      BY <3>1, <3>2
  <2>8. CASE ~(i < n)
    <3>1. Least(i, n) = n /\ Least(i + 1, n) = n
      BY <2>1, <2>8 DEF Least
    <3>2. ~r.more
      <4>1. VarAt(r, b, v, n) /\ ~(n < VarLen(v))
        BY <1>2, <2>6, <3>1
      <4>2. QED
        BY <4>1, Zenon DEF VarAt
    <3>3. VarStep(r) = r
      BY <3>2 DEF VarStep
    <3>4. QED
      BY <2>6, <3>1, <3>3
  <2>9. QED
    BY <2>7, <2>8
<1>7. w \in G
  <2>1. w \in 0 .. w
    OBVIOUS
  <2>2. QED
    BY <1>5, <1>6, <2>1, Climbs
<1>8. PICK c : c = ReadVar(b) /\ c \in VarReaders(b) /\ (c.ba.pos < BaseSize => VarAt(c, b, v, n))
  <2>1. Least(w, n) = n
    BY <1>2 DEF Least
  <2>2. QED
    BY <1>3, <1>4, <1>7, <2>1
<1>9. c.ba \in From(b)
  BY <1>8 DEF VarReaders
<1>10. ASSUME c.ba.pos < BaseSize PROVE c.ba.pos = b.pos + n /\ Ready(c.ba) /\ c.value = v
  <2>1. c.ba.pos = b.pos + n /\ Ready(c.ba) /\ c.value = v % Pow2[n * Group]
    BY <1>8, <1>10 DEF VarAt
  <2>2. PICK k \in Nat \ {0} : k = Pow2[n * Group] /\ v < k
    <3>1. Pow2[n * Group] \in Nat \ {0}
      BY Doubling
    <3>2. QED
      BY <1>2, <3>1, VarBytesAre
  <2>3. v \in 0 .. k - 1
    BY <2>2, VarLenOf
  <2>4. (0 * k + v) % k = v /\ 0 * k + v = v
    BY <2>3, QuotientOf
  <2>5. QED
    BY <2>1, <2>2, <2>4
<1>11. QED
  BY <1>2, <1>8, <1>9, <1>10 DEF Reads

-----------------------------------------------------------------------------
\* A reader that read n bytes and has the values s, unless it is past the block.
Taken(r, b, n, s) == Reads(r.ba, b, n) /\ (r.ba.pos < BaseSize => r.value = s)

\* A reader after one more step, of n bytes and the values t.
LEMMA Advances ==
    ASSUME NEW b \in Arrays, NEW r, NEW m \in Nat, NEW s, Taken(r, b, m, s),
           NEW q, NEW n \in Nat, NEW u, q.ba \in From(r.ba),
           Ready(r.ba) /\ r.value = s => Taken(q, r.ba, n, u)
    PROVE  Taken(q, b, m + n, u)
<1>1. r.ba \in From(b) /\ r.ba \in Arrays /\ Reads(r.ba, b, m)
  BY DEF Taken, Reads, From
<1>2. r.ba.pos < BaseSize => Taken(q, r.ba, n, u)
  BY <1>1 DEF Taken, Reads
<1>3. Reads(q.ba, b, m + n)
  BY <1>1, <1>2, ReadsOn DEF Taken
<1>4. ASSUME q.ba.pos < BaseSize PROVE q.value = u
  <2>1. q.ba \in Arrays /\ r.ba.pos <= q.ba.pos
    BY DEF From
  <2>2. r.ba.pos \in Nat /\ q.ba.pos \in Nat
    BY <1>1, <2>1, ArrayFacts
  <2>3. r.ba.pos < BaseSize
    BY <1>4, <2>1, <2>2
  <2>4. QED
    BY <1>2, <1>4, <2>3 DEF Taken
<1>5. QED
  BY <1>3, <1>4 DEF Taken

\* A value appended to those taken, if nothing went wrong.
LEMMA TookOne ==
    ASSUME NEW r, NEW b, r.ba = b, NEW c, NEW n, Reads(c, b, n), NEW v, NEW w, c.pos < BaseSize => v = w
    PROVE  Taken(Took(r, c, v), b, n, Append(r.value, w))
<1>1. Took(r, c, v).ba = c
  BY DEF Took
<1>2. ASSUME c.pos < BaseSize PROVE Took(r, c, v).value = Append(r.value, w)
  <2>1. c.ok /\ ~c.thrown
    BY <1>2 DEF Reads, Ready
  <2>2. QED
    BY <1>2, <2>1 DEF Took
<1>3. QED
  BY <1>1, <1>2 DEF Taken

\* The number one or two bytes make.
LEMMA FixValueIs ==
    ASSUME NEW s \in Seq(Int)
    PROVE  /\ Len(s) = 1 => FixValue(s) = s[1]
           /\ Len(s) = 2 => FixValue(s) = s[1] * Radix + s[2]
<1>1. PICK x \in Nat \ {0} : x = Radix
  BY RadixIsNumber
<1>2. PICK f : f = CHOOSE h : h = [i \in 0 .. Len(s) |-> IF i = 0 THEN 0 ELSE h[i - 1] * Radix + s[i]]
  OBVIOUS
<1>3. FixValue(s) = f[Len(s)]
  BY <1>2, Zenon DEF FixValue
<1>4. ASSUME Len(s) = 1 PROVE FixValue(s) = s[1]
  <2>1. PICK g : g = [i \in 0 .. 1 |-> IF i = 0 THEN 0 ELSE s[1]]
    OBVIOUS
  <2>2. g = [i \in 0 .. Len(s) |-> IF i = 0 THEN 0 ELSE g[i - 1] * Radix + s[i]]
    <3>1. s[1] \in Int /\ 0 * Radix + s[1] = s[1]
      BY <1>1, <1>4
    <3>2. \A i \in 0 .. 1 : i = 0 \/ i = 1
      OBVIOUS
    <3>3. g[0] = 0 /\ g[1] = s[1]
      BY <2>1
    <3>4. \A i \in 0 .. 1 : g[i] = IF i = 0 THEN 0 ELSE g[i - 1] * Radix + s[i]
      BY <3>1, <3>2, <3>3
    <3>5. QED
      BY <1>4, <2>1, <3>4
  <2>3. f = [i \in 0 .. Len(s) |-> IF i = 0 THEN 0 ELSE f[i - 1] * Radix + s[i]]
    BY <1>2, <2>2, Zenon
  <2>4. f[0] = 0 /\ f[1] = f[0] * Radix + s[1]
    BY <1>4, <2>3
  <2>5. QED
    BY <1>1, <1>3, <1>4, <2>4
<1>5. ASSUME Len(s) = 2 PROVE FixValue(s) = s[1] * Radix + s[2]
  <2>1. PICK g : g = [i \in 0 .. 2 |-> IF i = 0 THEN 0 ELSE IF i = 1 THEN s[1] ELSE s[1] * Radix + s[2]]
    OBVIOUS
  <2>2. g = [i \in 0 .. Len(s) |-> IF i = 0 THEN 0 ELSE g[i - 1] * Radix + s[i]]
    <3>1. s[1] \in Int /\ 0 * Radix + s[1] = s[1]
      BY <1>1, <1>5
    <3>2. \A i \in 0 .. 2 : i = 0 \/ i = 1 \/ i = 2
      OBVIOUS
    <3>3. g[0] = 0 /\ g[1] = s[1] /\ g[2] = s[1] * Radix + s[2]
      BY <2>1
    <3>4. \A i \in 0 .. 2 : g[i] = IF i = 0 THEN 0 ELSE g[i - 1] * Radix + s[i]
      BY <3>1, <3>2, <3>3
    <3>5. QED
      BY <1>5, <2>1, <3>4
  <2>3. f = [i \in 0 .. Len(s) |-> IF i = 0 THEN 0 ELSE f[i - 1] * Radix + s[i]]
    BY <1>2, <2>2, Zenon
  <2>4. f[0] = 0 /\ f[1] = f[0] * Radix + s[1] /\ f[2] = f[1] * Radix + s[2]
    BY <1>5, <2>3
  <2>5. s[1] \in Int /\ 0 * Radix + s[1] = s[1]
    BY <1>1, <1>5
  <2>6. QED
    BY <1>3, <1>5, <2>4, <2>5
<1>6. QED
  BY <1>4, <1>5

\* A remainder of a negative number.
LEMMA BelowZero ==
    ASSUME NEW d \in Nat \ {0}, NEW v \in Int, -d <= v, v < 0
    PROVE  v % d = v + d
OBVIOUS

\* readFint8() gives back what writeFint8() wrote, the sign included.
LEMMA Int8Back ==
    ASSUME NEW v \in Int8
    PROVE  Signed(FixValue(FixBytes(v, 1)), Group + 1) = v
<1>1. PICK h \in Nat \ {0}, x \in Nat \ {0} : h = Pow2[Group] /\ x = Radix /\ x = 2 * h /\ x = Pow2[Group + 1]
  BY Doubling DEF Radix
<1>2. v \in Int /\ -h <= v /\ v < h
  BY <1>1 DEF Int8
<1>3. FixBytes(v, 1) \in Seq(Int) /\ Len(FixBytes(v, 1)) = 1
  BY <1>2, FixBytesOf
<1>4. FixBytes(v, 1)[1] = v % x
  <2>1. (1 - 1) * (Group + 1) = 0 /\ Pow2[0] = 1 /\ v \div 1 = v
    BY <1>2, Doubling
  <2>2. 1 \in 1 .. 1
    OBVIOUS
  <2>3. FixBytes(v, 1)[1] = (v \div Pow2[(1 - 1) * (Group + 1)]) % Radix
    BY <2>2 DEF FixBytes
  <2>4. QED
    BY <1>1, <2>1, <2>3
<1>5. FixValue(FixBytes(v, 1)) = v % x
  BY <1>3, <1>4, FixValueIs
<1>6. (Group + 1) - 1 = Group
  OBVIOUS
<1>7. Signed(v % x, Group + 1) = IF v % x < h THEN v % x ELSE (v % x) - x
  BY <1>1, <1>6 DEF Signed
<1>8. CASE v >= 0
  <2>1. v \in 0 .. x - 1
    BY <1>1, <1>2, <1>8
  <2>2. (0 * x + v) % x = v /\ 0 * x + v = v
    BY <2>1, QuotientOf
  <2>3. QED
    BY <1>2, <1>5, <1>7, <2>2
<1>9. CASE v < 0
  <2>1. v % x = v + x
    BY <1>1, <1>2, <1>9, BelowZero
  <2>2. ~(v + x < h) /\ (v + x) - x = v
    BY <1>1, <1>2
  <2>3. QED
    BY <1>5, <1>7, <2>1, <2>2
<1>10. QED
  BY <1>2, <1>8, <1>9

\* readFuint16() gives back what writeFuint16() wrote.
LEMMA Uint16Back ==
    ASSUME NEW v \in Uint16
    PROVE  FixValue(FixBytes(v, 2)) = v
<1>1. PICK x \in Nat \ {0} : x = Radix /\ x = Pow2[Group + 1]
  BY RadixIsNumber DEF Radix
<1>2. v \in Nat /\ v < x * x
  BY <1>1 DEF Uint16
<1>3. PICK q \in Nat, r \in 0 .. x - 1 : q = v \div x /\ r = v % x /\ v = q * x + r
  BY <1>2, Quotient
<1>4. q \in 0 .. x - 1
  BY <1>2, <1>3, QuotientBelow
<1>5. (0 * x + q) % x = q /\ 0 * x + q = q
  BY <1>4, QuotientOf
<1>6. FixBytes(v, 2) \in Seq(Int) /\ Len(FixBytes(v, 2)) = 2
  <2>1. v \in Int /\ 2 \in Nat
    BY <1>2
  <2>2. QED
    BY <2>1, FixBytesOf
<1>7. FixBytes(v, 2)[1] = q /\ FixBytes(v, 2)[2] = r
  <2>1. (2 - 2) * (Group + 1) = 0 /\ (2 - 1) * (Group + 1) = Group + 1 /\ Pow2[0] = 1 /\ v \div 1 = v
    BY <1>2, Doubling
  <2>2. 1 \in 1 .. 2 /\ 2 \in 1 .. 2
    OBVIOUS
  <2>3. /\ FixBytes(v, 2)[1] = (v \div Pow2[(2 - 1) * (Group + 1)]) % Radix
        /\ FixBytes(v, 2)[2] = (v \div Pow2[(2 - 2) * (Group + 1)]) % Radix
    BY <2>2 DEF FixBytes
  <2>4. QED
    BY <1>1, <1>3, <1>5, <2>1, <2>3
<1>8. FixValue(FixBytes(v, 2)) = q * x + r
  BY <1>1, <1>6, <1>7, FixValueIs
<1>9. QED
  BY <1>3, <1>8

\* The readers of one value, each of which takes what its writer put.
LEMMA TakeVarAhead ==
    ASSUME NEW r, NEW b, r.ba = b, Ready(b), NEW v \in Uint32, Ahead(VarBytes(v), b)
    PROVE  Taken(TakeVar(r), b, Len(VarBytes(v)), Append(r.value, v))
<1>1. PICK c, w, n : c = ReadVar(b).ba /\ w = ReadVar(b).value /\ n = Len(VarBytes(v))
  OBVIOUS
<1>2. Reads(c, b, n) /\ (c.pos < BaseSize => w = v)
  BY <1>1, VarAhead
<1>3. TakeVar(r) = Took(r, c, w)
  BY <1>1 DEF TakeVar, Going, Ready
<1>4. Taken(Took(r, c, w), b, n, Append(r.value, v))
  BY <1>2, TookOne, Zenon
<1>5. QED
  BY <1>1, <1>3, <1>4

\* ... of a signed number, in zigzag.
LEMMA TakeZigzagAhead ==
    ASSUME NEW r, NEW b, r.ba = b, Ready(b), NEW v \in Int32, Ahead(VarBytes(EncodeZigzag(v)), b)
    PROVE  Taken(TakeZigzag(r), b, Len(VarBytes(EncodeZigzag(v))), Append(r.value, v))
<1>1. PICK u \in Uint32 : u = EncodeZigzag(v) /\ DecodeZigzag(u) = v
  <2>1. v \in Int
    BY Doubling DEF Int32
  <2>2. QED
    BY <2>1, ZigzagOf, ZigzagBack
<1>2. PICK c, w, n : c = ReadVar(b).ba /\ w = ReadVar(b).value /\ n = Len(VarBytes(u))
  OBVIOUS
<1>3. Reads(c, b, n) /\ (c.pos < BaseSize => DecodeZigzag(w) = v)
  BY <1>1, <1>2, VarAhead
<1>4. TakeZigzag(r) = Took(r, c, DecodeZigzag(w))
  BY <1>2 DEF TakeZigzag, Going, Ready
<1>5. Taken(Took(r, c, DecodeZigzag(w)), b, n, Append(r.value, v))
  BY <1>3, TookOne, Zenon
<1>6. QED
  BY <1>1, <1>2, <1>4, <1>5

\* ... of a byte with a sign.
LEMMA TakeInt8Ahead ==
    ASSUME NEW r, NEW b, r.ba = b, Ready(b), NEW v \in Int8, Ahead(FixBytes(v, 1), b)
    PROVE  Taken(TakeInt8(r), b, 1, Append(r.value, v)) /\ Len(FixBytes(v, 1)) = 1
<1>1. PICK s \in Seq(Int) : s = FixBytes(v, 1) /\ Len(s) = 1
  <2>1. v \in Int /\ 1 \in Nat
    BY Doubling DEF Int8
  <2>2. QED
    BY <2>1, FixBytesOf
<1>2. PICK c, d, w : c = Read(b, 1).ba /\ d = Read(b, 1).data /\ w = Signed(FixValue(d), Group + 1)
  OBVIOUS
<1>3. Reads(c, b, 1) /\ d = s
  <2>1. Reads(Read(b, Len(s)).ba, b, Len(s)) /\ Read(b, Len(s)).data = s
    BY <1>1, BytesAhead
  <2>2. QED
    BY <1>1, <1>2, <2>1
<1>4. w = v
  BY <1>1, <1>2, <1>3, Int8Back
<1>5. TakeInt8(r) = Took(r, c, w)
  BY <1>2 DEF TakeInt8, Going, Ready
<1>6. Taken(Took(r, c, w), b, 1, Append(r.value, v))
  BY <1>3, <1>4, TookOne, Zenon
<1>7. QED
  BY <1>1, <1>5, <1>6

\* readFuint16() and the single bytes of a frame's header.
LEMMA TakeFixAhead ==
    ASSUME NEW r, NEW b, r.ba = b, Ready(b), NEW s \in Seq(Int), Ahead(s, b), NEW n, n = Len(s)
    PROVE  Taken(TakeFix(r, n), b, n, Append(r.value, FixValue(s)))
<1>1. PICK c, d : c = Read(b, n).ba /\ d = Read(b, n).data
  OBVIOUS
<1>2. Reads(c, b, n) /\ d = s
  BY <1>1, BytesAhead
<1>3. TakeFix(r, n) = Took(r, c, FixValue(s))
  BY <1>1, <1>2 DEF TakeFix, Going, Ready
<1>4. Taken(Took(r, c, FixValue(s)), b, n, Append(r.value, FixValue(s)))
  BY <1>2, TookOne, Zenon
<1>5. QED
  BY <1>3, <1>4

\* The number of elements before a container or a string.
LEMMA TakeCountAhead ==
    ASSUME NEW b, NEW r \in Readers(b), r.ba = b, Ready(b), NEW v \in Uint32, Ahead(VarBytes(v), b)
    PROVE  /\ Taken(TakeCount(r).r, b, Len(VarBytes(v)), r.value)
           /\ TakeCount(r).r.ba.pos < BaseSize => TakeCount(r).count = v
<1>1. PICK c : c = ReadVar(b)
  OBVIOUS
<1>2. Reads(c.ba, b, Len(VarBytes(v))) /\ (c.ba.pos < BaseSize => c.value = v)
  BY <1>1, VarAhead
<1>3. PICK x : x = TakeCount(r)
  OBVIOUS
<1>4. /\ x.r = [r EXCEPT !.ba = c.ba]
      /\ x.count = IF c.ba.ok /\ ~c.ba.thrown THEN c.value ELSE 0
  BY <1>1, <1>3 DEF TakeCount
<1>5. x.r.ba = c.ba /\ x.r.value = r.value
  BY <1>4 DEF Readers
<1>6. c.ba.pos < BaseSize => c.ba.ok /\ ~c.ba.thrown
  BY <1>2 DEF Reads, Ready
<1>7. c.ba.pos < BaseSize => x.count = v
  BY <1>2, <1>4, <1>6
<1>8. QED
  BY <1>2, <1>3, <1>5, <1>7 DEF Taken

\* Bytes put together piece by piece: if all of them lie ahead, so do the first ones.
LEMMA AheadParts ==
    ASSUME NEW b \in Arrays, NEW n \in Nat, NEW g, \A i \in 0 .. n : g[i] \in Seq(Int),
           \A i \in 1 .. n : \E t \in Seq(Int) : g[i] = g[i - 1] \o t, Ahead(g[n], b)
    PROVE  \A i \in 0 .. n : Ahead(g[i], b)
<1>1. PICK G : G = { k \in 0 .. n : Ahead(g[n - k], b) }
  OBVIOUS
<1>2. 0 \in G
  <2>1. 0 \in 0 .. n /\ n - 0 = n
    OBVIOUS
  <2>2. QED
    BY <1>1, <2>1
<1>3. ASSUME NEW k \in 0 .. n - 1, k \in G PROVE k + 1 \in G
  <2>1. PICK i \in 1 .. n : i = n - k /\ i - 1 = n - (k + 1) /\ i - 1 \in 0 .. n /\ k + 1 \in 0 .. n
    OBVIOUS
  <2>2. PICK t \in Seq(Int) : g[i] = g[i - 1] \o t
    OBVIOUS
  <2>3. PICK s \in Seq(Int) : s = g[i - 1]
    BY <2>1
  <2>4. Ahead(s \o t, b)
    BY <1>1, <1>3, <2>1, <2>2, <2>3
  <2>5. Ahead(s, b)
    BY <2>4, AheadFurther
  <2>6. QED
    BY <1>1, <2>1, <2>3, <2>5
<1>4. \A k \in 0 .. n : k \in G
  BY <1>2, <1>3, Climbs
<1>5. SUFFICES ASSUME NEW i \in 0 .. n PROVE Ahead(g[i], b)
  OBVIOUS
<1>6. n - i \in 0 .. n /\ n - (n - i) = i
  OBVIOUS
<1>7. QED
  BY <1>1, <1>4, <1>6

\* The elements of a list that lie ahead.
LEMMA ZigzagsAhead ==
    ASSUME NEW b, Ready(b), NEW x \in Readers(b), x.ba = b, x.value = <<>>,
           NEW s \in Seq(Int32), Ahead(Varints(s), b)
    PROVE  Taken(Times(x, Len(s), TakeZigzag), b, Len(Varints(s)), s)
<1>1. PICK n \in Nat : n = Len(s)
  BY NonEmpty
<1>2. b \in Arrays
  BY DEF Ready
<1>3. PICK g : /\ g[0] = <<>> /\ g[0] \in Seq(Int)
               /\ \A i \in 1 .. n : g[i] = g[i - 1] \o VarBytes(EncodeZigzag(s[i]))
               /\ \A i \in 0 .. n : g[i] \in Seq(Int)
               /\ Varints(s) = g[n]
  BY <1>1, VarintsUnrolled
<1>4. PICK f : /\ f[0] = x /\ \A i \in 1 .. n : f[i] = TakeZigzag(f[i - 1])
               /\ Times(x, n, TakeZigzag) = f[n]
  BY <1>2, ZigzagUnrolled
<1>5. ASSUME NEW i \in 1 .. n
      PROVE  s[i] \in Int32 /\ VarBytes(EncodeZigzag(s[i])) \in Seq(Int)
  BY <1>1, ZigzagOf, VarBytesOf
<1>6. \A i \in 0 .. n : Ahead(g[i], b)
  <2>1. \A i \in 1 .. n : \E t \in Seq(Int) : g[i] = g[i - 1] \o t
    BY <1>3, <1>5
  <2>2. Ahead(g[n], b)
    BY <1>3
  <2>3. QED
    BY <1>2, <1>3, <2>1, <2>2, AheadParts
<1>7. PICK G : G = { i \in 0 .. n : f[i] \in Readers(b) /\ Taken(f[i], b, Len(g[i]), SubSeq(s, 1, i)) }
  OBVIOUS
<1>8. 0 \in G
  <2>1. 0 \in 0 .. n /\ SubSeq(s, 1, 0) = <<>> /\ Len(g[0]) = 0
    BY <1>3
  <2>2. b \in From(b) /\ b.pos = b.pos + 0
    BY <1>2, FromItself, ArrayFacts
  <2>3. Taken(x, b, 0, <<>>)
    BY <2>2 DEF Taken, Reads
  <2>4. QED
    BY <1>4, <1>7, <2>1, <2>3
<1>9. ASSUME NEW i \in 0 .. n - 1, i \in G PROVE i + 1 \in G
  <2>1. i + 1 \in 1 .. n /\ i + 1 \in 0 .. n /\ i \in 0 .. n /\ (i + 1) - 1 = i /\ i \in Nat
    OBVIOUS
  <2>2. PICK r \in Readers(b) : r = f[i] /\ Taken(r, b, Len(g[i]), SubSeq(s, 1, i))
    BY <1>7, <1>9
  <2>3. PICK v \in Int32, t \in Seq(Int) : v = s[i + 1] /\ t = VarBytes(EncodeZigzag(v))
    BY <1>5, <2>1
  <2>4. PICK h \in Seq(Int) : h = g[i] /\ g[i + 1] = h \o t /\ Ahead(h \o t, b)
    BY <1>3, <1>6, <2>1, <2>3
  <2>5. PICK q : q = TakeZigzag(r) /\ q = f[i + 1]
    BY <1>4, <2>1, <2>2
  <2>6. q \in Readers(b) /\ q.ba \in From(r.ba) /\ r.ba \in Arrays
    <3>1. r.ba \in Arrays /\ r \in Readers(r.ba)
      BY FromItself DEF Readers, From
    <3>2. q \in Readers(b)
      BY <1>2, <2>5, Reader
    <3>3. q \in Readers(r.ba)
      BY <2>5, <3>1, Reader
    <3>4. QED
      BY <3>1, <3>2, <3>3 DEF Readers
  <2>7. PICK y, z : y = SubSeq(s, 1, i) /\ z = Append(y, v)
    OBVIOUS
  <2>8. ASSUME Ready(r.ba), r.value = y PROVE Taken(q, r.ba, Len(t), z)
    <3>1. r.ba \in From(b) /\ r.ba.pos = b.pos + Len(h)
      BY <2>2, <2>4, <2>8 DEF Taken, Reads, Ready
    <3>2. Ahead(t, r.ba)
      BY <1>2, <2>4, <3>1, AheadFurther
    <3>3. PICK a : a = r.ba
      OBVIOUS
    <3>4. Taken(q, a, Len(t), Append(r.value, v))
      BY <2>3, <2>5, <2>8, <3>2, <3>3, TakeZigzagAhead
    <3>5. QED
      BY <2>7, <2>8, <3>3, <3>4
  <2>9. Taken(q, b, Len(h) + Len(t), z)
    <3>1. Len(h) \in Nat /\ Len(t) \in Nat
      OBVIOUS
    <3>2. Taken(r, b, Len(h), y)
      BY <2>2, <2>4, <2>7
    <3>3. Ready(r.ba) /\ r.value = y => Taken(q, r.ba, Len(t), z)
      BY <2>8
    <3>4. q.ba \in From(r.ba)
      BY <2>6
    <3>5. QED
      BY <1>2, <3>1, <3>2, <3>3, <3>4, Advances, Zenon
  <2>10. Len(h) + Len(t) = Len(g[i + 1])
    BY <2>4, Joining
  <2>11. z = SubSeq(s, 1, i + 1)
    BY <1>1, <2>1, <2>3, <2>7
  <2>12. QED
    BY <1>7, <2>1, <2>5, <2>6, <2>9, <2>10, <2>11
<1>10. n \in G
  <2>1. n \in 0 .. n
    OBVIOUS
  <2>2. QED
    BY <1>8, <1>9, <2>1, Climbs
<1>11. SubSeq(s, 1, n) = s
  BY <1>1
<1>12. QED
  BY <1>1, <1>3, <1>4, <1>7, <1>10, <1>11

\* A string that lies ahead.
LEMMA StringAhead ==
    ASSUME NEW b, Ready(b), NEW r \in Readers(b), r.ba = b, r.value = <<>>,
           NEW s \in Seq(Int), Len(s) \in Uint32, Ahead(StringBytes(s), b)
    PROVE  Taken(TakeString(r), b, Len(StringBytes(s)), s)
<1>1. b \in Arrays
  BY DEF Ready
<1>2. PICK n \in Uint32, h \in Seq(Int) : n = Len(s) /\ h = VarBytes(n)
  BY VarBytesOf
<1>3. StringBytes(s) = h \o s /\ Len(StringBytes(s)) = Len(h) + Len(s) /\ Len(h) \in Nat /\ Len(s) \in Nat
  BY <1>2, Joining DEF StringBytes
<1>4. Ahead(h, b) /\ \A c \in From(b) : c.pos = b.pos + Len(h) => Ahead(s, c)
  BY <1>1, <1>3, AheadFurther
<1>5. PICK x, k : x = TakeCount(r).r /\ k = TakeCount(r).count
  OBVIOUS
<1>6. Taken(x, b, Len(h), <<>>) /\ (x.ba.pos < BaseSize => k = n)
  BY <1>2, <1>4, <1>5, TakeCountAhead
<1>7. x \in Readers(b) /\ k \in Nat /\ x.ba \in Arrays
  <2>1. x \in Readers(b) /\ k \in Nat
    BY <1>1, <1>5, Reader
  <2>2. QED
    BY <2>1 DEF Readers, From
<1>8. PICK q : q = TakeString(r)
  OBVIOUS
<1>9. q = IF Going(x) THEN [ba |-> Read(x.ba, k).ba, value |-> Read(x.ba, k).data] ELSE x
  BY <1>5, <1>8 DEF TakeString
<1>10. q.ba \in From(x.ba)
  <2>1. Read(x.ba, k).ba \in From(x.ba) /\ x.ba \in From(x.ba)
    BY <1>7, ReadFrom, FromItself
  <2>2. QED
    BY <1>9, <2>1
<1>11. Ready(x.ba) /\ x.value = <<>> => Taken(q, x.ba, Len(s), s)
  <2>1. SUFFICES ASSUME Ready(x.ba) PROVE Taken(q, x.ba, Len(s), s)
    OBVIOUS
  <2>2. x.ba.pos < BaseSize /\ Going(x)
    BY <2>1 DEF Ready, Going
  <2>3. x.ba \in From(b) /\ x.ba.pos = b.pos + Len(h) /\ k = Len(s)
    BY <1>2, <1>6, <2>2 DEF Taken, Reads
  <2>4. Ahead(s, x.ba)
    BY <1>4, <2>3
  <2>5. PICK a : a = x.ba
    OBVIOUS
  <2>6. Reads(Read(a, Len(s)).ba, a, Len(s)) /\ Read(a, Len(s)).data = s
    BY <2>1, <2>4, <2>5, BytesAhead
  <2>7. q.ba = Read(a, Len(s)).ba /\ q.value = Read(a, Len(s)).data
    BY <1>9, <2>2, <2>3, <2>5
  <2>8. QED
    BY <2>5, <2>6, <2>7 DEF Taken
<1>12. Taken(q, b, Len(h) + Len(s), s)
  BY <1>1, <1>3, <1>6, <1>10, <1>11, Advances, Zenon
<1>13. QED
  BY <1>3, <1>8, <1>12

\* A list that lies ahead.
LEMMA ListAhead ==
    ASSUME NEW b, Ready(b), NEW r \in Readers(b), r.ba = b, r.value = <<>>,
           NEW s \in Seq(Int32), Len(s) \in Uint32, Ahead(SequenceBytes(s), b)
    PROVE  Taken(TakeList(r), b, Len(SequenceBytes(s)), s)
<1>1. b \in Arrays
  BY DEF Ready
<1>2. PICK n \in Uint32, h \in Seq(Int), t \in Seq(Int) : n = Len(s) /\ h = VarBytes(n) /\ t = Varints(s)
  BY VarBytesOf, VarintsOf
<1>3. SequenceBytes(s) = h \o t /\ Len(SequenceBytes(s)) = Len(h) + Len(t) /\ Len(h) \in Nat /\ Len(t) \in Nat
  BY <1>2, Joining DEF SequenceBytes
<1>4. Ahead(h, b) /\ \A c \in From(b) : c.pos = b.pos + Len(h) => Ahead(t, c)
  BY <1>1, <1>3, AheadFurther
<1>5. PICK x, k : x = TakeCount(r).r /\ k = TakeCount(r).count
  OBVIOUS
<1>6. Taken(x, b, Len(h), <<>>) /\ (x.ba.pos < BaseSize => k = n)
  BY <1>2, <1>4, <1>5, TakeCountAhead
<1>7. x \in Readers(b) /\ k \in Nat /\ x.ba \in Arrays /\ x \in Readers(x.ba)
  <2>1. x \in Readers(b) /\ k \in Nat
    BY <1>1, <1>5, Reader
  <2>2. x.ba \in Arrays
    BY <2>1 DEF Readers, From
  <2>3. QED
    BY <2>1, <2>2, FromItself DEF Readers
<1>8. PICK q : q = TakeList(r)
  OBVIOUS
<1>9. q = Times(x, k, TakeZigzag)
  BY <1>5, <1>8, Zenon DEF TakeList
<1>10. q.ba \in From(x.ba)
  <2>1. q \in Readers(x.ba)
    BY <1>7, <1>9, ZigzagTimes
  <2>2. QED
    BY <2>1 DEF Readers
<1>11. Ready(x.ba) /\ x.value = <<>> => Taken(q, x.ba, Len(t), s)
  <2>1. SUFFICES ASSUME Ready(x.ba), x.value = <<>> PROVE Taken(q, x.ba, Len(t), s)
    OBVIOUS
  <2>2. x.ba.pos < BaseSize
    BY <2>1 DEF Ready
  <2>3. x.ba \in From(b) /\ x.ba.pos = b.pos + Len(h) /\ k = Len(s)
    BY <1>2, <1>6, <2>2 DEF Taken, Reads
  <2>4. PICK a : a = x.ba
    OBVIOUS
  <2>5. Ahead(Varints(s), a) /\ Ready(a) /\ x \in Readers(a)
    BY <1>2, <1>4, <1>7, <2>1, <2>3, <2>4
  <2>6. Taken(Times(x, Len(s), TakeZigzag), a, Len(Varints(s)), s)
    BY <2>1, <2>4, <2>5, ZigzagsAhead
  <2>7. QED
    BY <1>2, <1>9, <2>3, <2>4, <2>6
<1>12. Taken(q, b, Len(h) + Len(t), s)
  BY <1>1, <1>3, <1>6, <1>10, <1>11, Advances, Zenon
<1>13. QED
  BY <1>3, <1>8, <1>12

\* An empty map: its size only.
LEMMA EmptyMapAhead ==
    ASSUME NEW b, Ready(b), NEW r \in Readers(b), r.ba = b, r.value = <<>>, Ahead(MapBytes(<<>>), b)
    PROVE  Taken(TakeMap(r), b, Len(MapBytes(<<>>)), <<>>)
<1>1. b \in Arrays
  BY DEF Ready
<1>2. 0 \in Uint32 /\ MapBytes(<<>>) = VarBytes(0)
  <2>1. Len(<<>>) \div 2 = 0
    OBVIOUS
  <2>2. QED
    BY <2>1, Doubling DEF MapBytes, Uint32
<1>3. PICK x, k, n : x = TakeCount(r).r /\ k = TakeCount(r).count /\ n = Len(VarBytes(0)) /\ n = Len(MapBytes(<<>>))
  BY <1>2
<1>4. Taken(x, b, n, <<>>) /\ (x.ba.pos < BaseSize => k = 0)
  BY <1>2, <1>3, TakeCountAhead
<1>5. x \in Readers(b) /\ k \in Nat /\ x.ba \in Arrays /\ x \in Readers(x.ba)
  <2>1. x \in Readers(b) /\ k \in Nat
    BY <1>1, <1>3, Reader
  <2>2. x.ba \in Arrays
    BY <2>1 DEF Readers, From
  <2>3. QED
    BY <2>1, <2>2, FromItself DEF Readers
<1>6. PICK q : q = TakeMap(r)
  OBVIOUS
<1>7. PICK m \in Nat : m = 2 * k
  BY <1>5
<1>8. q = Times(x, m, TakeVar)
  BY <1>3, <1>6, <1>7, Zenon DEF TakeMap
<1>9. q.ba \in From(x.ba)
  <2>1. q \in Readers(x.ba)
    BY <1>5, <1>8, VarTimes
  <2>2. QED
    BY <2>1 DEF Readers
<1>10. k = 0 => q = x
  <2>1. SUFFICES ASSUME k = 0 PROVE q = x
    OBVIOUS
  <2>2. m = 0
    BY <1>7, <2>1
  <2>3. PICK f : /\ f[0] = x /\ \A i \in 1 .. m : f[i] = TakeVar(f[i - 1])
                 /\ Times(x, m, TakeVar) = f[m]
    BY <1>5, VarTimesUnrolled
  <2>4. QED
    BY <1>8, <2>2, <2>3
<1>11. Taken(q, b, n, <<>>)
  <2>1. CASE x.ba.pos < BaseSize
    BY <1>4, <1>10, <2>1
  <2>2. CASE ~(x.ba.pos < BaseSize)
    <3>1. q.ba \in Arrays /\ x.ba.pos <= q.ba.pos /\ x.ba \in From(b)
      BY <1>5, <1>9 DEF From, Readers
    <3>2. x.ba.pos \in Nat /\ q.ba.pos \in Nat
      BY <1>5, <3>1, ArrayFacts
    <3>3. ~(q.ba.pos < BaseSize)
      BY <2>2, <3>1, <3>2
    <3>4. q.ba \in From(b)
      BY <1>1, <1>9, <3>1, FromFrom
    <3>5. QED
      BY <3>3, <3>4 DEF Taken, Reads
  <2>3. QED
    BY <2>1, <2>2
<1>12. QED
  BY <1>3, <1>6, <1>11

\* What Append makes of a sequence.
LEMMA AppendOf ==
    ASSUME NEW s \in Seq(Int), NEW w \in Int
    PROVE  /\ Append(s, w) \in Seq(Int) /\ Len(Append(s, w)) = Len(s) + 1
           /\ Append(s, w)[Len(s) + 1] = w /\ \A i \in 1 .. Len(s) : Append(s, w)[i] = s[i]
OBVIOUS

\* Values taken one by one.
LEMMA OneByOne ==
    ASSUME NEW v \in Int, NEW w \in Int
    PROVE  Append(<<>>, v) = <<v>> /\ Append(<<v>>, w) = <<v, w>>
<1>1. PICK s : s = <<v>>
  BY Zenon
<1>2. s \in Seq(Int) /\ Len(s) = 1 /\ s[1] = v
  BY <1>1
<1>3. Append(<<>>, v) = s
  <2>1. <<>> \in Seq(Int) /\ Len(<<>>) = 0
    OBVIOUS
  <2>2. PICK e : e = <<>>
    BY Zenon
  <2>3. e \in Seq(Int) /\ Len(e) = 0
    BY <2>1, <2>2, Zenon
  <2>4. PICK u : u = Append(e, v)
    BY Zenon
  <2>5. u \in Seq(Int) /\ Len(u) = Len(e) + 1 /\ u[Len(e) + 1] = v
    BY <2>3, <2>4, AppendOf
  <2>6. Len(u) = 1 /\ u[1] = v
    BY <2>3, <2>5
  <2>7. \A i \in 1 .. 1 : u[i] = s[i]
    BY <1>2, <2>6
  <2>8. u = s
    BY <1>2, <2>5, <2>6, <2>7, SameElements
  <2>9. QED
    BY <2>2, <2>4, <2>8, Zenon
<1>4. Append(s, w) = <<v, w>>
  <2>1. PICK t : t = <<v, w>>
    BY Zenon
  <2>2. t \in Seq(Int) /\ Len(t) = 2 /\ t[1] = v /\ t[2] = w
    BY <2>1
  <2>3. PICK u : u = Append(s, w)
    BY Zenon
  <2>4. s \in Seq(Int)
    BY <1>2
  <2>5. u \in Seq(Int) /\ Len(u) = Len(s) + 1 /\ u[Len(s) + 1] = w /\ \A i \in 1 .. Len(s) : u[i] = s[i]
    BY <2>3, <2>4, AppendOf
  <2>6. Len(u) = 2 /\ u[1] = v /\ u[2] = w
    BY <1>2, <2>5
  <2>7. \A i \in 1 .. 2 : u[i] = t[i]
    BY <2>2, <2>6
  <2>8. u = t
    BY <2>2, <2>5, <2>6, <2>7, SameElements
  <2>9. QED
    BY <2>1, <2>3, <2>8, Zenon
<1>5. QED
  BY <1>1, <1>3, <1>4, Zenon

\* A tuple that lies ahead.
LEMMA TupleAhead ==
    ASSUME NEW b, Ready(b), NEW r \in Readers(b), r.ba = b, r.value = <<>>,
           NEW v \in Int8, NEW w \in Uint32, Ahead(FixBytes(v, 1) \o VarBytes(w), b)
    PROVE  Taken(TakeVar(TakeInt8(r)), b, Len(FixBytes(v, 1) \o VarBytes(w)), <<v, w>>)
<1>1. b \in Arrays
  BY DEF Ready
<1>2. PICK h \in Seq(Int), t \in Seq(Int) : h = FixBytes(v, 1) /\ t = VarBytes(w)
  <2>1. v \in Int /\ 1 \in Nat
    BY Doubling DEF Int8
  <2>2. QED
    BY <2>1, FixBytesOf, VarBytesOf
<1>3. Len(h \o t) = Len(h) + Len(t) /\ Len(h) \in Nat /\ Len(t) \in Nat
  BY Joining
<1>4. Ahead(h, b) /\ \A c \in From(b) : c.pos = b.pos + Len(h) => Ahead(t, c)
  BY <1>1, <1>2, AheadFurther
<1>5. PICK x : x = TakeInt8(r)
  OBVIOUS
<1>6. Taken(x, b, Len(h), Append(<<>>, v))
  BY <1>2, <1>4, <1>5, TakeInt8Ahead
<1>7. PICK y : y = Append(<<>>, v) /\ Append(y, w) = <<v, w>>
  <2>1. v \in Int /\ w \in Int
    BY Doubling DEF Int8, Uint32
  <2>2. QED
    BY <2>1, OneByOne
<1>8. PICK q : q = TakeVar(x)
  OBVIOUS
<1>9. x.ba \in From(b) /\ x.ba \in Arrays /\ q.ba \in From(x.ba)
  <2>1. x.ba \in From(b) /\ x.ba \in Arrays
    BY <1>6 DEF Taken, Reads, From
  <2>2. ReadVar(x.ba).ba \in From(x.ba) /\ x.ba \in From(x.ba)
    BY <2>1, VarRead, FromItself
  <2>3. QED
    BY <1>8, <2>1, <2>2 DEF TakeVar, Took
<1>10. Ready(x.ba) /\ x.value = y => Taken(q, x.ba, Len(t), <<v, w>>)
  <2>1. SUFFICES ASSUME Ready(x.ba), x.value = y PROVE Taken(q, x.ba, Len(t), <<v, w>>)
    OBVIOUS
  <2>2. x.ba.pos = b.pos + Len(h)
    BY <1>6, <2>1 DEF Taken, Reads, Ready
  <2>3. PICK a : a = x.ba /\ Ahead(t, a)
    BY <1>4, <1>9, <2>2
  <2>4. Taken(q, a, Len(t), Append(x.value, w))
    BY <1>2, <1>8, <2>1, <2>3, TakeVarAhead
  <2>5. Append(x.value, w) = <<v, w>>
    BY <1>7, <2>1
  <2>6. QED
    BY <2>3, <2>4, <2>5
<1>11. Taken(q, b, Len(h) + Len(t), <<v, w>>)
  <2>1. Taken(x, b, Len(h), y)
    BY <1>6, <1>7
  <2>2. QED
    BY <1>1, <1>3, <1>9, <1>10, <2>1, Advances, Zenon
<1>12. QED
  BY <1>2, <1>3, <1>5, <1>8, <1>11

\* Serializer::read() of a value that lies ahead, a map with elements excepted.
LEMMA DecodeAhead ==
    ASSUME NEW b, Ready(b), NEW it, Typed(it), it.type = "map" => it.value = <<>>, Ahead(Encode(it), b)
    PROVE  Taken(Decode(b, it.type), b, Len(Encode(it)), it.value)
<1>1. PICK v : v = it.value
  OBVIOUS
<1>2. b \in Arrays
  BY DEF Ready
<1>3. PICK r : r = [ba |-> b, value |-> <<>>]
  OBVIOUS
<1>4. r \in Readers(b) /\ r.ba = b /\ r.value = <<>>
  <2>1. <<>> \in Seq(Int) /\ b \in From(b)
    BY <1>2, FromItself
  <2>2. QED
    BY <1>3, <2>1 DEF Readers
<1>5. Decode(b, it.type) =
        CASE it.type = "int8"   -> TakeInt8(r)
          [] it.type = "uint16" -> TakeFix(r, 2)
          [] it.type = "uint32" -> TakeVar(r)
          [] it.type = "int32"  -> TakeZigzag(r)
          [] it.type = "string" -> TakeString(r)
          [] it.type = "list"   -> TakeList(r)
          [] it.type = "tuple"  -> TakeVar(TakeInt8(r))
          [] it.type = "map"    -> TakeMap(r)
  <2>1. [b EXCEPT !.thrown = FALSE] = b
    <3>1. b \in [mem : Seq(Int), pos : Nat, size : Nat, cur : Int, ok : BOOLEAN, thrown : BOOLEAN] /\ b.thrown = FALSE
      BY <1>2 DEF Arrays, Ready
    <3>2. QED
      BY <3>1
  <2>2. r = [ba |-> [b EXCEPT !.thrown = FALSE], value |-> <<>>]
    BY <1>3, <2>1
  <2>3. QED
    BY <2>2, Zenon DEF Decode
<1>6. ASSUME NEW S, NEW s \in Seq(S), Len(s) = 1, s[1] \in Int PROVE s = Append(<<>>, s[1])
  <2>1. PICK y \in Int : y = s[1]
    BY <1>6
  <2>2. Append(<<>>, y) = <<y>>
    BY OneByOne
  <2>3. s = <<y>>
    BY <1>6, <2>1
  <2>4. QED
    BY <2>1, <2>2, <2>3
<1>7. Int8 \subseteq Int /\ Uint16 \subseteq Int /\ Uint32 \subseteq Int /\ Int32 \subseteq Int
  BY Doubling DEF Int8, Uint16, Uint32, Int32
<1>8. CASE it.type = "int8"
  <2>1. v \in Seq(Int8) /\ Len(v) = 1 /\ v[1] \in Int8
    <3>1. v \in Seq(Int8) /\ Len(v) = 1
      BY <1>1, <1>8 DEF Typed
    <3>2. QED
      BY <3>1
  <2>2. Encode(it) = FixBytes(v[1], 1) /\ Decode(b, it.type) = TakeInt8(r)
    BY <1>1, <1>5, <1>8 DEF Encode
  <2>3. Taken(TakeInt8(r), b, 1, Append(r.value, v[1])) /\ Len(FixBytes(v[1], 1)) = 1
    BY <1>4, <2>1, <2>2, TakeInt8Ahead
  <2>4. v = Append(<<>>, v[1])
    BY <1>6, <1>7, <2>1
  <2>5. QED
    BY <1>1, <1>4, <2>2, <2>3, <2>4
<1>9. CASE it.type = "uint16"
  <2>1. v \in Seq(Uint16) /\ Len(v) = 1 /\ v[1] \in Uint16
    <3>1. v \in Seq(Uint16) /\ Len(v) = 1
      BY <1>1, <1>9 DEF Typed
    <3>2. QED
      BY <3>1
  <2>2. Encode(it) = FixBytes(v[1], 2) /\ Decode(b, it.type) = TakeFix(r, 2)
    BY <1>1, <1>5, <1>9 DEF Encode
  <2>3. PICK s \in Seq(Int) : s = FixBytes(v[1], 2) /\ Len(s) = 2 /\ FixValue(s) = v[1]
    <3>1. v[1] \in Int /\ 2 \in Nat
      BY <1>7, <2>1
    <3>2. FixBytes(v[1], 2) \in Seq(Int) /\ Len(FixBytes(v[1], 2)) = 2
      BY <3>1, FixBytesOf
    <3>3. FixValue(FixBytes(v[1], 2)) = v[1]
      BY <2>1, Uint16Back
    <3>4. QED
      BY <3>2, <3>3, Zenon
  <2>4. Taken(TakeFix(r, 2), b, 2, Append(r.value, v[1]))
    BY <1>4, <2>2, <2>3, TakeFixAhead
  <2>5. v = Append(<<>>, v[1])
    BY <1>6, <1>7, <2>1
  <2>6. QED
    BY <1>1, <1>4, <2>2, <2>3, <2>4, <2>5
<1>10. CASE it.type = "uint32"
  <2>1. v \in Seq(Uint32) /\ Len(v) = 1 /\ v[1] \in Uint32
    <3>1. v \in Seq(Uint32) /\ Len(v) = 1
      BY <1>1, <1>10 DEF Typed
    <3>2. QED
      BY <3>1
  <2>2. Encode(it) = VarBytes(v[1]) /\ Decode(b, it.type) = TakeVar(r)
    BY <1>1, <1>5, <1>10 DEF Encode
  <2>3. Taken(TakeVar(r), b, Len(VarBytes(v[1])), Append(r.value, v[1]))
    BY <1>4, <2>1, <2>2, TakeVarAhead
  <2>4. v = Append(<<>>, v[1])
    BY <1>6, <1>7, <2>1
  <2>5. QED
    BY <1>1, <1>4, <2>2, <2>3, <2>4
<1>11. CASE it.type = "int32"
  <2>1. v \in Seq(Int32) /\ Len(v) = 1 /\ v[1] \in Int32
    <3>1. v \in Seq(Int32) /\ Len(v) = 1
      BY <1>1, <1>11 DEF Typed
    <3>2. QED
      BY <3>1
  <2>2. Encode(it) = VarBytes(EncodeZigzag(v[1])) /\ Decode(b, it.type) = TakeZigzag(r)
    BY <1>1, <1>5, <1>11 DEF Encode
  <2>3. Taken(TakeZigzag(r), b, Len(VarBytes(EncodeZigzag(v[1]))), Append(r.value, v[1]))
    BY <1>4, <2>1, <2>2, TakeZigzagAhead
  <2>4. v = Append(<<>>, v[1])
    BY <1>6, <1>7, <2>1
  <2>5. QED
    BY <1>1, <1>4, <2>2, <2>3, <2>4
<1>12. CASE it.type = "string"
  <2>1. v \in Seq(0 .. Radix - 1) /\ Len(v) \in Uint32
    BY <1>1, <1>12 DEF Typed
  <2>2. v \in Seq(Int)
    <3>1. PICK B : B = 0 .. Radix - 1 /\ B \subseteq Int
      BY RadixIsNumber
    <3>2. v \in Seq(B)
      BY <2>1, <3>1
    <3>3. PICK n \in Nat : n = Len(v) /\ v \in [1 .. n -> B]
      BY <3>2
    <3>4. v \in [1 .. n -> Int]
      BY <3>1, <3>3
    <3>5. QED
      BY <3>4
  <2>3. Encode(it) = StringBytes(v) /\ Decode(b, it.type) = TakeString(r)
    BY <1>1, <1>5, <1>12 DEF Encode
  <2>4. QED
    BY <1>1, <1>4, <2>1, <2>2, <2>3, StringAhead
<1>13. CASE it.type = "list"
  <2>1. v \in Seq(Int32) /\ Len(v) \in Uint32
    BY <1>1, <1>13 DEF Typed
  <2>2. Encode(it) = SequenceBytes(v) /\ Decode(b, it.type) = TakeList(r)
    BY <1>1, <1>5, <1>13 DEF Encode
  <2>3. QED
    BY <1>1, <1>4, <2>1, <2>2, ListAhead
<1>14. CASE it.type = "tuple"
  <2>1. v \in Int8 \X Uint32
    BY <1>1, <1>14 DEF Typed
  <2>2. PICK x \in Int8, y \in Uint32 : v = <<x, y>>
    BY <2>1
  <2>3. v[1] = x /\ v[2] = y
    BY <2>2
  <2>4. Encode(it) = FixBytes(x, 1) \o VarBytes(y) /\ Decode(b, it.type) = TakeVar(TakeInt8(r))
    BY <1>1, <1>5, <1>14, <2>3 DEF Encode, TupleBytes
  <2>5. QED
    BY <1>1, <1>4, <2>2, <2>4, TupleAhead
<1>15. CASE it.type = "map"
  <2>1. v = <<>>
    BY <1>1, <1>15
  <2>2. Encode(it) = MapBytes(<<>>) /\ Decode(b, it.type) = TakeMap(r)
    BY <1>1, <1>5, <1>15, <2>1 DEF Encode
  <2>3. QED
    BY <1>1, <1>4, <2>1, <2>2, EmptyMapAhead
<1>16. QED
  BY <1>8, <1>9, <1>10, <1>11, <1>12, <1>13, <1>14, <1>15 DEF Typed

-----------------------------------------------------------------------------
\* A number of fixed width, taken whether or not it ends the block.
LEMMA FixTaken ==
    ASSUME NEW r, NEW b, r.ba = b, Ready(b), NEW s \in Seq(Int), Ahead(s, b), NEW n, n = Len(s)
    PROVE  TakeFix(r, n).value = Append(r.value, FixValue(s)) /\ Further(TakeFix(r, n).ba, b, n)
<1>1. PICK c, d : c = Read(b, n).ba /\ d = Read(b, n).data
  OBVIOUS
<1>2. Reads(c, b, n) /\ d = s /\ c.pos = b.pos + n /\ c.ok /\ ~c.thrown
  BY <1>1, BytesAhead
<1>3. TakeFix(r, n) = Took(r, c, FixValue(s))
  BY <1>1, <1>2 DEF TakeFix, Going, Ready
<1>4. TakeFix(r, n).ba = c /\ TakeFix(r, n).value = Append(r.value, FixValue(s))
  BY <1>2, <1>3 DEF Took
<1>5. Further(c, b, n)
  BY <1>2 DEF Reads, Further
<1>6. QED
  BY <1>4, <1>5

\* A single byte.
LEMMA ByteTaken ==
    ASSUME NEW r, NEW b, r.ba = b, Ready(b), NEW x \in Int, b.pos + 1 <= b.size, b.mem[b.pos + 1] = x
    PROVE  TakeFix(r, 1).value = Append(r.value, x) /\ Further(TakeFix(r, 1).ba, b, 1)
<1>1. PICK s : s = <<x>>
  BY Zenon
<1>2. s \in Seq(Int) /\ Len(s) = 1 /\ s[1] = x
  BY <1>1
<1>3. FixValue(s) = x
  BY <1>2, FixValueIs
<1>4. Ahead(s, b)
  <2>1. \A i \in 1 .. 1 : s[i] = b.mem[b.pos + i]
    BY <1>2
  <2>2. QED
    BY <1>2, <2>1 DEF Ahead
<1>5. PICK n : n = 1 /\ n = Len(s)
  BY <1>2
<1>6. TakeFix(r, n).value = Append(r.value, FixValue(s)) /\ Further(TakeFix(r, n).ba, b, n)
  BY <1>2, <1>4, <1>5, FixTaken
<1>7. QED
  BY <1>3, <1>5, <1>6, Zenon

\* The bytes of a frame: three of a header, two of a length, and the content.
LEMMA FrameBytes ==
    ASSUME NEW s \in Seq(Int), NEW n \in Nat, n = Len(s)
    PROVE  \E t \in Seq(Int), k \in Seq(Int) :
             /\ t = Header(2, 1, n) \o s /\ k = FixBytes(n, 2) /\ Len(t) = 5 + n /\ Len(k) = 2
             /\ t[1] = Magic /\ t[2] = 2 /\ t[3] = 1 /\ t[4] = k[1] /\ t[5] = k[2]
             /\ \A i \in 1 .. n : t[5 + i] = s[i]
<1>1. PICK f : f = FixBytes(n, 2)
  OBVIOUS
<1>2. f \in Seq(Int) /\ Len(f) = 2
  <2>1. n \in Int /\ 2 \in Nat
    OBVIOUS
  <2>2. QED
    BY <1>1, <2>1, FixBytesOf
<1>3. PICK a : a = <<Magic, 2, 1>>
  BY Zenon
<1>4. a \in Seq(Int) /\ Len(a) = 3 /\ a[1] = Magic /\ a[2] = 2 /\ a[3] = 1
  BY <1>3 DEF Magic
<1>5. PICK h : h = a \o f
  OBVIOUS
<1>6. /\ h \in Seq(Int) /\ Len(h) = Len(a) + Len(f)
      /\ \A i \in 1 .. Len(a) : h[i] = a[i]
      /\ \A i \in 1 .. Len(f) : h[Len(a) + i] = f[i]
  <2>1. a \in Seq(Int) /\ f \in Seq(Int)
    BY <1>2, <1>4
  <2>2. QED
    BY <1>5, <2>1, Joining
<1>7. Len(h) = 5 /\ h[1] = Magic /\ h[2] = 2 /\ h[3] = 1 /\ h[4] = f[1] /\ h[5] = f[2]
  <2>1. 1 \in 1 .. 3 /\ 2 \in 1 .. 3 /\ 3 \in 1 .. 3 /\ 1 \in 1 .. 2 /\ 2 \in 1 .. 2 /\ 3 + 1 = 4 /\ 3 + 2 = 5
    OBVIOUS
  <2>2. Len(h) = 5
    BY <1>2, <1>4, <1>6
  <2>3. h[1] = a[1] /\ h[2] = a[2] /\ h[3] = a[3]
    BY <1>4, <1>6, <2>1
  <2>4. h[4] = f[1] /\ h[5] = f[2]
    BY <1>2, <1>4, <1>6, <2>1
  <2>5. QED
    BY <1>4, <2>2, <2>3, <2>4
<1>8. PICK t : t = Header(2, 1, n) \o s /\ t = h \o s
  BY <1>1, <1>3, <1>5 DEF Header
<1>9. /\ t \in Seq(Int) /\ Len(t) = Len(h) + Len(s)
      /\ \A i \in 1 .. Len(h) : t[i] = h[i]
      /\ \A i \in 1 .. Len(s) : t[Len(h) + i] = s[i]
  <2>1. h \in Seq(Int) /\ s \in Seq(Int)
    BY <1>6
  <2>2. /\ h \o s \in Seq(Int) /\ Len(h \o s) = Len(h) + Len(s)
        /\ \A i \in 1 .. Len(h) : (h \o s)[i] = h[i]
        /\ \A i \in 1 .. Len(s) : (h \o s)[Len(h) + i] = s[i]
    BY <2>1, Joining
  <2>3. QED
    BY <1>8, <2>2, Zenon
<1>10. t[1] = h[1] /\ t[2] = h[2] /\ t[3] = h[3] /\ t[4] = h[4] /\ t[5] = h[5]
  <2>1. 1 \in 1 .. 5 /\ 2 \in 1 .. 5 /\ 3 \in 1 .. 5 /\ 4 \in 1 .. 5 /\ 5 \in 1 .. 5
    OBVIOUS
  <2>2. QED
    BY <1>7, <1>9, <2>1
<1>11. Len(t) = 5 + n /\ \A i \in 1 .. n : t[5 + i] = s[i]
  BY <1>7, <1>9
<1>12. t \in Seq(Int) /\ f \in Seq(Int) /\ Len(f) = 2
  BY <1>2, <1>9
<1>13. t[1] = Magic /\ t[2] = 2 /\ t[3] = 1 /\ t[4] = f[1] /\ t[5] = f[2]
  BY <1>7, <1>10
<1>14. QED
  BY <1>1, <1>8, <1>11, <1>12, <1>13, Zenon

\* Three bytes are taken one after the other.
LEMMA ThreeTimes ==
    ASSUME NEW x
    PROVE  Times(x, 3, LAMBDA q : TakeFix(q, 1)) = TakeFix(TakeFix(TakeFix(x, 1), 1), 1)
<1>1. PICK u, v, w : u = TakeFix(x, 1) /\ v = TakeFix(u, 1) /\ w = TakeFix(v, 1)
  OBVIOUS
<1>2. PICK g : g = [i \in 0 .. 3 |-> IF i = 0 THEN x ELSE IF i = 1 THEN u ELSE IF i = 2 THEN v ELSE w]
  OBVIOUS
<1>3. g[0] = x /\ g[1] = u /\ g[2] = v /\ g[3] = w
  BY <1>2
<1>4. \A i \in 0 .. 3 : i = 0 \/ i = 1 \/ i = 2 \/ i = 3
  OBVIOUS
<1>5. 1 - 1 = 0 /\ 2 - 1 = 1 /\ 3 - 1 = 2
  OBVIOUS
<1>6. \A i \in 0 .. 3 : g[i] = IF i = 0 THEN x ELSE TakeFix(g[i - 1], 1)
  BY <1>1, <1>3, <1>4, <1>5
<1>7. g = [i \in 0 .. 3 |-> IF i = 0 THEN x ELSE TakeFix(g[i - 1], 1)]
  BY <1>2, <1>6
<1>8. PICK f : f = CHOOSE h : h = [i \in 0 .. 3 |-> IF i = 0 THEN x ELSE TakeFix(h[i - 1], 1)]
  OBVIOUS
<1>9. f = [i \in 0 .. 3 |-> IF i = 0 THEN x ELSE TakeFix(f[i - 1], 1)]
  BY <1>7, <1>8, Zenon
<1>10. Times(x, 3, LAMBDA q : TakeFix(q, 1)) = f[3]
  BY <1>8, Zenon DEF Times
<1>11. f[0] = x /\ f[1] = TakeFix(f[0], 1) /\ f[2] = TakeFix(f[1], 1) /\ f[3] = TakeFix(f[2], 1)
  BY <1>5, <1>9
<1>12. QED
  BY <1>10, <1>11

\* decode() of a frame that lies in one block.
LEMMA FrameBack ==
    ASSUME NEW f, Ready(f), f.pos = 0, NEW s \in Seq(Int), f.size = BaseLength + Len(s), f.size <= BaseSize,
           Ahead(Header(2, 1, Len(s)) \o s, f)
    PROVE  DecodeFrame(f) = [magic |-> Magic, type |-> 2, id |-> 1, content |-> s]
<1>1. PICK n \in Nat : n = Len(s)
  BY NonEmpty
<1>2. f \in Arrays /\ f.mem \in Seq(Int) /\ f.size = 5 + n /\ 5 + n <= BaseSize
  BY <1>1, ArrayFacts DEF Ready, BaseLength
<1>3. n \in Uint16
  <2>1. PICK x \in Nat : x = Radix * Radix
    BY RadixIsNumber
  <2>2. n < x
    BY <1>2, <2>1, FrameAssumption DEF BaseLength
  <2>3. QED
    BY <2>1, <2>2 DEF Uint16
<1>4. PICK t \in Seq(Int), k \in Seq(Int) :
             /\ t = Header(2, 1, n) \o s /\ k = FixBytes(n, 2) /\ Len(t) = 5 + n /\ Len(k) = 2
             /\ t[1] = Magic /\ t[2] = 2 /\ t[3] = 1 /\ t[4] = k[1] /\ t[5] = k[2]
             /\ \A i \in 1 .. n : t[5 + i] = s[i]
  BY <1>1, FrameBytes
<1>5. /\ t \in Seq(Int) /\ Len(t) = 5 + n /\ t[1] = Magic /\ t[2] = 2 /\ t[3] = 1
      /\ k \in Seq(Int) /\ Len(k) = 2 /\ t[4] = k[1] /\ t[5] = k[2]
      /\ \A i \in 1 .. n : t[5 + i] = s[i]
  BY <1>4
<1>6. \A i \in 1 .. 5 + n : f.mem[i] = t[i]
  <2>1. \A i \in 1 .. 5 + n : 0 + i = i
    OBVIOUS
  <2>2. Ahead(t, f)
    BY <1>1, <1>4
  <2>3. \A i \in 1 .. Len(t) : t[i] = f.mem[f.pos + i]
    BY <2>2 DEF Ahead
  <2>4. \A i \in 1 .. 5 + n : t[i] = f.mem[0 + i]
    BY <1>5, <2>3
  <2>5. QED
    BY <2>1, <2>4
<1>7. f.mem[1] = Magic /\ f.mem[2] = 2 /\ f.mem[3] = 1 /\ f.mem[4] = k[1] /\ f.mem[5] = k[2]
  <2>1. 1 \in 1 .. 5 + n /\ 2 \in 1 .. 5 + n /\ 3 \in 1 .. 5 + n /\ 4 \in 1 .. 5 + n /\ 5 \in 1 .. 5 + n
    OBVIOUS
  <2>2. QED
    BY <1>5, <1>6, <2>1
<1>8. PICK x, u, v, w : /\ x = [ba |-> f, value |-> <<>>] /\ u = TakeFix(x, 1) /\ v = TakeFix(u, 1)
                        /\ w = TakeFix(v, 1)
  OBVIOUS
<1>9. x.ba = f /\ x.value = <<>>
  BY <1>8
<1>10. /\ u.value = Append(<<>>, Magic) /\ Further(u.ba, f, 1)
  <2>1. Magic \in Int /\ f.pos + 1 <= f.size /\ f.mem[f.pos + 1] = Magic
    BY <1>2, <1>7 DEF Magic
  <2>2. QED
    BY <1>8, <1>9, <2>1, ByteTaken
<1>11. u.ba.mem = f.mem /\ u.ba.size = 5 + n /\ u.ba.pos = 1 /\ Ready(u.ba)
  <2>1. u.ba.mem = f.mem /\ u.ba.size = 5 + n /\ u.ba.pos = 0 + 1
    BY <1>2, <1>10 DEF Further, From
  <2>2. u.ba.pos < BaseSize
    BY <1>2, <2>1
  <2>3. QED
    BY <1>10, <2>1, <2>2 DEF Further
<1>12. v.value = Append(u.value, 2) /\ Further(v.ba, u.ba, 1)
  <2>1. PICK a : a = u.ba
    OBVIOUS
  <2>2. Ready(a) /\ 2 \in Int /\ a.pos + 1 <= a.size /\ a.mem[a.pos + 1] = 2
    BY <1>7, <1>11, <2>1
  <2>3. QED
    BY <1>8, <2>1, <2>2, ByteTaken
<1>13. v.ba.mem = f.mem /\ v.ba.size = 5 + n /\ v.ba.pos = 2 /\ Ready(v.ba)
  <2>1. v.ba.mem = f.mem /\ v.ba.size = 5 + n /\ v.ba.pos = 1 + 1
    BY <1>11, <1>12 DEF Further, From
  <2>2. v.ba.pos < BaseSize
    BY <1>2, <2>1
  <2>3. QED
    BY <1>12, <2>1, <2>2 DEF Further
<1>14. w.value = Append(v.value, 1) /\ Further(w.ba, v.ba, 1)
  <2>1. PICK a : a = v.ba
    OBVIOUS
  <2>2. Ready(a) /\ 1 \in Int /\ a.pos + 1 <= a.size /\ a.mem[a.pos + 1] = 1
    BY <1>7, <1>13, <2>1
  <2>3. QED
    BY <1>8, <2>1, <2>2, ByteTaken
<1>15. w.ba.mem = f.mem /\ w.ba.size = 5 + n /\ w.ba.pos = 3 /\ Ready(w.ba)
  <2>1. w.ba.mem = f.mem /\ w.ba.size = 5 + n /\ w.ba.pos = 2 + 1
    BY <1>13, <1>14 DEF Further, From
  <2>2. w.ba.pos < BaseSize
    BY <1>2, <2>1
  <2>3. QED
    BY <1>14, <2>1, <2>2 DEF Further
<1>16. PICK y : y = TakeFix(w, 2)
  OBVIOUS
<1>17. y.value = Append(w.value, n) /\ Further(y.ba, w.ba, 2)
  <2>1. PICK a : a = w.ba
    OBVIOUS
  <2>2. Ahead(k, a)
    <3>1. \A i \in 1 .. 2 : i = 1 \/ i = 2
      OBVIOUS
    <3>2. 3 + 1 = 4 /\ 3 + 2 = 5 /\ 3 + 2 <= 5 + n
      OBVIOUS
    <3>3. \A i \in 1 .. 2 : k[i] = a.mem[a.pos + i]
      BY <1>7, <1>15, <2>1, <3>1, <3>2
    <3>4. QED
      BY <1>5, <1>15, <2>1, <3>2, <3>3 DEF Ahead
  <2>3. FixValue(k) = n
    BY <1>3, <1>4, Uint16Back
  <2>4. k \in Seq(Int) /\ 2 = Len(k) /\ Ready(a)
    BY <1>5, <1>15, <2>1
  <2>5. QED
    BY <1>16, <2>1, <2>2, <2>3, <2>4, FixTaken
<1>18. y.value[1] = Magic /\ y.value[2] = 2 /\ y.value[3] = 1 /\ y.value[4] = n
  <2>1. PICK e : e = <<>>
    BY Zenon
  <2>2. e \in Seq(Int) /\ Len(e) = 0
    BY <2>1
  <2>3. PICK a : a = u.value
    OBVIOUS
  <2>4. a \in Seq(Int) /\ Len(a) = 1 /\ a[1] = Magic
    <3>1. a = Append(e, Magic) /\ Magic \in Int
      BY <1>10, <2>1, <2>3 DEF Magic
    <3>2. /\ a \in Seq(Int) /\ Len(a) = Len(e) + 1 /\ a[Len(e) + 1] = Magic
      BY <2>2, <3>1, AppendOf
    <3>3. QED
      BY <2>2, <3>2
  <2>5. PICK b : b = v.value
    OBVIOUS
  <2>6. b \in Seq(Int) /\ Len(b) = 2 /\ b[1] = Magic /\ b[2] = 2
    <3>1. b = Append(a, 2) /\ 2 \in Int /\ a \in Seq(Int)
      BY <1>12, <2>3, <2>4, <2>5
    <3>2. /\ b \in Seq(Int) /\ Len(b) = Len(a) + 1 /\ b[Len(a) + 1] = 2
          /\ \A i \in 1 .. Len(a) : b[i] = a[i]
      BY <3>1, AppendOf
    <3>3. QED
      BY <2>4, <3>2
  <2>7. PICK c : c = w.value
    OBVIOUS
  <2>8. c \in Seq(Int) /\ Len(c) = 3 /\ c[1] = Magic /\ c[2] = 2 /\ c[3] = 1
    <3>1. c = Append(b, 1) /\ 1 \in Int /\ b \in Seq(Int)
      BY <1>14, <2>5, <2>6, <2>7
    <3>2. /\ c \in Seq(Int) /\ Len(c) = Len(b) + 1 /\ c[Len(b) + 1] = 1
          /\ \A i \in 1 .. Len(b) : c[i] = b[i]
      BY <3>1, AppendOf
    <3>3. QED
      BY <2>6, <3>2
  <2>9. PICK d : d = y.value
    OBVIOUS
  <2>10. d[1] = Magic /\ d[2] = 2 /\ d[3] = 1 /\ d[4] = n
    <3>1. d = Append(c, n) /\ n \in Int /\ c \in Seq(Int)
      BY <1>17, <2>7, <2>8, <2>9
    <3>2. d[Len(c) + 1] = n /\ \A i \in 1 .. Len(c) : d[i] = c[i]
      BY <3>1, AppendOf
    <3>3. QED
      BY <2>8, <3>2
  <2>11. QED
    BY <2>9, <2>10
<1>19. y.ba.mem = f.mem /\ y.ba.size = 5 + n /\ y.ba.pos = 5 /\ y.ba \in Arrays
  BY <1>15, <1>17 DEF Further, From
<1>20. Read(y.ba, n).data = s
  <2>1. PICK a : a = y.ba
    OBVIOUS
  <2>2. CASE 5 < BaseSize
    <3>1. Ready(a)
      BY <1>17, <1>19, <2>1, <2>2 DEF Further
    <3>2. Ahead(s, a)
      <4>1. ASSUME NEW i \in 1 .. n PROVE s[i] = a.mem[5 + i]
        <5>1. 5 + i \in 1 .. 5 + n
          OBVIOUS
        <5>2. QED
          BY <1>5, <1>6, <1>19, <2>1, <5>1
      <4>2. Len(s) = n /\ a.pos = 5 /\ a.pos + n <= a.size
        BY <1>1, <1>19, <2>1
      <4>3. \A i \in 1 .. n : s[i] = a.mem[a.pos + i]
        BY <4>1, <4>2
      <4>4. QED
        BY <4>2, <4>3 DEF Ahead
    <3>3. QED
      BY <1>1, <2>1, <3>1, <3>2, BytesAhead
  <2>3. CASE ~(5 < BaseSize)
    <3>1. n = 0
      BY <1>2, <2>3
    <3>2. s = <<>>
      BY <1>1, <3>1, NonEmpty
    <3>3. ~(0 > ReadSize(a))
      BY <1>19, <2>1, <3>1 DEF ReadSize
    <3>4. Read(a, 0).data = <<>>
      BY <3>3 DEF Read
    <3>5. QED
      BY <2>1, <3>1, <3>2, <3>4
  <2>4. QED
    BY <2>2, <2>3
<1>21. Times(x, 3, LAMBDA q : TakeFix(q, 1)) = w
  BY <1>8, ThreeTimes
<1>22. DecodeFrame(f) = [magic |-> y.value[1], type |-> y.value[2], id |-> y.value[3],
                         content |-> Read(y.ba, y.value[4]).data]
  BY <1>8, <1>16, <1>21, Zenon DEF DecodeFrame
<1>23. QED
  BY <1>18, <1>20, <1>22

-----------------------------------------------------------------------------
(***************************************************************************)
(* Wire again: what was written is in the array, value after value, and a  *)
(* reader inside the first block stands where one of them starts.          *)
(***************************************************************************)
\* g[i] is the bytes of the first i of the values s.
TextOf(g, s) == /\ g[0] = <<>> /\ \A i \in 0 .. Len(s) : g[i] \in Seq(Int)
                /\ \A i \in 1 .. Len(s) : g[i] = g[i - 1] \o Encode(s[i])

\* The array starts with the bytes t.
Starts(t, b) == Ahead(t, SetPosition(b, 0))

\* The values written so far end at the position.
WrittenText ==
  mode = "write" /\ ba.ok =>
     \E g : /\ TextOf(g, items) /\ Straight(ba)
            /\ ba.pos = Len(g[Len(items)]) /\ Starts(g[Len(items)], ba)

\* The values are in the array, and the position is where the next one starts.
ReadText ==
  mode = "read" =>
     /\ next <= Len(items) + 1
     /\ \E g : /\ TextOf(g, items) /\ Starts(g[Len(items)], ba)
               /\ Plain(next - 1) /\ ba.pos < BaseSize => Ready(ba) /\ ba.pos = Len(g[next - 1])

\* The value read last.
GotValue ==
  got # Nothing =>
     /\ mode \in {"read", "over"} /\ next \in 2 .. Len(items) + 1 /\ got.pos = ba.pos
     /\ Plain(next - 1) /\ got.pos < BaseSize => ba.ok /\ ~ba.thrown /\ got.value = got.expected

\* An array at its start has the first block for its current one.
StraightAtStart == ba.pos = 0 /\ ba.ok => Straight(ba)

\* A frame nobody has seen a byte of.
FrameText ==
  mode = "send" /\ frame.pos = 0 =>
     /\ frame.ok /\ ~frame.thrown /\ frame.size = BaseLength + Len(flat)
     /\ Ahead(Header(2, 1, Len(flat)) \o flat, frame)

ValueInv == WrittenText /\ ReadText /\ GotValue /\ StraightAtStart /\ FrameText

\* Going back to the start changes nothing but the position.
LEMMA AtStart ==
    ASSUME NEW b \in Arrays
    PROVE  /\ SetPosition(b, 0) \in Arrays /\ SetPosition(b, 0).mem = b.mem /\ SetPosition(b, 0).size = b.size
           /\ SetPosition(b, 0).pos = 0 /\ SetPosition(b, 0).ok = b.ok /\ SetPosition(b, 0).thrown = b.thrown
           /\ Straight(SetPosition(b, 0))
           /\ Straight(b) => b \in From(SetPosition(b, 0))
<1>1. Len(b.mem) \in Nat /\ b.size \in Nat /\ b.pos \in Nat
  BY ArrayFacts
<1>2. 0 \in 0 .. Len(b.mem) /\ Most(b.size, 0) = b.size /\ 0 <= b.pos
  BY <1>1 DEF Most
<1>3. PICK c : c = SetPosition(b, 0)
  OBVIOUS
<1>4. /\ c \in Arrays /\ c.mem = b.mem /\ c.pos = 0 /\ c.size = b.size
      /\ c.ok = b.ok /\ c.thrown = b.thrown /\ Straight(c)
  BY <1>2, <1>3, PositionedIn
<1>5. Straight(b) => b \in From(c)
  BY <1>2, <1>4 DEF From
<1>6. QED
  BY <1>3, <1>4, <1>5

\* ... so arrays of the same bytes start with the same ones.
LEMMA StartsSame ==
    ASSUME NEW b \in Arrays, NEW c \in Arrays, c.mem = b.mem, c.size = b.size, NEW t, Starts(t, b)
    PROVE  Starts(t, c)
<1>1. PICK x, y : x = SetPosition(b, 0) /\ y = SetPosition(c, 0)
  OBVIOUS
<1>2. x.mem = b.mem /\ x.size = b.size /\ x.pos = 0 /\ y.mem = c.mem /\ y.size = c.size /\ y.pos = 0
  BY <1>1, AtStart
<1>3. Ahead(t, x)
  BY <1>1 DEF Starts
<1>4. Ahead(t, y)
  BY <1>2, <1>3 DEF Ahead
<1>5. QED
  BY <1>1, <1>4 DEF Starts

\* No values, no bytes.
LEMMA NoText ==
    ASSUME NEW b \in Arrays
    PROVE  \E g : TextOf(g, <<>>) /\ Len(g[Len(<<>>)]) = 0 /\ Starts(g[Len(<<>>)], b)
<1>1. PICK g : g = [i \in 0 .. 0 |-> <<>>]
  OBVIOUS
<1>2. Len(<<>>) = 0 /\ <<>> \in Seq(Int)
  OBVIOUS
<1>3. g[0] = <<>> /\ \A i \in 0 .. 0 : i = 0
  BY <1>1
<1>4. TextOf(g, <<>>)
  <2>1. \A i \in 0 .. Len(<<>>) : g[i] \in Seq(Int)
    BY <1>2, <1>3
  <2>2. \A i \in 1 .. Len(<<>>) : g[i] = g[i - 1] \o Encode(<<>>[i])
    BY <1>2
  <2>3. QED
    BY <1>3, <2>1, <2>2, Zenon DEF TextOf
<1>5. PICK c \in Arrays : c = SetPosition(b, 0)
  BY AtStart
<1>6. Ahead(<<>>, c)
  BY NothingAhead
<1>7. Starts(g[Len(<<>>)], b)
  BY <1>2, <1>3, <1>5, <1>6 DEF Starts
<1>8. Len(g[Len(<<>>)]) = 0
  BY <1>2, <1>3
<1>9. QED
  BY <1>4, <1>7, <1>8

\* A value written after the text t makes it the text t \o s.
LEMMA WroteText ==
    ASSUME NEW b \in Arrays, NEW w \in Arrays, NEW s \in Seq(Int), NEW t \in Seq(Int),
           Holds(w, b, s), Starts(t, b), b.pos = Len(t)
    PROVE  Starts(t \o s, w) /\ w.pos = Len(t \o s)
<1>1. PICK m \in Nat, n \in Nat : m = Len(t) /\ n = Len(s)
  BY NonEmpty
<1>2. PICK u \in Seq(Int) : u = t \o s
  BY Joining
<1>3. Len(u) = m + n /\ (\A i \in 1 .. m : u[i] = t[i]) /\ (\A i \in 1 .. n : u[m + i] = s[i])
  BY <1>1, <1>2, Joining
<1>4. PICK x, y : x = SetPosition(b, 0) /\ y = SetPosition(w, 0)
  OBVIOUS
<1>5. x.mem = b.mem /\ x.size = b.size /\ x.pos = 0 /\ y.mem = w.mem /\ y.size = w.size /\ y.pos = 0
  BY <1>4, AtStart
<1>6. 0 + m <= b.size /\ \A i \in 1 .. m : t[i] = b.mem[0 + i]
  <2>1. Ahead(t, x)
    BY <1>4 DEF Starts
  <2>2. QED
    BY <1>1, <1>5, <2>1 DEF Ahead
<1>7. /\ w.pos = m + n /\ w.size = Most(b.size, m + n)
      /\ \A i \in 1 .. w.size : w.mem[i] = IF i - m \in 1 .. n THEN s[i - m] ELSE b.mem[i]
  BY <1>1 DEF Holds
<1>8. b.size \in Nat /\ w.size \in Nat /\ m + n <= w.size
  BY <1>7, ArrayFacts DEF Most
<1>9. ASSUME NEW i \in 1 .. m + n PROVE u[i] = w.mem[i]
  <2>1. i \in 1 .. w.size
    BY <1>8
  <2>2. CASE i <= m
    <3>1. i \in 1 .. m /\ i - m \notin 1 .. n /\ 0 + i = i
      BY <2>2
    <3>2. QED
      BY <1>3, <1>6, <1>7, <2>1, <3>1
  <2>3. CASE i > m
    <3>1. PICK j \in 1 .. n : i = m + j
      BY <2>3, Beyond
    <3>2. i - m = j
      BY <3>1
    <3>3. QED
      BY <1>3, <1>7, <2>1, <3>1, <3>2
  <2>4. QED
    BY <2>2, <2>3
<1>10. Ahead(u, y)
  <2>1. \A i \in 1 .. m + n : 0 + i = i
    OBVIOUS
  <2>2. QED
    BY <1>3, <1>5, <1>8, <1>9, <2>1 DEF Ahead
<1>11. QED
  BY <1>2, <1>3, <1>4, <1>7, <1>10 DEF Starts

\* The text of one value more.
LEMMA LongerText ==
    ASSUME NEW S, NEW s \in Seq(S), NEW it \in S, NEW g, TextOf(g, s), Encode(it) \in Seq(Int)
    PROVE  \E h : TextOf(h, Append(s, it)) /\ h[Len(Append(s, it))] = g[Len(s)] \o Encode(it)
<1>1. PICK n \in Nat : n = Len(s)
  BY NonEmpty
<1>2. PICK u : u = Append(s, it)
  OBVIOUS
<1>3. Len(u) = n + 1 /\ (\A i \in 1 .. n : u[i] = s[i]) /\ u[n + 1] = it
  BY <1>1, <1>2, Appending
<1>4. PICK x \in Seq(Int), y \in Seq(Int), z \in Seq(Int) : x = g[n] /\ y = Encode(it) /\ z = x \o y
  <2>1. n \in 0 .. n
    OBVIOUS
  <2>2. g[n] \in Seq(Int) /\ Encode(it) \in Seq(Int)
    BY <1>1, <2>1 DEF TextOf
  <2>3. g[n] \o Encode(it) \in Seq(Int)
    BY <2>2, Joining
  <2>4. QED
    BY <2>2, <2>3, Zenon
<1>5. PICK h : h = [i \in 0 .. n + 1 |-> IF i <= n THEN g[i] ELSE z]
  OBVIOUS
<1>6. (\A i \in 0 .. n : h[i] = g[i]) /\ h[n + 1] = z
  BY <1>5
<1>7. h[0] = <<>> /\ \A i \in 0 .. n + 1 : h[i] \in Seq(Int)
  <2>1. \A i \in 0 .. n + 1 : i \in 0 .. n \/ i = n + 1
    OBVIOUS
  <2>2. 0 \in 0 .. n
    OBVIOUS
  <2>3. g[0] = <<>> /\ \A i \in 0 .. n : g[i] \in Seq(Int)
    BY <1>1 DEF TextOf
  <2>4. QED
    BY <1>6, <2>1, <2>2, <2>3
<1>8. ASSUME NEW i \in 1 .. n + 1 PROVE h[i] = h[i - 1] \o Encode(u[i])
  <2>1. CASE i \in 1 .. n
    <3>1. i \in 0 .. n /\ i - 1 \in 0 .. n
      BY <2>1
    <3>2. g[i] = g[i - 1] \o Encode(s[i])
      BY <1>1, <2>1 DEF TextOf
    <3>3. QED
      BY <1>3, <1>6, <2>1, <3>1, <3>2
  <2>2. CASE i = n + 1
    <3>1. i - 1 = n /\ n \in 0 .. n
      BY <2>2
    <3>2. QED
      BY <1>3, <1>4, <1>6, <2>2, <3>1
  <2>3. i \in 1 .. n \/ i = n + 1
    OBVIOUS
  <2>4. QED
    BY <2>1, <2>2, <2>3
<1>9. TextOf(h, u)
  BY <1>3, <1>7, <1>8 DEF TextOf
<1>10. h[Len(u)] = g[Len(s)] \o Encode(it)
  BY <1>1, <1>3, <1>4, <1>6
<1>11. QED
  BY <1>2, <1>9, <1>10

\* Nothing is written yet.
LEMMA ValueStart == WireInit => ValueInv
<1> SUFFICES ASSUME WireInit PROVE ValueInv
  OBVIOUS
<1>1. New \in Arrays /\ Straight(New) /\ New.pos = 0
  BY NewArray
<1>2. ba = New /\ items = <<>> /\ mode = "write" /\ got = Nothing
  BY DEF WireInit
<1>3. WrittenText
  <2>1. \E g : TextOf(g, <<>>) /\ Len(g[Len(<<>>)]) = 0 /\ Starts(g[Len(<<>>)], New)
    BY <1>1, NoText
  <2>2. \E g : TextOf(g, items) /\ Straight(ba) /\ ba.pos = Len(g[Len(items)]) /\ Starts(g[Len(items)], ba)
    BY <1>1, <1>2, <2>1, Zenon
  <2>3. QED
    BY <2>2 DEF WrittenText
<1>4. QED
  BY <1>1, <1>2, <1>3 DEF ValueInv, ReadText, GotValue, StraightAtStart, FrameText

\* A write that left the position at the start left the block there too.
LEMMA WroteAtStart ==
    ASSUME WireInv, ValueInv, NEW b \in From(ba), b.pos = ba.pos, b.ok = ba.ok, Straight(ba) => Straight(b),
           NEW w \in Arrays, NEW s, w.ok => b.ok, b.pos <= w.pos, Straight(b) => Holds(w, b, s), ba' = w
    PROVE  StraightAtStart'
<1>1. b \in Arrays
  BY DEF From
<1>2. b.pos \in Nat
  BY <1>1, ArrayFacts
<1>3. ASSUME w.pos = 0, w.ok PROVE Straight(w)
  <2>1. ba.pos = 0 /\ ba.ok
    BY <1>2, <1>3
  <2>2. Straight(ba)
    BY <2>1 DEF ValueInv, StraightAtStart
  <2>3. QED
    BY <2>2 DEF Holds
<1>4. QED
  BY <1>3 DEF StraightAtStart

\* A value written is the next piece of the text.
LEMMA PutValues ==
    ASSUME WireInv, ValueInv, NEW it \in Items, Put(it)
    PROVE  ValueInv'
<1>1. PICK s : s = Encode(it)
  OBVIOUS
<1>2. s \in Seq(Int)
  BY <1>1, EncodeOf, WireAssumption
<1>3. ba \in Arrays /\ items \in Seq(Items)
  BY DEF WireInv, ArrayInv, BookInv
<1>4. PICK b : b = [ba EXCEPT !.thrown = FALSE]
  OBVIOUS
<1>5. /\ b \in From(ba) /\ b \in Arrays /\ b.pos = ba.pos /\ b.ok = ba.ok /\ (Straight(ba) => Straight(b))
      /\ b.mem = ba.mem /\ b.size = ba.size
  BY <1>3, <1>4, Flagged DEF From
<1>6. PICK w : w = Write(b, s)
  OBVIOUS
<1>7. w \in Arrays /\ (w.ok => b.ok) /\ b.pos <= w.pos /\ (Straight(b) => Holds(w, b, s))
  BY <1>2, <1>5, <1>6, WriteHolds
<1>8. /\ ba' = w /\ ba.ok /\ mode \in {"write", "raw"} /\ got' = got
      /\ mode' = (IF mode = "write" THEN mode ELSE "over")
      /\ items' = (IF mode = "write" THEN Append(items, it) ELSE items)
  BY <1>1, <1>4, <1>6 DEF Put
<1>9. got' = Nothing
  BY <1>8 DEF ValueInv, GotValue
<1>10. ASSUME mode' = "write"
       PROVE  \E h : TextOf(h, items') /\ Straight(w) /\ w.pos = Len(h[Len(items')]) /\ Starts(h[Len(items')], w)
  <2>1. mode = "write" /\ items' = Append(items, it)
    BY <1>8, <1>10
  <2>2. PICK g : /\ TextOf(g, items) /\ Straight(ba)
                 /\ ba.pos = Len(g[Len(items)]) /\ Starts(g[Len(items)], ba)
    BY <1>8, <2>1 DEF ValueInv, WrittenText
  <2>3. PICK n \in Nat : n = Len(items)
    BY <1>3, NonEmpty
  <2>4. PICK t : t = g[n]
    OBVIOUS
  <2>5. t \in Seq(Int)
    <3>1. n \in 0 .. n
      OBVIOUS
    <3>2. QED
      BY <2>2, <2>3, <2>4, <3>1 DEF TextOf
  <2>6. Starts(t, b)
    BY <1>3, <1>5, <2>2, <2>3, <2>4, StartsSame
  <2>7. b.pos = Len(t) /\ Holds(w, b, s)
    BY <1>5, <1>7, <2>2, <2>3, <2>4
  <2>8. Starts(t \o s, w) /\ w.pos = Len(t \o s)
    BY <1>2, <1>5, <1>7, <2>5, <2>6, <2>7, WroteText
  <2>9. PICK h : TextOf(h, Append(items, it)) /\ h[Len(Append(items, it))] = g[Len(items)] \o Encode(it)
    BY <1>1, <1>2, <1>3, <2>2, LongerText
  <2>10. h[Len(items')] = t \o s
    BY <1>1, <2>1, <2>3, <2>4, <2>9
  <2>11. TextOf(h, items') /\ Straight(w) /\ w.pos = Len(h[Len(items')]) /\ Starts(h[Len(items')], w)
    BY <2>1, <2>7, <2>8, <2>9, <2>10 DEF Holds
  <2>12. QED
    BY <2>11, Zenon
<1>11. WrittenText'
  BY <1>8, <1>10 DEF WrittenText
<1>12. StraightAtStart'
  BY <1>5, <1>7, <1>8, WroteAtStart
<1>13. mode' \notin {"read", "send"}
  BY <1>8
<1>14. QED
  BY <1>9, <1>11, <1>12, <1>13 DEF ValueInv, ReadText, GotValue, FrameText

\* A file is none of the values.
LEMMA SetFromFileValues ==
    ASSUME WireInv, ValueInv, SetFromFile(File)
    PROVE  ValueInv'
<1>1. PICK s : s = File
  OBVIOUS
<1>2. s \in Seq(Int)
  <2>1. PICK n \in Nat, r \in Nat \ {0} : n = BaseSize + 2 /\ r = Radix
    BY RadixIsNumber
  <2>2. [i \in 1 .. n |-> i % r] \in [1 .. n -> Int]
    OBVIOUS
  <2>3. [i \in 1 .. n |-> i % r] \in Seq(Int)
    BY <2>2
  <2>4. QED
    BY <1>1, <2>1, <2>3 DEF File
<1>3. ba \in Arrays
  BY DEF WireInv, ArrayInv
<1>4. PICK b : b = [ba EXCEPT !.thrown = FALSE]
  OBVIOUS
<1>5. b \in From(ba) /\ b \in Arrays /\ b.pos = ba.pos /\ b.ok = ba.ok /\ (Straight(ba) => Straight(b))
  BY <1>3, <1>4, Flagged DEF From
<1>6. PICK w : w = FromFile(b, s)
  OBVIOUS
<1>7. w \in Arrays /\ (w.ok => b.ok) /\ b.pos <= w.pos /\ (Straight(b) => Holds(w, b, s))
  BY <1>2, <1>5, <1>6, FileHolds
<1>8. ba' = w /\ mode \in {"write", "raw"} /\ got' = got /\ mode' = "raw"
  BY <1>1, <1>4, <1>6 DEF SetFromFile
<1>9. got' = Nothing
  BY <1>8 DEF ValueInv, GotValue
<1>10. StraightAtStart'
  BY <1>5, <1>7, <1>8, WroteAtStart
<1>11. QED
  BY <1>8, <1>9, <1>10 DEF ValueInv, WrittenText, ReadText, GotValue, FrameText

\* Back at the start, the first value is the next one.
LEMMA ResetValues ==
    ASSUME WireInv, ValueInv, Reset
    PROVE  ValueInv'
<1>1. ba \in Arrays /\ items \in Seq(Items)
  BY DEF WireInv, ArrayInv, BookInv
<1>2. PICK b : b = [ba EXCEPT !.thrown = FALSE]
  OBVIOUS
<1>3. b \in Arrays /\ b.mem = ba.mem /\ b.size = ba.size /\ b.ok = ba.ok /\ ~b.thrown
  BY <1>1, <1>2, Flagged DEF From
<1>4. PICK c : c = SetPosition(b, 0)
  OBVIOUS
<1>5. /\ c \in Arrays /\ c.mem = ba.mem /\ c.size = ba.size /\ c.pos = 0 /\ c.ok = ba.ok /\ ~c.thrown
      /\ Straight(c)
  BY <1>3, <1>4, AtStart
<1>6. /\ ba' = c /\ ba.ok /\ mode = "write" /\ mode' = "read" /\ next' = 1 /\ items' = items /\ got' = got
  BY <1>2, <1>4 DEF Reset
<1>7. got' = Nothing
  BY <1>6 DEF ValueInv, GotValue
<1>8. Ready(c)
  BY <1>5, <1>6 DEF Ready
<1>9. PICK g : TextOf(g, items) /\ Starts(g[Len(items)], ba)
  BY <1>6 DEF ValueInv, WrittenText
<1>10. Starts(g[Len(items)], c)
  BY <1>1, <1>5, <1>9, StartsSame
<1>11. Len(g[0]) = 0 /\ 1 - 1 = 0
  BY <1>9 DEF TextOf
<1>12. ReadText'
  <2>1. Len(items) \in Nat
    BY <1>1, NonEmpty
  <2>2. next' <= Len(items') + 1
    BY <1>6, <2>1
  <2>3. /\ TextOf(g, items') /\ Starts(g[Len(items')], ba')
        /\ Ready(ba') /\ ba'.pos = Len(g[next' - 1])
    BY <1>5, <1>6, <1>8, <1>9, <1>10, <1>11
  <2>4. \E h : /\ TextOf(h, items') /\ Starts(h[Len(items')], ba')
               /\ Plain(next - 1)' /\ ba'.pos < BaseSize => Ready(ba') /\ ba'.pos = Len(h[next' - 1])
    BY <2>3, Zenon
  <2>5. QED
    BY <2>2, <2>4 DEF ReadText
<1>13. QED
  BY <1>5, <1>6, <1>7, <1>12 DEF ValueInv, WrittenText, GotValue, StraightAtStart, FrameText

\* The bytes of a value lie ahead of a reader that stands where it starts.
LEMMA ValueAhead ==
    ASSUME NEW b \in Arrays, Straight(b), NEW s \in Seq(Items), NEW g, TextOf(g, s), Starts(g[Len(s)], b),
           NEW k \in 1 .. Len(s), b.pos = Len(g[k - 1])
    PROVE  /\ Ahead(Encode(s[k]), b) /\ Encode(s[k]) \in Seq(Int) /\ Typed(s[k])
           /\ Len(g[k]) = b.pos + Len(Encode(s[k]))
<1>1. PICK n \in Nat : n = Len(s)
  BY NonEmpty
<1>2. \A i \in 1 .. n : Typed(s[i]) /\ Encode(s[i]) \in Seq(Int)
  <2>1. ASSUME NEW i \in 1 .. n PROVE Typed(s[i]) /\ Encode(s[i]) \in Seq(Int)
    <3>1. PICK it \in Items : it = s[i]
      BY <1>1
    <3>2. Typed(it)
      BY WireAssumption
    <3>3. QED
      BY <3>1, <3>2, EncodeOf
  <2>2. QED
    BY <2>1
<1>3. PICK a : a = SetPosition(b, 0)
  OBVIOUS
<1>4. a \in Arrays /\ a.pos = 0 /\ b \in From(a)
  BY <1>3, AtStart
<1>5. /\ \A i \in 0 .. n : g[i] \in Seq(Int)
      /\ \A i \in 1 .. n : g[i] = g[i - 1] \o Encode(s[i])
  BY <1>1 DEF TextOf
<1>6. \A i \in 1 .. n : \E t \in Seq(Int) : g[i] = g[i - 1] \o t
  BY <1>2, <1>5
<1>7. Ahead(g[n], a)
  BY <1>1, <1>3 DEF Starts
<1>8. \A i \in 0 .. n : Ahead(g[i], a)
  BY <1>4, <1>5, <1>6, <1>7, AheadParts
<1>9. PICK x, y, z : x = g[k - 1] /\ y = Encode(s[k]) /\ z = g[k]
  BY Zenon
<1>10. k \in 1 .. n /\ k \in 0 .. n /\ k - 1 \in 0 .. n
  BY <1>1
<1>11. x \in Seq(Int) /\ y \in Seq(Int) /\ z = x \o y /\ Ahead(z, a)
  BY <1>2, <1>5, <1>8, <1>9, <1>10
<1>12. b.pos = a.pos + Len(x)
  <2>1. Len(x) \in Nat
    BY <1>11, NonEmpty
  <2>2. QED
    BY <1>4, <1>9, <2>1
<1>13. Ahead(y, b)
  BY <1>4, <1>11, <1>12, AheadFurther
<1>14. Len(z) = Len(x) + Len(y)
  BY <1>11, Joining
<1>15. QED
  BY <1>2, <1>9, <1>10, <1>11, <1>13, <1>14

\* A value is read back, and the reader stands where the next one starts.
LEMMA GetValues ==
    ASSUME WireInv, ValueInv, Get
    PROVE  ValueInv'
<1>1. ba \in Arrays /\ items \in Seq(Items) /\ next \in Nat /\ next >= 1
  BY DEF WireInv, ArrayInv, BookInv
<1>2. PICK n \in Nat : n = Len(items) /\ next \in 1 .. n
  <2>1. Len(items) \in Nat
    BY <1>1, NonEmpty
  <2>2. next <= Len(items)
    BY DEF Get
  <2>3. QED
    BY <1>1, <2>1, <2>2
<1>3. PICK it \in Items : it = items[next]
  BY <1>1, <1>2
<1>4. PICK r : r = Decode(ba, it.type)
  OBVIOUS
<1>5. PICK c : c = r.ba
  OBVIOUS
<1>6. c \in From(ba)
  <2>1. it.type \in Types
    BY EncodeOf, WireAssumption
  <2>2. QED
    BY <1>1, <1>4, <1>5, <2>1, DecodeFrom
<1>7. /\ c \in Arrays /\ c.mem = ba.mem /\ c.size = ba.size /\ (c.ok => ba.ok) /\ ba.pos <= c.pos
      /\ Straight(ba) /\ c.pos <= BaseSize => Straight(c)
  BY <1>6 DEF From
<1>8. c.pos \in Nat /\ ba.pos \in Nat
  BY <1>1, <1>7, ArrayFacts
<1>9. /\ ba' = c /\ mode = "read" /\ next' = next + 1 /\ items' = items
      /\ got' = [type |-> it.type, value |-> r.value, expected |-> it.value, pos |-> c.pos]
      /\ mode' = (IF c.thrown THEN "over" ELSE mode)
  BY <1>3, <1>4, <1>5 DEF Get
<1>10. PICK g : /\ TextOf(g, items) /\ Starts(g[Len(items)], ba)
                /\ Plain(next - 1) /\ ba.pos < BaseSize => Ready(ba) /\ ba.pos = Len(g[next - 1])
  BY <1>9 DEF ValueInv, ReadText
<1>11. ASSUME Plain(next), c.pos < BaseSize
       PROVE  Ready(c) /\ c.pos = Len(g[next]) /\ r.value = it.value
  <2>1. Plain(next - 1) /\ (it.type = "map" => it.value = <<>>)
    <3>1. next \in 1 .. next /\ \A i \in 1 .. next - 1 : i \in 1 .. next
      BY <1>2
    <3>2. QED
      BY <1>3, <1>11, <3>1 DEF Plain
  <2>2. ba.pos < BaseSize
    BY <1>7, <1>8, <1>11
  <2>3. Ready(ba) /\ ba.pos = Len(g[next - 1])
    BY <1>10, <2>1, <2>2
  <2>4. Straight(ba)
    BY <2>3 DEF Ready
  <2>5. /\ Ahead(Encode(it), ba) /\ Typed(it)
        /\ Len(g[next]) = ba.pos + Len(Encode(it))
    BY <1>1, <1>2, <1>3, <1>10, <2>3, <2>4, ValueAhead
  <2>6. Taken(r, ba, Len(Encode(it)), it.value)
    BY <1>4, <2>1, <2>3, <2>5, DecodeAhead
  <2>7. QED
    BY <1>5, <1>11, <2>5, <2>6 DEF Taken, Reads
<1>12. Starts(g[Len(items)], c)
  BY <1>1, <1>7, <1>10, StartsSame
<1>13. next' - 1 = next /\ (Plain(next - 1)' <=> Plain(next))
  <2>1. next' - 1 = next
    BY <1>1, <1>9
  <2>2. QED
    BY <1>9, <2>1 DEF Plain
<1>14. next' \in 2 .. Len(items') + 1 /\ next' <= Len(items') + 1
  BY <1>2, <1>9
<1>15. ReadText'
  <2>1. /\ TextOf(g, items') /\ Starts(g[Len(items')], ba')
        /\ Plain(next - 1)' /\ ba'.pos < BaseSize => Ready(ba') /\ ba'.pos = Len(g[next' - 1])
    BY <1>9, <1>10, <1>11, <1>12, <1>13
  <2>2. \E h : /\ TextOf(h, items') /\ Starts(h[Len(items')], ba')
               /\ Plain(next - 1)' /\ ba'.pos < BaseSize => Ready(ba') /\ ba'.pos = Len(h[next' - 1])
    BY <2>1, Zenon
  <2>3. QED
    BY <1>14, <2>2 DEF ReadText
<1>16. GotValue'
  <2>1. got'.pos = ba'.pos /\ got'.value = r.value /\ got'.expected = it.value
    BY <1>9
  <2>2. mode' \in {"read", "over"}
    BY <1>9
  <2>3. Ready(c) => c.ok /\ ~c.thrown
    BY DEF Ready
  <2>4. QED
    BY <1>9, <1>11, <1>13, <1>14, <2>1, <2>2, <2>3 DEF GotValue
<1>17. StraightAtStart'
  <2>1. ASSUME c.pos = 0, c.ok PROVE Straight(c)
    <3>1. ba.pos = 0 /\ ba.ok /\ c.pos <= BaseSize
      BY <1>7, <1>8, <2>1
    <3>2. QED
      BY <1>7, <3>1 DEF ValueInv, StraightAtStart
  <2>2. QED
    BY <1>9, <2>1 DEF StraightAtStart
<1>18. mode' \notin {"write", "send"}
  BY <1>9
<1>19. QED
  BY <1>15, <1>16, <1>17, <1>18 DEF ValueInv, WrittenText, FrameText

\* A user who goes back to the start, by a seek or a clear, starts over.
LEMMA StartsOver ==
    ASSUME ba' \in Arrays, ba'.pos = 0 /\ ba'.ok => Straight(ba'), mode' = "write" => ba'.pos = 0,
           mode' \in {"write", "raw"}, items' = <<>>, got' = Nothing
    PROVE  ValueInv'
<1>1. \E g : TextOf(g, <<>>) /\ Len(g[Len(<<>>)]) = 0 /\ Starts(g[Len(<<>>)], ba')
  BY NoText
<1>2. ASSUME mode' = "write", ba'.ok
      PROVE  \E g : /\ TextOf(g, items') /\ Straight(ba')
                    /\ ba'.pos = Len(g[Len(items')]) /\ Starts(g[Len(items')], ba')
  <2>1. ba'.pos = 0 /\ Straight(ba')
    BY <1>2
  <2>2. QED
    BY <1>1, <2>1, Zenon
<1>3. WrittenText'
  BY <1>2 DEF WrittenText
<1>4. QED
  BY <1>3 DEF ValueInv, ReadText, GotValue, StraightAtStart, FrameText

\* Wherever a seek ends, the values are forgotten.
LEMMA SeekValues ==
    ASSUME WireInv, ValueInv, NEW p \in Places, Seek(p)
    PROVE  ValueInv'
<1>1. ba \in Arrays
  BY DEF WireInv, ArrayInv
<1>2. p \in Int
  <2>1. Len(ba.mem) \in Nat
    BY <1>1, ArrayFacts
  <2>2. QED
    BY <2>1 DEF Places
<1>3. PICK b : b = [ba EXCEPT !.thrown = FALSE]
  OBVIOUS
<1>4. b \in Arrays /\ b.pos = ba.pos /\ b.ok = ba.ok /\ (Straight(ba) => Straight(b))
  BY <1>1, <1>3, Flagged DEF From
<1>5. PICK c : c = SetPosition(b, p)
  OBVIOUS
<1>6. /\ ba' = c /\ mode' = (IF c.pos = 0 THEN "write" ELSE "raw") /\ items' = <<>> /\ got' = Nothing
  BY <1>3, <1>5 DEF Seek
<1>7. /\ c \in Arrays /\ c.ok = b.ok
      /\ p \in 0 .. Len(b.mem) => Straight(c)
      /\ p \notin 0 .. Len(b.mem) => c.pos = b.pos /\ (Straight(b) => Straight(c))
  BY <1>2, <1>4, <1>5, Positioned
<1>8. c.pos = 0 /\ c.ok => Straight(c)
  BY <1>4, <1>7 DEF ValueInv, StraightAtStart
<1>9. mode' \in {"write", "raw"} /\ (mode' = "write" => c.pos = 0)
  BY <1>6
<1>10. QED
  BY <1>6, <1>7, <1>8, <1>9, StartsOver

\* A clear forgets them too.
LEMMA ClearValues ==
    ASSUME WireInv, ClearArray
    PROVE  ValueInv'
<1>1. ba \in Arrays
  BY DEF WireInv, ArrayInv
<1>2. PICK b : b = [ba EXCEPT !.thrown = FALSE]
  OBVIOUS
<1>3. b \in Arrays
  BY <1>1, <1>2, Flagged DEF From
<1>4. PICK c : c = Clear(b)
  OBVIOUS
<1>5. c \in Arrays /\ Straight(c) /\ c.pos = 0
  BY <1>3, <1>4, Emptied
<1>6. ba' = c /\ items' = <<>> /\ mode' = "write" /\ got' = Nothing
  BY <1>2, <1>4 DEF ClearArray
<1>7. QED
  BY <1>5, <1>6, StartsOver

\* The frame starts with its header and its content.
LEMMA SendProtocolValues ==
    ASSUME WireInv, ValueInv, SendProtocol
    PROVE  ValueInv'
<1>1. ba \in Arrays
  BY DEF WireInv, ArrayInv
<1>2. PICK d \in Seq(Int) : d = Rest(ba).data
  BY <1>1, RestOf
<1>3. PICK f : f = EncodeFrame(2, 1, d)
  OBVIOUS
<1>4. f.ok /\ ~f.thrown /\ f.size = BaseLength + Len(d) /\ Ahead(Header(2, 1, Len(d)) \o d, f)
  <2>1. 2 \in Nat /\ 1 \in Nat
    OBVIOUS
  <2>2. QED
    BY <1>2, <1>3, <2>1, FrameOf
<1>5. /\ ba' = New /\ mode = "read" /\ next = 1 /\ flat' = d /\ frame' = f /\ mode' = "send" /\ got' = got
  BY <1>2, <1>3 DEF SendProtocol
<1>6. got' = Nothing
  <2>1. 1 \notin 2 .. Len(items) + 1
    OBVIOUS
  <2>2. QED
    BY <1>5, <2>1 DEF ValueInv, GotValue
<1>7. StraightAtStart'
  BY <1>5, NewArray DEF StraightAtStart
<1>8. FrameText'
  BY <1>4, <1>5 DEF FrameText
<1>9. QED
  BY <1>5, <1>6, <1>7, <1>8 DEF ValueInv, WrittenText, ReadText, GotValue

\* While the frame is sent, its text only matters as long as none of it went out.
LEMMA SendingValues ==
    ASSUME ValueInv, UNCHANGED arrayVars, mode = "send", mode' \in {"send", "over"},
           mode' = "send" /\ frame'.pos = 0 => frame' = frame
    PROVE  ValueInv'
<1>1. ba' = ba /\ flat' = flat /\ got' = got
  BY DEF arrayVars
<1>2. got = Nothing
  BY DEF ValueInv, GotValue
<1>3. StraightAtStart'
  BY <1>1 DEF ValueInv, StraightAtStart
<1>4. FrameText'
  BY <1>1 DEF ValueInv, FrameText
<1>5. QED
  BY <1>1, <1>2, <1>3, <1>4 DEF ValueInv, WrittenText, ReadText, GotValue

\* A piece that went out moves the frame from its start.
LEMMA SendsValues ==
    ASSUME WireInv, ValueInv, NEW n \in Nat, Sends(n)
    PROVE  ValueInv'
<1>1. mode = "send" /\ UNCHANGED arrayVars /\ UNCHANGED mode
  BY DEF Sends
<1>2. Sending /\ frame \in Arrays /\ fails \in Nat
  BY <1>1, WireAssumption DEF WireInv, LineInv
<1>3. PICK o : o = ReadBuffers(frame, send.left)
  OBVIOUS
<1>4. /\ frame.pos \in Nat /\ frame.size \in Nat /\ Len(frame.mem) \in Nat
      /\ frame.pos < frame.size /\ frame.size <= Len(frame.mem)
  BY <1>2, ArrayFacts DEF Sending
<1>5. frame.pos + Len(o) < frame.size /\ Len(o) \in Nat
  <2>1. Straight(frame) /\ send.left \in Nat
    BY <1>2 DEF Sending
  <2>2. Ahead(o, frame) /\ frame.pos + Len(o) < frame.size
    BY <1>2, <1>3, <1>4, <2>1, BuffersOf
  <2>3. QED
    BY <2>2, NonEmpty DEF Ahead
<1>6. n <= Len(o)
  BY <1>3, <1>5 DEF Sends
<1>7. frame'.pos = 0 => frame' = frame
  <2>1. CASE n = 0
    BY <2>1 DEF Sends
  <2>2. CASE n # 0
    <3>1. PICK p \in 0 .. Len(frame.mem) : p = frame.pos + n /\ p # 0
      <4>1. PICK z \in Nat, q \in Nat, l \in Nat, k \in Nat :
              z = frame.size /\ q = frame.pos /\ l = Len(frame.mem) /\ k = Len(o)
        BY <1>4, <1>5
      <4>2. q + k < z /\ z <= l /\ n <= k
        BY <1>4, <1>5, <1>6, <4>1
      <4>3. q + n \in 0 .. l /\ q + n # 0
        BY <2>2, <4>2
      <4>4. QED
        BY <4>1, <4>3
    <3>2. frame' = SetPosition(frame, p)
      BY <2>2, <3>1 DEF Sends
    <3>3. frame'.pos = p
      BY <1>2, <3>2, PositionedIn
    <3>4. QED
      BY <3>1, <3>3
  <2>3. QED
    BY <2>1, <2>2
<1>8. QED
  BY <1>1, <1>7, SendingValues

\* Every step keeps ValueInv.
LEMMA ValueKeeps == WireInv /\ ValueInv /\ [WireNext]_wireVars => ValueInv'
<1> SUFFICES ASSUME WireInv, ValueInv, [WireNext]_wireVars PROVE ValueInv'
  OBVIOUS
<1>1. CASE \E it \in Items : Put(it)
  BY <1>1, PutValues
<1>2. CASE Reset
  BY <1>2, ResetValues
<1>3. CASE Get
  BY <1>3, GetValues
<1>4. CASE \E p \in Places : Seek(p)
  BY <1>4, SeekValues
<1>5. CASE ClearArray
  BY <1>5, ClearValues
<1>6. CASE SetFromFile(File)
  BY <1>6, SetFromFileValues
<1>7. CASE SendProtocol
  BY <1>7, SendProtocolValues
<1>8. CASE \E n \in 0 .. BaseSize * Nodes(frame) : Sends(n)
  <2>1. PICK n \in Nat : Sends(n)
    BY <1>8
  <2>2. QED
    BY <2>1, SendsValues
<1>9. CASE SendFails
  BY <1>9, SendingValues DEF SendFails
<1>10. CASE RecvProtocol
  BY <1>10, SendingValues DEF RecvProtocol, sendVars
<1>11. CASE UNCHANGED wireVars
  BY <1>11 DEF wireVars, arrayVars, sendVars, ValueInv, WrittenText, ReadText, GotValue, StraightAtStart,
               FrameText, Plain
<1>12. QED
  BY <1>1, <1>2, <1>3, <1>4, <1>5, <1>6, <1>7, <1>8, <1>9, <1>10, <1>11 DEF WireNext

\* Both invariants hold always.
LEMMA ValueAlways == WireSpec => [](WireInv /\ ValueInv)
BY WireStart, WireKeeps, ValueStart, ValueKeeps, PTL DEF WireSpec

\* Whatever values a Serializer writes, one after the other, it reads back in
\* that order as long as they end inside the first block and none is a map
\* with an element, whatever the block size, the number of values and their
\* width; and a frame that fits a block decodes to its fields
\* (serializer.h write and read, byte_array.cpp, protocol.cpp encode and
\* decode).
THEOREM ValuesAreKept == WireSpec => []ValuesKept
<1>1. WireInv /\ ValueInv => RoundTrip
  BY DEF ValueInv, GotValue, RoundTrip
<1>2. WireInv /\ ValueInv => FrameDecodes
  <2>1. SUFFICES ASSUME WireInv, ValueInv, mode = "send", frame.pos = 0, frame.size <= BaseSize
                 PROVE  DecodeFrame(frame) = [magic |-> Magic, type |-> 2, id |-> 1, content |-> flat]
    BY DEF FrameDecodes
  <2>2. /\ frame.ok /\ ~frame.thrown /\ frame.size = BaseLength + Len(flat)
        /\ Ahead(Header(2, 1, Len(flat)) \o flat, frame)
    BY <2>1 DEF ValueInv, FrameText
  <2>3. frame \in Arrays /\ Straight(frame) /\ flat \in Seq(Int)
    BY <2>1 DEF WireInv, LineInv, ArrayInv, Sending
  <2>4. Ready(frame)
    BY <2>1, <2>2, <2>3 DEF Ready
  <2>5. QED
    BY <2>1, <2>2, <2>3, <2>4, FrameBack
<1>3. WireInv /\ ValueInv => ValuesKept
  BY <1>1, <1>2 DEF ValuesKept
<1>4. QED
  BY <1>3, ValueAlways, PTL
=============================================================================
