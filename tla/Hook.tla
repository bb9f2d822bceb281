-------------------------------- MODULE Hook --------------------------------
(***************************************************************************)
(* The hooked system calls on one descriptor number (acid/common/hook.cpp, *)
(* fd_manager.cpp): do_io(), connect(), close(), socket(), setsockopt()    *)
(* and fcntl(), on top of IOManager's events and condition timers.         *)
(*                                                                         *)
(* A call that would block adds a timer, registers its event and yields;   *)
(* the timer's callback cancels the event.  One fiber uses each direction, *)
(* other fibers close the descriptor and open it again.  A step is one     *)
(* system call or one critical section of FdManager, TimerManager or the   *)
(* FdContext.  A fiber or a callback occupies a thread between two yields. *)
(***************************************************************************)
EXTENDS Naturals, FiniteSets

CONSTANTS
    Fibers,        \* fibers that do I/O on the descriptor
    Writer,        \* those that use WRITE (write, send, connect), the others READ
    Limitable,     \* directions for which a time limit may be set
    ThreadCounts,  \* numbers of threads the IOManager may have
    MaxCalls,      \* bound: calls of each fiber
    MaxSockets     \* bound: sockets that get this descriptor number

ASSUME HookAssumption ==
    /\ Writer \subseteq Fibers /\ Limitable \subseteq {"READ", "WRITE"}
    /\ ThreadCounts # {} /\ ThreadCounts \subseteq Nat \ {0}
    /\ MaxCalls \in [Fibers -> Nat] /\ MaxSockets \in Nat \ {0}

Calls == UNION {{f} \X (1..MaxCalls[f]) : f \in Fibers}

VARIABLES
    threads,     \* threads of the IOManager
    sock,        \* the socket behind the descriptor, 0 when it is closed
    sockets,     \* sockets opened so far
    ctx,         \* FdManager's FdCtx of the descriptor, or NoCtx
    entry,       \* the kernel's epoll set has the descriptor
    registered,  \* fibers whose event is in FdContext::events
    pc,          \* where each fiber is
    closer,      \* where a close() of the descriptor is
    opener,      \* where a socket() or accept() that gets the descriptor is
    call,        \* number of each fiber's current or last call
    kind,        \* "io" (do_io) or "connect"
    to,          \* the call has a time limit
    timer,       \* fibers whose timer is in TimerManager
    expired,     \* calls whose timer callback is in the task list
    cancelling,  \* calls whose callback is about to call cancel_event()
    cancelled,   \* timer_info::cancelled of each fiber's current call
    due,         \* history: fibers whose last call has had a timer expire
    errno        \* how each fiber's last call ended: "ETIMEDOUT" or otherwise

fdVars == <<sock, sockets, ctx, entry, registered>>
callVars == <<call, kind, to, errno>>
timerVars == <<timer, expired, cancelling, cancelled, due>>
vars == <<threads, fdVars, pc, closer, opener, callVars, timerVars>>

NoCtx == [sock |-> 0, user_nonblock |-> FALSE, timeout |-> {}]
Direction(f) == IF f \in Writer THEN "WRITE" ELSE "READ"

\* Threads that run a task; one is free for another task or the idle loop.
InUse ==
    Cardinality({f \in Fibers : pc[f] \in {"try", "timer", "add", "error"}})
    + Cardinality(cancelling)
    + (IF closer = "idle" THEN 0 ELSE 1) + (IF opener = "idle" THEN 0 ELSE 1)
Room == InUse < threads

TypeOK ==
    /\ threads \in ThreadCounts
    /\ sock \in 0..MaxSockets /\ sockets \in 0..MaxSockets
    /\ ctx \in [sock : 0..MaxSockets, user_nonblock : BOOLEAN, timeout : SUBSET Limitable]
    /\ entry \in BOOLEAN /\ registered \subseteq Fibers
    /\ pc \in [Fibers -> {"idle", "try", "timer", "add", "waiting", "woken", "error"}]
    /\ closer \in {"idle", "del", "close"} /\ opener \in {"idle", "get"}
    /\ InUse <= threads
    /\ (\A f \in Fibers : call[f] \in 0..MaxCalls[f]) /\ kind \in [Fibers -> {"io", "connect"}]
    /\ to \in [Fibers -> BOOLEAN] /\ timer \subseteq Fibers
    /\ expired \subseteq Calls /\ cancelling \subseteq expired
    /\ cancelled \in [Fibers -> BOOLEAN] /\ due \subseteq Fibers
    /\ errno \in [Fibers -> {"none", "other", "ETIMEDOUT"}]

\* The descriptor is an open socket that socket() or accept() has hooked.
Init ==
    /\ threads \in ThreadCounts
    /\ sock = 1 /\ sockets = 1
    /\ ctx = [sock |-> 1, user_nonblock |-> FALSE, timeout |-> {}]
    /\ entry = FALSE /\ registered = {}
    /\ pc = [f \in Fibers |-> "idle"] /\ closer = "idle" /\ opener = "idle"
    /\ call = [f \in Fibers |-> 0] /\ kind = [f \in Fibers |-> "io"]
    /\ to = [f \in Fibers |-> FALSE] /\ timer = {}
    /\ expired = {} /\ cancelling = {}
    /\ cancelled = [f \in Fibers |-> FALSE] /\ due = {}
    /\ errno = [f \in Fibers |-> "none"]

-----------------------------------------------------------------------------
Goto(f, label) == pc' = [pc EXCEPT ![f] = label]

\* The hooked call of f returns and its locals are gone.
Returns(f, e) ==
    /\ Goto(f, "idle")
    /\ kind' = [kind EXCEPT ![f] = "io"]
    /\ to' = [to EXCEPT ![f] = FALSE]
    /\ cancelled' = [cancelled EXCEPT ![f] = FALSE]
    /\ errno' = [errno EXCEPT ![f] = e]

\* do_io() or connect() on a hooked socket that the user left blocking; any
\* other goes straight to the system call.  The limit is read once.
Limit(f, k) == k = "connect" \/ Direction(f) \in ctx.timeout
Call(f, k) ==
    /\ pc[f] = "idle" /\ Room
    /\ call[f] < MaxCalls[f] /\ (k = "connect" => f \in Writer)
    /\ ctx # NoCtx /\ ~ctx.user_nonblock
    /\ call' = [call EXCEPT ![f] = @ + 1]
    /\ kind' = [kind EXCEPT ![f] = k]
    /\ to' = [to EXCEPT ![f] = Limit(f, k)]
    /\ errno' = [errno EXCEPT ![f] = "none"]
    /\ due' = due \ {f}
    /\ Goto(f, "try")
    /\ UNCHANGED <<threads, fdVars, closer, opener, timer, expired, cancelling, cancelled>>

\* The system call is done or fails (a closed descriptor: EBADF), ...
TryDone(f) ==
    /\ pc[f] = "try"
    /\ Returns(f, "other")
    /\ UNCHANGED <<threads, fdVars, closer, opener, call, timer, expired, cancelling, due>>

\* ... or EAGAIN (connect: EINPROGRESS).
TryBlocks(f) ==
    /\ pc[f] = "try" /\ sock # 0
    /\ Goto(f, IF to[f] THEN "timer" ELSE "add")
    /\ UNCHANGED <<threads, fdVars, closer, opener, callVars, timerVars>>

\* add_condition_timer().
AddTimer(f) ==
    /\ pc[f] = "timer"
    /\ timer' = timer \cup {f}
    /\ Goto(f, "add")
    /\ UNCHANGED <<threads, fdVars, closer, opener, callVars, expired, cancelling, cancelled,
                   due>>

\* add_event() and yield().  The kernel takes an ADD for a descriptor it does
\* not have and a MOD for one it has.
EpollAccepts == sock # 0 /\ (entry <=> registered # {})
AddEvent(f) ==
    /\ pc[f] = "add" /\ EpollAccepts
    /\ registered' = registered \cup {f} /\ entry' = TRUE
    /\ Goto(f, "waiting")
    /\ UNCHANGED <<threads, sock, sockets, ctx, closer, opener, callVars, timerVars>>

\* add_event() fails: the timer is cancelled, do_io() gives up, connect() goes
\* on to SO_ERROR.
TimerDropped(f) == timer \ {f}
AddRefused(f) ==
    /\ pc[f] = "add"
    /\ timer' = TimerDropped(f)
    /\ IF kind[f] = "io"
       THEN Returns(f, "other")
       ELSE Goto(f, "error") /\ UNCHANGED <<kind, to, cancelled, errno>>
    /\ UNCHANGED <<threads, fdVars, closer, opener, call, expired, cancelling, due>>

\* After the yield: cancel the timer, then time-out, retry, or SO_ERROR.
Resume(f) ==
    /\ pc[f] = "woken" /\ Room
    /\ timer' = TimerDropped(f)
    /\ IF cancelled[f]
       THEN Returns(f, "ETIMEDOUT")
       ELSE /\ Goto(f, IF kind[f] = "io" THEN "try" ELSE "error")
            /\ UNCHANGED <<kind, to, cancelled, errno>>
    /\ UNCHANGED <<threads, fdVars, closer, opener, call, expired, cancelling, due>>

\* connect() reads SO_ERROR.
SocketError(f) ==
    /\ pc[f] = "error"
    /\ Returns(f, "other")
    /\ UNCHANGED <<threads, fdVars, closer, opener, call, timer, expired, cancelling, due>>

-----------------------------------------------------------------------------
\* IOManager takes the events of set out of epoll and schedules their fibers.
Trigger(set) ==
    /\ registered' = registered \ set
    /\ entry' = (registered \ set # {})
    /\ pc' = [f \in Fibers |-> IF f \in set THEN "woken" ELSE pc[f]]

\* An idle thread dispatches an event of f,
EventFires(f) ==
    /\ Room /\ f \in registered /\ entry
    /\ Trigger({f})
    /\ UNCHANGED <<threads, sock, sockets, ctx, closer, opener, callVars, timerVars>>

\* or takes the timer of f from the queue and schedules its callback.
TimerExpires(f) ==
    /\ Room /\ f \in timer
    /\ timer' = timer \ {f}
    /\ expired' = expired \cup {<<f, call[f]>>}
    /\ due' = due \cup {f}
    /\ UNCHANGED <<threads, fdVars, pc, closer, opener, callVars, cancelling, cancelled>>

\* The timer_info a callback has a weak_ptr to: its call has not returned.
InfoAliveAlways(c) == pc[c[1]] # "idle"
InfoAlive(c) == call[c[1]] = c[2] /\ pc[c[1]] # "idle"

\* The callback returns at once if the call is over or already timed out, ...
CallbackDropped(c) ==
    /\ Room /\ c \in expired \ cancelling
    /\ ~InfoAlive(c) \/ cancelled[c[1]]
    /\ expired' = expired \ {c}
    /\ UNCHANGED <<threads, fdVars, pc, closer, opener, callVars, timer, cancelling, cancelled,
                   due>>

\* ... else it sets cancelled ...
CallbackTimesOut(c) ==
    /\ Room /\ c \in expired \ cancelling
    /\ InfoAlive(c) /\ ~cancelled[c[1]]
    /\ cancelled' = [cancelled EXCEPT ![c[1]] = TRUE]
    /\ cancelling' = cancelling \cup {c}
    /\ UNCHANGED <<threads, fdVars, pc, closer, opener, callVars, timer, expired, due>>

\* ... and calls cancel_event(), which does nothing unless the event is
\* registered and epoll has the descriptor.
CancelSkipped(f) == UNCHANGED <<registered, entry, pc>>
CancelEvent(f) ==
    IF f \in registered /\ entry THEN Trigger({f}) ELSE UNCHANGED <<registered, entry, pc>>
CallbackCancels(c) ==
    /\ c \in cancelling
    /\ CancelEvent(c[1])
    /\ expired' = expired \ {c} /\ cancelling' = cancelling \ {c}
    /\ UNCHANGED <<threads, sock, sockets, ctx, closer, opener, callVars, timer, cancelled,
                   due>>

-----------------------------------------------------------------------------
\* close(): cancel_all() of a hooked descriptor,
CancelNone == UNCHANGED <<registered, entry, pc>>
CancelAll == IF entry THEN Trigger(registered) ELSE UNCHANGED <<registered, entry, pc>>
CloseCancels ==
    /\ closer = "idle" /\ opener = "idle" /\ Room
    /\ sock # 0 /\ ctx # NoCtx
    /\ CancelAll
    /\ closer' = "del"
    /\ UNCHANGED <<threads, sock, sockets, ctx, opener, callVars, timerVars>>

\* FdManager::del(),
CloseKeepsCtx ==
    /\ closer = "del" /\ closer' = "close"
    /\ UNCHANGED <<threads, fdVars, pc, opener, callVars, timerVars>>
CloseDeletes ==
    /\ closer = "del" /\ closer' = "close"
    /\ ctx' = NoCtx
    /\ UNCHANGED <<threads, sock, sockets, entry, registered, pc, opener, callVars, timerVars>>

\* then close_f(), which also removes the descriptor from epoll.
CloseFd ==
    /\ closer = "close" /\ closer' = "idle"
    /\ sock' = 0 /\ entry' = FALSE
    /\ UNCHANGED <<threads, sockets, ctx, registered, pc, opener, callVars, timerVars>>

\* socket() or accept(): the kernel hands the number out again,
Open ==
    /\ opener = "idle" /\ Room
    /\ sock = 0 /\ sockets < MaxSockets
    /\ sockets' = sockets + 1 /\ sock' = sockets'
    /\ opener' = "get"
    /\ UNCHANGED <<threads, ctx, entry, registered, pc, closer, callVars, timerVars>>

\* and FdManager::get(fd, true) makes a context unless there is one.
OpenGets ==
    /\ opener = "get" /\ opener' = "idle"
    /\ ctx' = IF ctx = NoCtx THEN [NoCtx EXCEPT !.sock = sock] ELSE ctx
    /\ UNCHANGED <<threads, sock, sockets, entry, registered, pc, closer, callVars, timerVars>>

\* setsockopt(SO_RCVTIMEO or SO_SNDTIMEO) and fcntl(F_SETFL) or ioctl(FIONBIO).
SetTimeout(d) ==
    /\ Room /\ ctx # NoCtx
    /\ ctx' = [ctx EXCEPT !.timeout = @ \cup {d}]
    /\ UNCHANGED <<threads, sock, sockets, entry, registered, pc, closer, opener, callVars,
                   timerVars>>

SetUserNonblock(v) ==
    /\ Room /\ ctx # NoCtx
    /\ ctx' = [ctx EXCEPT !.user_nonblock = v]
    /\ UNCHANGED <<threads, sock, sockets, entry, registered, pc, closer, opener, callVars,
                   timerVars>>

-----------------------------------------------------------------------------
FiberStep(f) ==
    TryDone(f) \/ TryBlocks(f) \/ AddTimer(f) \/ AddEvent(f) \/ AddRefused(f) \/ SocketError(f)

CallbackStep(c) == CallbackDropped(c) \/ CallbackTimesOut(c)

Next ==
    \/ \E f \in Fibers :
        \/ \E k \in {"io", "connect"} : Call(f, k)
        \/ FiberStep(f) \/ Resume(f) \/ EventFires(f) \/ TimerExpires(f)
    \/ \E c \in Calls : CallbackStep(c) \/ CallbackCancels(c)
    \/ CloseCancels \/ CloseDeletes \/ CloseFd \/ Open \/ OpenGets
    \/ \E d \in Limitable : SetTimeout(d)
    \/ \E v \in BOOLEAN : SetUserNonblock(v)

Spec == Init /\ [][Next]_vars

\* A running task is not suspended for good; the task list is served in order
\* and every pass of the idle loop collects the timers that are due before it
\* dispatches events, so neither is starved by other tasks.
Fairness ==
    /\ WF_vars(CloseDeletes \/ CloseFd) /\ WF_vars(OpenGets)
    /\ \A f \in Fibers : WF_vars(FiberStep(f)) /\ SF_vars(Resume(f)) /\ SF_vars(TimerExpires(f))
    /\ \A c \in Calls : SF_vars(CallbackStep(c)) /\ WF_vars(CallbackCancels(c))

FairSpec == Spec /\ Fairness

-----------------------------------------------------------------------------
\* A call ends with ETIMEDOUT only after a timer of this very call has expired:
\* a callback that is late, of an earlier call of the same fiber, is dropped.
TimeoutIsOwn ==
    \A f \in Fibers : errno[f] = "ETIMEDOUT" => f \in due

\* The FdCtx belongs to the socket behind the descriptor: a number that is
\* closed and handed out again, while a close() is still under way elsewhere,
\* neither inherits the old socket's flags and time limits nor stays unhooked.
FreshContext ==
    /\ ctx # NoCtx => ctx.sock = sock
    /\ sock # 0 /\ ctx = NoCtx => opener = "get" \/ closer = "close"

\* No timer outlives the wait it limits, whichever way the wait ends.
NoTimerLeft == \A f \in timer : pc[f] \in {"add", "waiting", "woken"}

\* On one thread, where a close() is not interrupted, nobody waits on a closed
\* descriptor: a waiting fiber is registered with the kernel.
NoWaitOnClosed ==
    threads = 1 => \A f \in Fibers : pc[f] = "waiting" => f \in registered /\ entry

\* On one thread a wait with a time limit ends.
TimedWaitEnds ==
    \A f \in Fibers :
        (threads = 1 /\ to[f] /\ pc[f] = "waiting") ~> pc[f] # "waiting"

\* A wait with a time limit has a timer, queued or with its callback on the way,
\* that will cancel the event: not so on two threads (MCHookTimeout.cfg).
TimeoutArmed ==
    \A f \in Fibers : to[f] /\ pc[f] = "waiting" =>
        f \in timer \/ <<f, call[f]>> \in expired

\* What is registered, queued and known of a descriptor fits the calls that
\* wait on it (do_io, connect, close).
WaitsSound == TypeOK /\ NoTimerLeft /\ NoWaitOnClosed
=============================================================================
