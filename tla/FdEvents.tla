------------------------------ MODULE FdEvents ------------------------------
(***************************************************************************)
(* The event registry of acid::IOManager (acid/common/iomanager.cpp): the  *)
(* table of FdContexts, add_event / del_event / cancel_event / cancel_all, *)
(* and the dispatch of epoll reports by the idle loops of several threads. *)
(*                                                                         *)
(* A fiber is the one that waits for one event of one descriptor.          *)
(* A step is one critical section of IOManager::m_mutex or of              *)
(* FdContext::mutex.  The look-up that precedes the FdContext section in   *)
(* del_event, cancel_event and cancel_all is folded into it: a context is  *)
(* never freed, and a resize in between touches no existing context.       *)
(***************************************************************************)
EXTENDS Naturals, FiniteSets

CONSTANTS
    Fds,          \* descriptors, natural numbers
    Fibers,       \* pairs <<fd, event>>: the registrations fibers make
    Dispatchers,  \* threads that run idle()
    Racy,         \* descriptors other fibers cancel, or two threads get reports of
    FirstSize,    \* size of m_fd_contexts after the constructor (32)
    MaxGen,       \* bound: contexts that may be allocated for a descriptor
    FirstEvents   \* what the uninitialised FdContext::events may hold

Event == {"READ", "WRITE"}
Contexts == Fds \X (1..MaxGen)

ASSUME FdEventsAssumption ==
    /\ Fds \subseteq Nat /\ Fibers \subseteq Fds \X Event
    /\ FirstSize \in Nat /\ MaxGen \in Nat \ {0}
    /\ FirstEvents # {} /\ FirstEvents \subseteq SUBSET Event
    /\ Racy \subseteq Fds

VARIABLES
    size,      \* m_fd_contexts.size()
    gen,       \* m_fd_contexts[fd] is the context <<fd, gen[fd]>>
    events,    \* FdContext::events
    armed,     \* events whose EventContext is filled
    pending,   \* m_pending_event_count
    interest,  \* the kernel's entry per fd: data.ptr and the event mask
    phase,     \* "idle", "resize", "add", "waiting", "woken" per fiber
    ctx,       \* the context a fiber's add_event works on
    report,    \* the epoll_event a dispatcher holds, or NoReport
    failed     \* an assertion of the code has failed

vars == <<size, gen, events, armed, pending, interest, phase, ctx, report, failed>>

NoContext == <<>>
NoInterest == [ptr |-> NoContext, mask |-> {}]
NoReport == [ptr |-> NoContext, mask |-> {}, err |-> FALSE]

TypeOK ==
    /\ size \in Nat
    /\ gen \in [Fds -> 0..MaxGen]
    /\ events \in [Contexts -> SUBSET Event]
    /\ armed \in [Contexts -> SUBSET Event]
    /\ pending \in Nat
    /\ interest \in [Fds -> [ptr : Contexts \cup {NoContext}, mask : SUBSET Event]]
    /\ phase \in [Fibers -> {"idle", "resize", "add", "waiting", "woken"}]
    /\ ctx \in [Fibers -> Contexts \cup {NoContext}]
    /\ report \in [Dispatchers ->
                    [ptr : Contexts \cup {NoContext}, mask : SUBSET Event, err : BOOLEAN]]
    /\ failed \in BOOLEAN

Init ==
    /\ size = FirstSize
    /\ gen = [fd \in Fds |-> IF fd < FirstSize THEN 1 ELSE 0]
    /\ events \in [Contexts -> FirstEvents]
    /\ armed = [x \in Contexts |-> {}]
    /\ pending = 0
    /\ interest = [fd \in Fds |-> NoInterest]
    /\ phase = [c \in Fibers |-> "idle"]
    /\ ctx = [c \in Fibers |-> NoContext]
    /\ report = [d \in Dispatchers |-> NoReport]
    /\ failed = FALSE

Fd(x) == x[1]
Ev(c) == c[2]
InTable(fd) == fd < size
Current(fd) == <<fd, gen[fd]>>

-----------------------------------------------------------------------------
\* epoll_ctl on the descriptor of context x with the mask the code computed:
\* ADD needs an absent entry, MOD and DEL a present one.
EpollAdd(x, before, after) ==
    /\ (before = {}) <=> (interest[Fd(x)] = NoInterest)
    /\ interest' = [interest EXCEPT ![Fd(x)] = [ptr |-> x, mask |-> after]]

EpollDelete(x, after) ==
    /\ interest[Fd(x)] # NoInterest
    /\ interest' = [interest EXCEPT ![Fd(x)] = NoInterest]
EpollShrink(x, after) ==
    /\ interest[Fd(x)] # NoInterest
    /\ interest' = [interest EXCEPT ![Fd(x)] =
                     IF after = {} THEN NoInterest ELSE [ptr |-> x, mask |-> after]]

\* reset_event_context() for the events of set.
ContextsLeft(x, set) == [armed EXCEPT ![x] = @ \ set]

\* --m_pending_event_count for each of them.
PendingKept(set) == pending
PendingLeft(set) == pending - Cardinality(set)

\* trigger_event() and the decrement for every event of set: clear the bit,
\* schedule the waiting fiber, reset the EventContext.
TriggerAll(x, set) ==
    /\ events' = [events EXCEPT ![x] = @ \ set]
    /\ armed' = ContextsLeft(x, set)
    /\ phase' = [c \in Fibers |->
                  IF Fd(c) = Fd(x) /\ Ev(c) \in set /\ phase[c] = "waiting" /\ ctx[c] = x
                  THEN "woken" ELSE phase[c]]
    /\ pending' = PendingLeft(set)

-----------------------------------------------------------------------------
\* add_event(): look the context up under the read lock.
AddLookupNoTest(c) ==
    /\ phase[c] = "idle"
    /\ phase' = [phase EXCEPT ![c] = "resize"]
    /\ UNCHANGED <<size, gen, events, armed, pending, interest, ctx, report, failed>>
AddLookup(c) ==
    /\ phase[c] = "idle"
    /\ IF InTable(Fd(c))
       THEN /\ phase' = [phase EXCEPT ![c] = "add"]
            /\ ctx' = [ctx EXCEPT ![c] = Current(Fd(c))]
       ELSE phase' = [phase EXCEPT ![c] = "resize"] /\ UNCHANGED ctx
    /\ UNCHANGED <<size, gen, events, armed, pending, interest, report, failed>>

\* The size add_event() asks for: fd * 1.5.
NewSize(fd) == (fd * 3) \div 2

\* add_event(): context_resize() under the write lock.  The table has been
\* unlocked since the look-up and is not looked at again; resize() also
\* shrinks.
AddResize(c) ==
    LET n == NewSize(Fd(c))
        fresh == {fd \in Fds : size <= fd /\ fd < n}
    IN  /\ phase[c] = "resize"
        /\ \A fd \in fresh : gen[fd] < MaxGen
        /\ size' = n
        /\ gen' = [fd \in Fds |-> IF fd \in fresh THEN gen[fd] + 1 ELSE gen[fd]]
        /\ ctx' = [ctx EXCEPT ![c] = <<Fd(c), gen'[Fd(c)]>>]
        /\ phase' = [phase EXCEPT ![c] = "add"]
        /\ UNCHANGED <<events, armed, pending, interest, report, failed>>

\* add_event(): the section under FdContext::mutex.  A registered event is an
\* assertion failure; a filled EventContext is another.
AddEvent(c) ==
    LET x == ctx[c]
    IN  /\ phase[c] = "add"
        /\ EpollAdd(x, events[x], events[x] \cup {Ev(c)})
        /\ pending' = pending + 1
        /\ events' = [events EXCEPT ![x] = @ \cup {Ev(c)}]
        /\ armed' = [armed EXCEPT ![x] = @ \cup {Ev(c)}]
        /\ phase' = [phase EXCEPT ![c] = "waiting"]
        /\ failed' = (failed \/ Ev(c) \in events[x] \/ Ev(c) \in armed[x])
        /\ UNCHANGED <<size, gen, ctx, report>>

\* The same when epoll_ctl fails: add_event() returns -1.
AddRefused(c) ==
    LET x == ctx[c]
    IN  /\ phase[c] = "add"
        /\ phase' = [phase EXCEPT ![c] = "idle"]
        /\ ctx' = [ctx EXCEPT ![c] = NoContext]
        /\ failed' = (failed \/ Ev(c) \in events[x])
        /\ UNCHANGED <<size, gen, events, armed, pending, interest, report>>

\* A woken fiber goes on with its I/O and may register again.
Proceed(c) ==
    /\ phase[c] = "woken"
    /\ phase' = [phase EXCEPT ![c] = "idle"]
    /\ ctx' = [ctx EXCEPT ![c] = NoContext]
    /\ UNCHANGED <<size, gen, events, armed, pending, interest, report, failed>>

-----------------------------------------------------------------------------
\* del_event(): the event is dropped and its fiber is not woken.
DelEvent(fd, e) ==
    LET x == Current(fd)
    IN  /\ fd \in Racy /\ InTable(fd) /\ e \in events[x]
        /\ EpollShrink(x, events[x] \ {e})
        /\ pending' = PendingLeft({e})
        /\ events' = [events EXCEPT ![x] = @ \ {e}]
        /\ armed' = ContextsLeft(x, {e})
        /\ phase' = [c \in Fibers |-> IF c = <<fd, e>> /\ ctx[c] = x /\ phase[c] = "waiting"
                                       THEN "idle" ELSE phase[c]]
        /\ UNCHANGED <<size, gen, ctx, report, failed>>

\* cancel_event(): the event is removed and its fiber is woken.
CancelEvent(fd, e) ==
    LET x == Current(fd)
    IN  /\ fd \in Racy /\ InTable(fd) /\ e \in events[x]
        /\ EpollShrink(x, events[x] \ {e})
        /\ TriggerAll(x, {e})
        /\ UNCHANGED <<size, gen, ctx, report, failed>>

\* cancel_all(): every registered event is removed and its fiber woken.
CancelAll(fd) ==
    LET x == Current(fd)
    IN  /\ fd \in Racy /\ InTable(fd) /\ events[x] # {}
        /\ EpollShrink(x, {})
        /\ TriggerAll(x, events[x])
        /\ UNCHANGED <<size, gen, ctx, report, failed>>

-----------------------------------------------------------------------------
\* epoll_wait returns a report for fd: some of the events asked for, or an
\* error or hang-up condition.
EpollWait(d, fd) ==
    /\ report[d] = NoReport /\ interest[fd] # NoInterest
    /\ fd \in Racy \/ \A b \in Dispatchers : report[b].ptr # interest[fd].ptr
    /\ \E mask \in SUBSET interest[fd].mask, err \in BOOLEAN :
        /\ err \/ mask # {}
        /\ report' = [report EXCEPT ![d] = [ptr |-> interest[fd].ptr, mask |-> mask, err |-> err]]
    /\ UNCHANGED <<size, gen, events, armed, pending, interest, phase, ctx, failed>>

\* The events a report stands for: an error or hang-up wakes every waiter.
RealEventsAll(r) == IF r.err THEN Event ELSE r.mask
RealEvents(r) == IF r.err THEN r.mask \cup events[r.ptr] ELSE r.mask

Reported(d) == report[d] # NoReport
Done(d) == report' = [report EXCEPT ![d] = NoReport]

\* The dispatch of one report: nothing registered is concerned, or epoll_ctl
\* fails, and the report is passed over ...
DispatchNothing(d) ==
    /\ Reported(d)
    /\ Done(d)
    /\ LET r == report[d]
       IN  \/ events[r.ptr] \cap RealEvents(r) = {}
           \/ interest[Fd(r.ptr)] = NoInterest
    /\ UNCHANGED <<size, gen, events, armed, pending, interest, phase, ctx, failed>>

\* ... or the reported events are taken out of epoll and triggered.  The code
\* triggers real_events, not events & real_events: one that is no longer
\* registered meets the assertion of trigger_event().
Dispatch(d) ==
    LET r == report[d]
        x == r.ptr
        real == RealEvents(r)
    IN  /\ Reported(d)
        /\ events[x] \cap real # {}
        /\ EpollShrink(x, events[x] \ real)
        /\ failed' = (failed \/ ~(real \subseteq events[x]))
        /\ IF real \subseteq events[x]
           THEN TriggerAll(x, real)
           ELSE UNCHANGED <<events, armed, pending, phase>>
        /\ Done(d)
        /\ UNCHANGED <<size, gen, ctx>>

-----------------------------------------------------------------------------
Next ==
    \/ \E c \in Fibers :
        AddLookup(c) \/ AddResize(c) \/ AddEvent(c) \/ AddRefused(c) \/ Proceed(c)
    \/ \E fd \in Fds : CancelAll(fd) \/ \E e \in Event : DelEvent(fd, e) \/ CancelEvent(fd, e)
    \/ \E d \in Dispatchers :
        DispatchNothing(d) \/ Dispatch(d) \/ \E fd \in Fds : EpollWait(d, fd)

Spec == Init /\ [][Next]_vars

-----------------------------------------------------------------------------
\* The assertions of add_event() and trigger_event() hold: an event is
\* registered at most once at a time and only a registered event is triggered.
AssertsHold == ~failed

\* m_pending_event_count, which keeps the scheduler from stopping, is the
\* number of registered events over all contexts.
PendingCounts ==
    pending = Cardinality({q \in Contexts \X Event : q[2] \in events[q[1]]})

\* A fiber that waits for an event can be reached: its event is registered with
\* an EventContext, and the kernel reports it with the same context.
WaiterReachable ==
    \A c \in Fibers : phase[c] = "waiting" =>
        /\ Ev(c) \in events[ctx[c]] /\ Ev(c) \in armed[ctx[c]]
        /\ interest[Fd(c)] = [ptr |-> ctx[c], mask |-> events[ctx[c]]]

\* A registered event wakes somebody: no EventContext is left without a fiber
\* that waits on it, so no trigger schedules a stale fiber.
NoStaleWaiter ==
    \A x \in Contexts : \A e \in armed[x] : <<Fd(x), e>> \in Fibers =>
        phase[<<Fd(x), e>>] = "waiting" /\ ctx[<<Fd(x), e>>] = x

\* cancel_event() and cancel_all() on a descriptor find the context its waiting
\* fiber is registered in.
CancelFindsWaiter ==
    \A c \in Fibers : phase[c] = "waiting" => InTable(Fd(c)) /\ ctx[c] = Current(Fd(c))

\* Kernel, context and table agree on the fiber that waits for an event, with
\* nobody registered who does not wait (IOManager::add_event, del_event,
\* cancel_event, cancel_all, idle).
WaitersFound == TypeOK /\ WaiterReachable /\ NoStaleWaiter /\ CancelFindsWaiter
=============================================================================
