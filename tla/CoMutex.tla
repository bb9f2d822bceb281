------------------------------- MODULE CoMutex -------------------------------
(***************************************************************************)
(* acid::CoMutex (acid/common/co_mutex.cpp): a lock for fibers made of two *)
(* spin locks.  m_mutex is the lock itself, m_guard protects the queue of  *)
(* waiting fibers, m_fiber_id names the holder so that lock() returns at   *)
(* once when the holder calls it again.                                    *)
(*                                                                         *)
(* A step is one critical section of m_guard or one access outside it.     *)
(* Fibers run on Threads threads: a fiber keeps its thread until it yields *)
(* (parked in lock(), or waiting for I/O inside its critical section) or   *)
(* leaves the section.                                                     *)
(***************************************************************************)
EXTENDS Naturals, Sequences, FiniteSets

CONSTANTS
    Fibers,     \* fibers that use the lock
    NoFiber,    \* 0, the id that no fiber has
    FirstIds,   \* what the uninitialised m_fiber_id may hold at construction
    Threads     \* number of threads of the IOManager

ASSUME CoMutexAssumption ==
    /\ NoFiber \notin Fibers /\ Threads \in Nat \ {0}
    /\ FirstIds # {}

VARIABLES
    m_mutex,       \* the spin lock is taken
    m_fiber_id,
    m_wait_queue,
    pc,            \* where each fiber is
    waking,        \* the waiter an unlock() in progress has taken out
    scheduled,     \* fibers in the scheduler's task list
    active         \* fibers that occupy a thread

vars == <<m_mutex, m_fiber_id, m_wait_queue, pc, waking, scheduled, active>>

Labels == {"out", "try", "guard", "yield", "parked", "setid", "in", "release", "wake"}

TypeOK ==
    /\ m_mutex \in BOOLEAN
    /\ m_fiber_id \in Fibers \cup {NoFiber} \cup FirstIds
    /\ m_wait_queue \in Seq(Fibers)
    /\ pc \in [Fibers -> Labels]
    /\ waking \in [Fibers -> Fibers \cup {NoFiber}]
    /\ scheduled \in SUBSET Fibers
    /\ active \in SUBSET Fibers

Init ==
    /\ m_mutex = FALSE
    /\ m_fiber_id \in FirstIds
    /\ m_wait_queue = <<>>
    /\ pc = [f \in Fibers |-> "out"]
    /\ waking = [f \in Fibers |-> NoFiber]
    /\ scheduled = {} /\ active = {}

Goto(f, label) == pc' = [pc EXCEPT ![f] = label]

\* A thread is free to resume a fiber.
Room == Cardinality(active) < Threads

-----------------------------------------------------------------------------
\* lock(): the holder returns at once, everyone else goes on to try_lock().
Lock(f) ==
    /\ pc[f] = "out" /\ Room
    /\ active' = active \cup {f}
    /\ Goto(f, IF m_fiber_id = f THEN "in" ELSE "try")
    /\ UNCHANGED <<m_mutex, m_fiber_id, m_wait_queue, waking, scheduled>>

\* The condition of the while loop.
TryLockBlind(f) ==
    /\ pc[f] = "try"
    /\ m_mutex' = TRUE
    /\ Goto(f, "setid")
    /\ UNCHANGED <<m_fiber_id, m_wait_queue, waking, scheduled, active>>
TryLock(f) ==
    /\ pc[f] = "try"
    /\ m_mutex' = TRUE
    /\ Goto(f, IF m_mutex THEN "guard" ELSE "setid")
    /\ UNCHANGED <<m_fiber_id, m_wait_queue, waking, scheduled, active>>

\* The section under m_guard: a second try, then into the queue.
GuardedTry(f) ==
    /\ pc[f] = "guard"
    /\ IF m_mutex
       THEN /\ m_wait_queue' = Append(m_wait_queue, f)
            /\ Goto(f, "yield")
            /\ UNCHANGED <<m_mutex, m_fiber_id>>
       ELSE /\ m_mutex' = TRUE
            /\ m_fiber_id' = f
            /\ Goto(f, "in")
            /\ UNCHANGED m_wait_queue
    /\ UNCHANGED <<waking, scheduled, active>>

\* self->yield(): the thread goes back to the scheduler.
Yield(f) ==
    /\ pc[f] = "yield"
    /\ Goto(f, "parked")
    /\ active' = active \ {f}
    /\ UNCHANGED <<m_mutex, m_fiber_id, m_wait_queue, waking, scheduled>>

\* A thread takes the fiber from the task list; it goes round the loop.
Resume(f) ==
    /\ pc[f] = "parked" /\ f \in scheduled /\ Room
    /\ Goto(f, "try")
    /\ scheduled' = scheduled \ {f}
    /\ active' = active \cup {f}
    /\ UNCHANGED <<m_mutex, m_fiber_id, m_wait_queue, waking>>

\* The last line of lock().
SetId(f) ==
    /\ pc[f] = "setid"
    /\ m_fiber_id' = f
    /\ Goto(f, "in")
    /\ UNCHANGED <<m_mutex, m_wait_queue, waking, scheduled, active>>

-----------------------------------------------------------------------------
\* Inside the critical section the fiber may wait for I/O and come back.
AwaitIO(f) ==
    /\ pc[f] = "in" /\ f \in active
    /\ active' = active \ {f}
    /\ UNCHANGED <<m_mutex, m_fiber_id, m_wait_queue, pc, waking, scheduled>>

FinishIO(f) ==
    /\ pc[f] = "in" /\ f \notin active /\ Room
    /\ active' = active \cup {f}
    /\ UNCHANGED <<m_mutex, m_fiber_id, m_wait_queue, pc, waking, scheduled>>

-----------------------------------------------------------------------------
\* unlock() takes the first waiter out of the queue, if there is one.
TakeNone(f) == UNCHANGED <<m_wait_queue, waking>>
TakeNoPop(f) ==
    /\ waking' = [waking EXCEPT ![f] = IF m_wait_queue = <<>> THEN NoFiber ELSE Head(m_wait_queue)]
    /\ UNCHANGED m_wait_queue
TakeWaiter(f) ==
    IF m_wait_queue = <<>>
    THEN UNCHANGED <<m_wait_queue, waking>>
    ELSE /\ waking' = [waking EXCEPT ![f] = Head(m_wait_queue)]
         /\ m_wait_queue' = Tail(m_wait_queue)

\* unlock(), the section under m_guard: forget the holder, take a waiter.
UnlockKeepId(f) ==
    /\ pc[f] = "in" /\ f \in active
    /\ TakeWaiter(f)
    /\ Goto(f, "release")
    /\ UNCHANGED <<m_mutex, m_fiber_id, scheduled, active>>
UnlockGuarded(f) ==
    /\ pc[f] = "in" /\ f \in active
    /\ m_fiber_id' = NoFiber
    /\ TakeWaiter(f)
    /\ Goto(f, "release")
    /\ UNCHANGED <<m_mutex, scheduled, active>>

\* unlock() returns.
AfterUnlock(f) == Goto(f, "out") /\ active' = active \ {f}

\* m_mutex.unlock(), outside m_guard.
Release(f) ==
    /\ pc[f] = "release"
    /\ m_mutex' = FALSE
    /\ IF waking[f] = NoFiber THEN AfterUnlock(f) ELSE Goto(f, "wake") /\ UNCHANGED active
    /\ UNCHANGED <<m_fiber_id, m_wait_queue, waking, scheduled>>

\* IOManager::get_this()->schedule(fiber).
WakeWaiter(f) ==
    /\ pc[f] = "wake"
    /\ scheduled' = scheduled \cup {waking[f]}
    /\ waking' = [waking EXCEPT ![f] = NoFiber]
    /\ AfterUnlock(f)
    /\ UNCHANGED <<m_mutex, m_fiber_id, m_wait_queue>>

-----------------------------------------------------------------------------
InCall(f) ==
    \/ TryLock(f) \/ GuardedTry(f) \/ Yield(f) \/ Resume(f) \/ SetId(f)
    \/ Release(f) \/ WakeWaiter(f)

InSection(f) == AwaitIO(f) \/ FinishIO(f) \/ UnlockGuarded(f)

Next == \E f \in Fibers : Lock(f) \/ InCall(f) \/ InSection(f)

Spec == Init /\ [][Next]_vars

-----------------------------------------------------------------------------
\* The caller of lock() is inside its critical section.
InCS(f) == pc[f] = "in"

\* No two fibers are between the return of lock() and the call of unlock().
MutualExclusion == \A f, g \in Fibers : InCS(f) /\ InCS(g) => f = g

\* m_fiber_id names a fiber only while that fiber is in its critical section:
\* the early return of lock() is taken by the holder alone.
IdNamesHolder == m_fiber_id \in Fibers => InCS(m_fiber_id)

\* A parked fiber can be reached by exactly one wake-up: it is in the queue
\* once, or taken by one unlock(), or in the task list; so it is neither lost
\* nor scheduled twice.
Places(f) ==
    Cardinality({i \in DOMAIN m_wait_queue : m_wait_queue[i] = f})
    + Cardinality({g \in Fibers : waking[g] = f})
    + (IF f \in scheduled THEN 1 ELSE 0)
OneWakeUp ==
    \A f \in Fibers : Places(f) = IF pc[f] \in {"yield", "parked"} THEN 1 ELSE 0

\* While a fiber waits in the queue, the lock is taken or some fiber is still
\* on its way through lock() or unlock(): nobody sleeps beside a free lock.
\* Not so on two threads (unlock(), MCCoMutexLost.cfg).
NoLostWakeUp ==
    m_wait_queue # <<>> =>
        \/ m_mutex
        \/ scheduled # {}
        \/ \E f \in Fibers : pc[f] \notin {"out", "parked"}

\* CoMutex implements MutexSpec: the holder is the fiber in its section.
Holder == IF \E f \in Fibers : InCS(f) THEN CHOOSE f \in Fibers : InCS(f) ELSE NoFiber
Abstract == INSTANCE MutexSpec WITH holder <- Holder
ImplementsMutex == Abstract!Spec
=============================================================================
