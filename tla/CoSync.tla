------------------------------- MODULE CoSync -------------------------------
(***************************************************************************)
(* What the library builds on CoMutex and CoCond (acid/common/co_mutex.cpp, *)
(* channel.h): Channel, CoSemaphore and CoCountDownLatch.                   *)
(*                                                                          *)
(* Each object is used under its own CoMutex and a fiber gives the lock up  *)
(* only inside CoCond::wait(lock), so a step is what a fiber does from the  *)
(* moment it gets the lock until it returns or waits; MutexSpec stands for  *)
(* the lock.  CoCond::wait queues the fiber and unlocks under the spin lock *)
(* that notify() takes.  A notified fiber competes for the lock with all    *)
(* others.                                                                  *)
(***************************************************************************)
EXTENDS Naturals, Sequences, FiniteSets, SequencesExt

CONSTANTS
    Users,       \* fibers that use the three objects
    m_capacity,  \* of the channel
    m_num,       \* of the semaphore
    Count,       \* the latch's initial count
    MaxItems     \* bound: values pushed to the channel

ASSUME CoSyncAssumption ==
    /\ m_capacity \in Nat \ {0} /\ m_num \in Nat \ {0}
    /\ Count \in Nat /\ MaxItems \in Nat

\* The condition variables of the three objects.
Conds == {"push", "pop", "sem", "latch"}

VARIABLES
    cond,        \* m_wait_queue and m_timer of each CoCond
    at,          \* the condition a fiber waits on or was woken from, or "none"
    m_queue,     \* the channel's values, numbered as they are pushed
    m_is_close,
    pushed,      \* values push() accepted
    popped,      \* values pop() returned
    m_used,      \* of the semaphore
    m_count      \* of the latch

syncVars == <<cond, at, m_queue, m_is_close, pushed, popped, m_used, m_count>>
channel == <<m_queue, m_is_close, pushed, popped>>

SyncTypeOK ==
    /\ cond \in [Conds -> [m_wait_queue : Seq(Users), m_timer : BOOLEAN]]
    /\ at \in [Users -> Conds \cup {"none"}]
    /\ m_queue \in Seq(1..MaxItems) /\ m_is_close \in BOOLEAN
    /\ pushed \in 0..MaxItems /\ popped \in 0..MaxItems
    /\ m_used \in 0..m_num /\ m_count \in 0..Count

SyncInit ==
    /\ cond = [c \in Conds |-> [m_wait_queue |-> <<>>, m_timer |-> FALSE]]
    /\ at = [f \in Users |-> "none"]
    /\ m_queue = <<>> /\ m_is_close = FALSE /\ pushed = 0 /\ popped = 0
    /\ m_used = 0 /\ m_count = Count

-----------------------------------------------------------------------------
Waiting(c) == ToSet(cond[c].m_wait_queue)
Woken(c) == {f \in Users : at[f] = c} \ Waiting(c)

\* CoCond::wait(lock) by f; the timer keeps the scheduler from stopping.
Wait(c, f) ==
    /\ cond' = [cond EXCEPT ![c] = [m_wait_queue |-> Append(@.m_wait_queue, f),
                                    m_timer |-> TRUE]]
    /\ at' = [at EXCEPT ![f] = c]

\* What CoCond::notify() and notify_all() leave of a condition variable.
Notified(c) ==
    IF c.m_wait_queue = <<>>
    THEN c
    ELSE [m_wait_queue |-> Tail(c.m_wait_queue), m_timer |-> FALSE]
NotifiedAll(c) == [m_wait_queue |-> <<>>, m_timer |-> FALSE]

\* f has the lock: it calls the operation, or was woken inside it.
Enters(c, f) == at[f] = "none" \/ f \in Woken(c)
Returns(f) == at' = [at EXCEPT ![f] = "none"]

-----------------------------------------------------------------------------
\* ChannelImpl::push(): refused once closed, waits while the queue is full.
Full == Len(m_queue) >= m_capacity
MustWait(f) == Full
PushRefused(f) ==
    /\ Enters("push", f) /\ m_is_close
    /\ Returns(f)
    /\ UNCHANGED <<cond, channel, m_used, m_count>>

PushWaits(f) ==
    /\ Enters("push", f) /\ ~m_is_close /\ MustWait(f)
    /\ Wait("push", f)
    /\ UNCHANGED <<channel, m_used, m_count>>

Push(f) ==
    /\ Enters("push", f) /\ ~m_is_close /\ ~MustWait(f)
    /\ pushed < MaxItems
    /\ pushed' = pushed + 1
    /\ m_queue' = Append(m_queue, pushed')
    /\ cond' = [cond EXCEPT !["pop"] = Notified(@)]
    /\ Returns(f)
    /\ UNCHANGED <<m_is_close, popped, m_used, m_count>>

\* ChannelImpl::pop().
PopRefused(f) ==
    /\ Enters("pop", f) /\ m_is_close
    /\ Returns(f)
    /\ UNCHANGED <<cond, channel, m_used, m_count>>

PopWaits(f) ==
    /\ Enters("pop", f) /\ ~m_is_close /\ m_queue = <<>>
    /\ Wait("pop", f)
    /\ UNCHANGED <<channel, m_used, m_count>>

LatestValue(q) == Last(q)
NextValue(q) == Head(q)
PopSilent(f) ==
    /\ Enters("pop", f) /\ ~m_is_close /\ m_queue # <<>>
    /\ popped' = NextValue(m_queue)
    /\ m_queue' = Tail(m_queue)
    /\ Returns(f)
    /\ UNCHANGED <<cond, m_is_close, pushed, m_used, m_count>>
Pop(f) ==
    /\ Enters("pop", f) /\ ~m_is_close /\ m_queue # <<>>
    /\ popped' = NextValue(m_queue)
    /\ m_queue' = Tail(m_queue)
    /\ cond' = [cond EXCEPT !["push"] = Notified(@)]
    /\ Returns(f)
    /\ UNCHANGED <<m_is_close, pushed, m_used, m_count>>

\* ChannelImpl::close(): everybody is woken, the values left are dropped.
CloseOnce(f) ==
    /\ at[f] = "none" /\ ~m_is_close
    /\ m_is_close' = TRUE
    /\ cond' = [cond EXCEPT !["push"] = Notified(@), !["pop"] = Notified(@)]
    /\ m_queue' = <<>>
    /\ UNCHANGED <<at, pushed, popped, m_used, m_count>>
Close(f) ==
    /\ at[f] = "none" /\ ~m_is_close
    /\ m_is_close' = TRUE
    /\ cond' = [cond EXCEPT !["push"] = NotifiedAll(@), !["pop"] = NotifiedAll(@)]
    /\ m_queue' = <<>>
    /\ UNCHANGED <<at, pushed, popped, m_used, m_count>>

-----------------------------------------------------------------------------
\* CoSemaphore::wait() and notify().
SemWaits(f) ==
    /\ Enters("sem", f) /\ m_used >= m_num
    /\ Wait("sem", f)
    /\ UNCHANGED <<channel, m_used, m_count>>

SemGets(f) ==
    /\ Enters("sem", f) /\ m_used < m_num
    /\ m_used' = m_used + 1
    /\ Returns(f)
    /\ UNCHANGED <<cond, channel, m_count>>

Freed == IF m_used > 0 THEN m_used - 1 ELSE 0
SemNotify(f) ==
    /\ at[f] = "none"
    /\ m_used' = Freed
    /\ cond' = [cond EXCEPT !["sem"] = Notified(@)]
    /\ UNCHANGED <<at, channel, m_count>>

-----------------------------------------------------------------------------
\* CoCountDownLatch::wait(): a woken fiber does not test m_count again.
LatchWaits(f) ==
    /\ at[f] = "none" /\ m_count > 0
    /\ Wait("latch", f)
    /\ UNCHANGED <<channel, m_used, m_count>>

LatchPassed(f) ==
    /\ f \in Woken("latch")
    /\ Returns(f)
    /\ UNCHANGED <<cond, channel, m_used, m_count>>

CountDownAlways(f) ==
    /\ at[f] = "none" /\ m_count > 0
    /\ m_count' = m_count - 1
    /\ cond' = [cond EXCEPT !["latch"] = NotifiedAll(@)]
    /\ UNCHANGED <<at, channel, m_used>>
count_down(f) ==
    /\ at[f] = "none" /\ m_count > 0
    /\ m_count' = m_count - 1
    /\ cond' = [cond EXCEPT !["latch"] = IF m_count' = 0 THEN NotifiedAll(@) ELSE @]
    /\ UNCHANGED <<at, channel, m_used>>

-----------------------------------------------------------------------------
\* A woken fiber goes on.
Continues(f) ==
    /\ at[f] # "none"
    /\ \/ PushRefused(f) \/ PushWaits(f) \/ Push(f)
       \/ PopRefused(f) \/ PopWaits(f) \/ Pop(f)
       \/ SemWaits(f) \/ SemGets(f) \/ LatchPassed(f)

Calls(f) ==
    /\ at[f] = "none"
    /\ \/ PushWaits(f) \/ Push(f) \/ PopWaits(f) \/ Pop(f) \/ Close(f)
       \/ SemWaits(f) \/ SemGets(f) \/ SemNotify(f)
       \/ LatchWaits(f) \/ count_down(f)

SyncNext == \E f \in Users : Continues(f) \/ Calls(f)

SyncSpec == SyncInit /\ [][SyncNext]_syncVars

-----------------------------------------------------------------------------
\* Values come out of an open channel in the order push() accepted them, none
\* lost, doubled or overtaken, with any number of pushers and poppers.
Fifo == ~m_is_close => m_queue = [i \in 1..(pushed - popped) |-> popped + i]

\* The queue never exceeds its capacity, although a notified pusher may find
\* its place taken by a newcomer.
Bounded == Len(m_queue) <= m_capacity

\* No wake-up is missing: while somebody sleeps, every value, free place or free
\* unit beyond the woken fibers' share would be taken by nobody.
NoLostNotify ==
    /\ Waiting("pop") # {} => Len(m_queue) <= Cardinality(Woken("pop"))
    /\ Waiting("push") # {} => m_capacity - Len(m_queue) <= Cardinality(Woken("push"))
    /\ Waiting("sem") # {} => m_num - m_used <= Cardinality(Woken("sem"))

\* Nobody is left waiting on a closed channel or on an open latch.
ClosedReleasesAll ==
    /\ m_is_close => Waiting("push") \cup Waiting("pop") = {}
    /\ m_count = 0 => Waiting("latch") = {}

\* CoCountDownLatch::wait() returns only after the count has reached 0.
LatchHolds == Woken("latch") # {} => m_count = 0

\* The timer that CoCond::wait() adds keeps the scheduler alive while a fiber
\* waits: not so once notify() has woken another one (MCCoCondTimer.cfg).
KeepsSchedulerAlive == \A c \in Conds : Waiting(c) # {} => cond[c].m_timer
=============================================================================
