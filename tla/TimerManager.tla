---------------------------- MODULE TimerManager ----------------------------
(***************************************************************************)
(* acid::Timer and acid::TimerManager (acid/common/timer.cpp) together with *)
(* the part of the reactor that drives them: IOManager::idle() asks for the *)
(* next deadline, sleeps in epoll_wait, collects the expired callbacks and  *)
(* hands them to the scheduler (acid/common/iomanager.cpp).                 *)
(*                                                                          *)
(* Client threads create, cancel, refresh and reset timers; worker threads  *)
(* run the idle loop.  A step is one critical section of                    *)
(* TimerManager::m_mutex, or one access made outside it (the clock reads of *)
(* the Timer constructor and of list_expired_callback, the test that reset  *)
(* makes before it locks, the tickle that follows an insertion).            *)
(*                                                                          *)
(* Time is a uint64_t number of milliseconds: it lives in 0..Width-1 and    *)
(* sums and differences wrap.                                               *)
(***************************************************************************)
EXTENDS Integers, FiniteSets

CONSTANTS
    Clients,     \* threads that call the Timer interface
    Workers,     \* threads that run IOManager::idle()
    Timers,      \* the Timer objects that may be created, each at most once
    Ms,          \* the intervals clients ask for
    Width,       \* 2^64: timestamps wrap here
    IntRange,    \* 2^32: the cast to int in idle() wraps here
    Hour,        \* the 60*60*1000 of detect_clock_rollover
    MaxTimeout,  \* the 5000 of MAX_TIMEOUT in idle()
    Start,       \* CLOCK_MONOTONIC_RAW when the manager is built
    MaxTime,     \* bound: the clock is not followed past this value
    NoTimer      \* the timer of a client that is in no call

Threads == Clients \cup Workers

ASSUME TimerAssumption ==
    /\ Clients \cap Workers = {} /\ NoTimer \notin Timers
    /\ Width \in Nat /\ IntRange \in Nat \ {0}
    /\ Ms \subseteq 0..(Width - 1)
    /\ Hour \in 1..(Width - 1) /\ MaxTimeout \in Nat
    /\ Start \in Nat /\ MaxTime \in Start..(Width - 1)

VARIABLES
    clock,            \* CLOCK_MONOTONIC_RAW
    m_ms, m_next,     \* Timer::m_ms, Timer::m_next
    m_recurring,      \* Timer::m_recurring
    m_callback,       \* Timer::m_callback is not null
    life,             \* "free", "made" (constructed), "known" (returned)
    m_timers,         \* TimerManager::m_timers
    m_ticked,         \* TimerManager::m_ticked
    m_previous_time,  \* TimerManager::m_previous_time
    pc,               \* where each thread is
    arg,              \* a client's pending call: timer, interval, from_now
    now_ms,           \* a worker's now_ms in list_expired_callback
    wake,             \* when a worker's epoll_wait times out, or Forever
    callbacks,        \* a worker's timeout_callbacks, as timers
    pipe,             \* m_tick_fds: "empty", "edge" (to report), "seen"
    reported,         \* a worker's epoll_wait reported the pipe
    ran,              \* history: callbacks handed to the scheduler, up to 2
    cancelled         \* history: timers whose cancel() returned true

timerVars == <<m_ms, m_next, m_recurring, m_callback, life>>
managerVars == <<m_timers, m_ticked, m_previous_time>>
workerVars == <<now_ms, wake, callbacks, reported>>
timerManagerVars == <<clock, timerVars, managerVars, pc, arg, workerVars, pipe, ran, cancelled>>

Forever == -1
Time == 0..(Width - 1)
NoCall == [timer |-> NoTimer, ms |-> 0, from_now |-> FALSE]

TimerTypeOK ==
    /\ clock \in Start..MaxTime
    /\ m_ms \in [Timers -> Time] /\ m_next \in [Timers -> Time]
    /\ m_recurring \in [Timers -> BOOLEAN]
    /\ m_callback \in [Timers -> BOOLEAN]
    /\ life \in [Timers -> {"free", "made", "known"}]
    /\ m_timers \in SUBSET Timers
    /\ m_ticked \in BOOLEAN
    /\ m_previous_time \in Start..MaxTime
    /\ pc \in [Threads -> {"ready", "insert", "reset", "front",
                           "busy", "loop", "wait", "expire", "check", "collect", "schedule"}]
    /\ arg \in [Clients -> [timer : Timers \cup {NoTimer}, ms : Time, from_now : BOOLEAN]]
    /\ now_ms \in [Workers -> Start..MaxTime]
    /\ wake \in [Workers -> Int]
    /\ callbacks \in [Workers -> SUBSET Timers]
    /\ reported \in [Workers -> BOOLEAN]
    /\ pipe \in {"empty", "edge", "seen"}
    /\ ran \in [Timers -> 0..2]
    /\ cancelled \in SUBSET Timers

TimerInit ==
    /\ clock = Start
    /\ m_ms = [t \in Timers |-> 0] /\ m_next = [t \in Timers |-> 0]
    /\ m_recurring = [t \in Timers |-> FALSE]
    /\ m_callback = [t \in Timers |-> FALSE]
    /\ life = [t \in Timers |-> "free"]
    /\ m_timers = {} /\ m_ticked = FALSE /\ m_previous_time = Start
    /\ pc = [p \in Threads |-> IF p \in Clients THEN "ready" ELSE "busy"]
    /\ arg = [c \in Clients |-> NoCall]
    /\ now_ms = [w \in Workers |-> Start]
    /\ wake = [w \in Workers |-> Start]
    /\ callbacks = [w \in Workers |-> {}]
    /\ reported = [w \in Workers |-> FALSE]
    /\ pipe = "empty"
    /\ ran = [t \in Timers |-> 0] /\ cancelled = {}

-----------------------------------------------------------------------------
\* uint64_t arithmetic on values of Time.
Plus(a, b) == IF a + b < Width THEN a + b ELSE a + b - Width
Minus(a, b) == IF a >= b THEN a - b ELSE a - b + Width

\* static_cast<int>(x) on a two's complement machine.
CastToInt(x) ==
    LET r == x % IntRange
    IN  IF r < IntRange \div 2 THEN r ELSE r - IntRange

\* The timer is at m_timers.begin(): none precedes it in Comparator's order
\* (timers with equal m_next are ordered by address, so any may be first).
IsFirst(t, queue, next) == \A u \in queue : next[t] <= next[u]

\* A worker is inside idle(), so Scheduler counts it in m_idle_thread_count.
InIdle(w) == pc[w] \in {"loop", "wait", "expire", "check", "collect", "schedule"}

Goto(p, label) == pc' = [pc EXCEPT ![p] = label]

-----------------------------------------------------------------------------
\* The monotonic clock.
Tick ==
    /\ clock < MaxTime
    /\ clock' = clock + 1
    /\ UNCHANGED <<timerVars, managerVars, pc, arg, workerVars, pipe, ran, cancelled>>

\* TimerManager::add_timer(ms, cb, recurring): the Timer constructor reads the
\* clock before m_mutex is taken.
NewTimer(c, t, ms, recurring) ==
    /\ pc[c] = "ready" /\ life[t] = "free"
    /\ m_ms' = [m_ms EXCEPT ![t] = ms]
    /\ m_next' = [m_next EXCEPT ![t] = Plus(clock, ms)]
    /\ m_recurring' = [m_recurring EXCEPT ![t] = recurring]
    /\ m_callback' = [m_callback EXCEPT ![t] = TRUE]
    /\ life' = [life EXCEPT ![t] = "made"]
    /\ arg' = [arg EXCEPT ![c] = [timer |-> t, ms |-> ms, from_now |-> TRUE]]
    /\ Goto(c, "insert")
    /\ UNCHANGED <<clock, managerVars, workerVars, pipe, ran, cancelled>>

\* TimerManager::add_timer(val, lock) up to lock.unlock(): insert, and decide
\* whether the sleeping worker has to be told.  A tie with another timer's
\* m_next is broken by address: either may be first.
InsertLocked(c, t, next) ==
    /\ m_timers' = m_timers \cup {t}
    /\ \E first \in BOOLEAN :
        /\ first => IsFirst(t, m_timers \cup {t}, next)
        /\ ~first => \E u \in m_timers \ {t} : next[u] <= next[t]
        /\ LET at_front == first /\ ~m_ticked
           IN  /\ m_ticked' = (m_ticked \/ at_front)
               /\ IF at_front
                  THEN Goto(c, "front") /\ UNCHANGED <<arg, life>>
                  ELSE /\ Goto(c, "ready")
                       /\ arg' = [arg EXCEPT ![c] = NoCall]
                       /\ life' = [life EXCEPT ![t] = "known"]

InsertTimer(c) ==
    /\ pc[c] = "insert"
    /\ InsertLocked(c, arg[c].timer, m_next)
    /\ UNCHANGED <<clock, m_ms, m_next, m_recurring, m_callback, m_previous_time,
                   workerVars, pipe, ran, cancelled>>

\* IOManager::tickle(): nothing to wake when no thread is idle.
tickle == pipe' = IF \E w \in Workers : InIdle(w) THEN "edge" ELSE pipe

\* The rest of add_timer(val, lock): on_timer_inserted_at_front() after the
\* unlock, then the handle is returned.
InsertedAtFront(c) ==
    /\ pc[c] = "front"
    /\ tickle
    /\ life' = [life EXCEPT ![arg[c].timer] = "known"]
    /\ arg' = [arg EXCEPT ![c] = NoCall]
    /\ Goto(c, "ready")
    /\ UNCHANGED <<clock, m_ms, m_next, m_recurring, m_callback, managerVars,
                   workerVars, ran, cancelled>>

\* Timer::cancel(): erase(find(...)) relies on the timer being queued.
CancelNothing(c, t) ==
    /\ pc[c] = "ready" /\ life[t] = "known"
    /\ m_callback[t]
    /\ cancelled' = cancelled \cup {t}
    /\ UNCHANGED <<clock, timerVars, managerVars, pc, arg, workerVars, pipe, ran>>
Cancel(c, t) ==
    /\ pc[c] = "ready" /\ life[t] = "known"
    /\ m_callback[t]
    /\ m_callback' = [m_callback EXCEPT ![t] = FALSE]
    /\ m_timers' = m_timers \ {t}
    /\ cancelled' = cancelled \cup {t}
    /\ UNCHANGED <<clock, m_ms, m_next, m_recurring, life, m_ticked, m_previous_time,
                   pc, arg, workerVars, pipe, ran>>

\* Timer::refresh(): no tickle, the deadline only moves away.
Refresh(c, t) ==
    /\ pc[c] = "ready" /\ life[t] = "known"
    /\ m_callback[t] /\ t \in m_timers
    /\ m_next' = [m_next EXCEPT ![t] = Plus(clock, m_ms[t])]
    /\ UNCHANGED <<clock, m_ms, m_recurring, m_callback, life, managerVars,
                   pc, arg, workerVars, pipe, ran, cancelled>>

\* Timer::reset(ms, from_now), the test made before the lock: an unchanged
\* interval returns at once.
ResetCheck(c, t, ms, from_now) ==
    /\ pc[c] = "ready" /\ life[t] = "known"
    /\ ~(ms = m_ms[t] /\ ~from_now)
    /\ arg' = [arg EXCEPT ![c] = [timer |-> t, ms |-> ms, from_now |-> from_now]]
    /\ Goto(c, "reset")
    /\ UNCHANGED <<clock, timerVars, managerVars, workerVars, pipe, ran, cancelled>>

\* The locked part of reset() when the timer has expired or was cancelled.
ResetRefused(c) ==
    /\ pc[c] = "reset"
    /\ ~m_callback[arg[c].timer] \/ arg[c].timer \notin m_timers
    /\ Goto(c, "ready")
    /\ arg' = [arg EXCEPT ![c] = NoCall]
    /\ UNCHANGED <<clock, timerVars, managerVars, workerVars, pipe, ran, cancelled>>

\* The locked part of reset(): recompute the deadline and insert again.
ResetStart(t, from_now) == IF from_now THEN clock ELSE Minus(m_next[t], m_ms[t])

ResetLocked(c) ==
    LET t == arg[c].timer
        next == [m_next EXCEPT ![t] = Plus(ResetStart(t, arg[c].from_now), arg[c].ms)]
    IN  /\ pc[c] = "reset"
        /\ m_callback[t] /\ t \in m_timers
        /\ m_ms' = [m_ms EXCEPT ![t] = arg[c].ms]
        /\ m_next' = next
        /\ InsertLocked(c, t, next)
        /\ UNCHANGED <<clock, m_recurring, m_callback, m_previous_time,
                       workerVars, pipe, ran, cancelled>>

-----------------------------------------------------------------------------
\* Scheduler::run() finds no task and resumes the idle fiber.
EnterIdle(w) ==
    /\ pc[w] = "busy"
    /\ Goto(w, "loop")
    /\ UNCHANGED <<clock, timerVars, managerVars, arg, workerVars, pipe, ran, cancelled>>

\* get_next_timer() for the first timer of the set.
UntilDeadline(t) == IF clock >= m_next[t] THEN 0 ELSE m_next[t] - clock

\* The timeout idle() passes to epoll_wait; a negative one blocks for good.
EpollTimeout(ms) ==
    IF CastToInt(ms) < MaxTimeout THEN CastToInt(ms) ELSE MaxTimeout

WakeAt(timeout) == IF timeout < 0 THEN Forever ELSE clock + timeout

SetWake(w) ==
    \/ /\ m_timers = {}
       /\ wake' = [wake EXCEPT ![w] = WakeAt(MaxTimeout)]
    \/ \E t \in m_timers :
        /\ IsFirst(t, m_timers, m_next)
        /\ wake' = [wake EXCEPT ![w] = WakeAt(EpollTimeout(UntilDeadline(t)))]

\* get_next_timer() (called by stopping(timeout)) and the call of epoll_wait.
SleepTicked(w) ==
    /\ pc[w] = "loop"
    /\ SetWake(w)
    /\ Goto(w, "wait")
    /\ UNCHANGED <<clock, timerVars, managerVars, arg, now_ms, callbacks,
                   reported, pipe, ran, cancelled>>
Sleep(w) ==
    /\ pc[w] = "loop"
    /\ m_ticked' = FALSE
    /\ SetWake(w)
    /\ Goto(w, "wait")
    /\ UNCHANGED <<clock, timerVars, m_timers, m_previous_time, arg, now_ms, callbacks,
                   reported, pipe, ran, cancelled>>

\* epoll_wait returns because the tickle pipe is readable (edge triggered)...
WokenByTickle(w) ==
    /\ pc[w] = "wait" /\ pipe = "edge"
    /\ pipe' = "seen"
    /\ reported' = [reported EXCEPT ![w] = TRUE]
    /\ Goto(w, "expire")
    /\ UNCHANGED <<clock, timerVars, managerVars, arg, now_ms, wake, callbacks, ran, cancelled>>

\* ... or because it timed out.
WokenByTimeout(w) ==
    /\ pc[w] = "wait" /\ wake[w] # Forever /\ wake[w] <= clock
    /\ Goto(w, "expire")
    /\ UNCHANGED <<clock, timerVars, managerVars, arg, workerVars, pipe, ran, cancelled>>

\* list_expired_callback(): the clock is read before any lock is taken.
ReadClock(w) ==
    /\ pc[w] = "expire"
    /\ now_ms' = [now_ms EXCEPT ![w] = clock]
    /\ Goto(w, "check")
    /\ UNCHANGED <<clock, timerVars, managerVars, arg, wake, callbacks, reported,
                   pipe, ran, cancelled>>

\* list_expired_callback(): the test under the read lock.
CheckEmpty(w) ==
    /\ pc[w] = "check"
    /\ Goto(w, IF m_timers = {} THEN "schedule" ELSE "collect")
    /\ UNCHANGED <<clock, timerVars, managerVars, arg, workerVars, pipe, ran, cancelled>>

\* detect_clock_rollover(now): the subtraction is unsigned.
detect_clock_rollover(now) ==
    now < m_previous_time /\ now < Minus(m_previous_time, Hour)

ExpiredSoon(now) == {t \in m_timers : m_next[t] <= now + 1}
Expired(now) ==
    IF detect_clock_rollover(now) THEN m_timers ELSE {t \in m_timers : m_next[t] <= now}

\* What list_expired_callback() leaves of the queue and of the callbacks when
\* the timers of once, one-shot ones, have expired.
Remaining(once) == m_timers \ once

CallbacksLeft(once) == [t \in Timers |-> m_callback[t] /\ t \notin once]

PreviousTime(now) == IF m_timers = {} THEN m_previous_time ELSE now

\* list_expired_callback(): the part under the write lock.
Collect(w) ==
    LET now == now_ms[w]
        expired == Expired(now)
        once == {t \in expired : ~m_recurring[t]}
    IN  /\ pc[w] = "collect"
        /\ m_previous_time' = PreviousTime(now)
        /\ m_timers' = Remaining(once)
        /\ m_callback' = CallbacksLeft(once)
        /\ m_next' = [t \in Timers |->
                        IF t \in expired \ once THEN Plus(now, m_ms[t]) ELSE m_next[t]]
        /\ callbacks' = [callbacks EXCEPT ![w] = expired]
        /\ Goto(w, "schedule")
        /\ UNCHANGED <<clock, m_ms, m_recurring, life, m_ticked, arg, now_ms, wake,
                       reported, pipe, ran, cancelled>>

\* The rest of idle(): schedule every callback, drain the pipe if epoll_wait
\* reported it, yield to run().
Schedule(w) ==
    /\ pc[w] = "schedule"
    /\ ran' = [t \in Timers |->
                 IF t \in callbacks[w] /\ ran[t] < 2 THEN ran[t] + 1 ELSE ran[t]]
    /\ callbacks' = [callbacks EXCEPT ![w] = {}]
    /\ pipe' = IF reported[w] THEN "empty" ELSE pipe
    /\ reported' = [reported EXCEPT ![w] = FALSE]
    /\ now_ms' = [now_ms EXCEPT ![w] = Start]   \* both out of scope
    /\ wake' = [wake EXCEPT ![w] = Start]
    /\ Goto(w, "busy")
    /\ UNCHANGED <<clock, timerVars, managerVars, arg, cancelled>>

-----------------------------------------------------------------------------
ClientStarts(c) ==
    \E t \in Timers :
        \/ \E ms \in Ms, recurring \in BOOLEAN : NewTimer(c, t, ms, recurring)
        \/ Cancel(c, t)
        \/ Refresh(c, t)
        \/ \E ms \in Ms, from_now \in BOOLEAN : ResetCheck(c, t, ms, from_now)

ClientContinues(c) ==
    InsertTimer(c) \/ InsertedAtFront(c) \/ ResetRefused(c) \/ ResetLocked(c)

WorkerStep(w) ==
    \/ EnterIdle(w) \/ Sleep(w) \/ WokenByTickle(w) \/ WokenByTimeout(w)
    \/ ReadClock(w) \/ CheckEmpty(w) \/ Collect(w) \/ Schedule(w)

TimerNext ==
    \/ Tick
    \/ \E c \in Clients : ClientStarts(c) \/ ClientContinues(c)
    \/ \E w \in Workers : WorkerStep(w)

TimerSpec == TimerInit /\ [][TimerNext]_timerManagerVars

-----------------------------------------------------------------------------
\* A timer that add_timer() has queued holds a callback exactly as long as it
\* is in m_timers: cancel()'s unchecked erase(find(...)) never meets end(), and
\* no queued timer pushes an empty function to the scheduler.
CallbackIffQueued ==
    \A t \in Timers : life[t] = "known" => (m_callback[t] <=> t \in m_timers)

\* A one-shot timer's callback is handed to the scheduler at most once over all
\* workers, and never once cancel() has returned true.
OneShotOnce ==
    \A t \in Timers : ~m_recurring[t] =>
        /\ ran[t] <= 1
        /\ \A v, w \in Workers : t \in callbacks[v] \cap callbacks[w] => v = w
        /\ \A w \in Workers : t \in callbacks[w] => ran[t] = 0
        /\ t \in cancelled => ran[t] = 0 /\ \A w \in Workers : t \notin callbacks[w]

\* list_expired_callback() takes a timer only when its deadline has passed.
NeverEarly ==
    [][\A w \in Workers : \A t \in callbacks'[w] \ callbacks[w] : m_next[t] <= clock]_timerManagerVars

\* When every worker sleeps, one of them wakes no later than the first deadline,
\* or a tickle is on its way: m_ticked never swallows a wake-up that is needed.
SleeperWakesInTime ==
    (\A w \in Workers : pc[w] = "wait") =>
        \/ pipe = "edge"
        \/ \E c \in Clients : pc[c] = "front"
        \/ \E w \in Workers : \A t \in m_timers :
             wake[w] # Forever /\ (wake[w] <= clock \/ wake[w] <= m_next[t])

\* Timers, their callbacks and the queue agree in all of these ways (timer.cpp).
TimersSound == TimerTypeOK /\ CallbackIffQueued /\ OneShotOnce
=============================================================================
