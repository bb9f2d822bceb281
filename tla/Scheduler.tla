------------------------------ MODULE Scheduler ------------------------------
(***************************************************************************)
(* acid::Scheduler and acid::Fiber with the idle loop of acid::IOManager   *)
(* (acid/common/scheduler.cpp, fiber.cpp, iomanager.cpp): worker threads   *)
(* take fibers from a shared task list, sleep in epoll_wait when they find *)
(* none, and leave when the scheduler is stopped and drained.              *)
(*                                                                         *)
(* A job is a fiber, or a callback that run() wraps in one.  A yielder     *)
(* arranges its own wake-up (an fd event or a timer) and then yields once. *)
(* A step is one critical section of Scheduler::m_mutex or one access to   *)
(* an atomic, the pipe or a fiber's state outside it.                      *)
(***************************************************************************)
EXTENDS Naturals, Sequences, FiniteSets, SequencesExt

CONSTANTS
    Workers,    \* threads that execute run()
    Callers,    \* the worker that may run inside stop() (use_caller), or NoWorker
    NoWorker,
    Jobs,       \* everything that is ever scheduled
    NoJob,
    Children,   \* jobs scheduled by a running job, the others by the user
    Yielders,   \* jobs that wait once, for an fd event or a timer
    Pin         \* the thread a job is first scheduled on, or NoWorker

ASSUME SchedulerAssumption ==
    /\ NoWorker \notin Workers /\ NoJob \notin Jobs
    /\ Callers # {} /\ Callers \subseteq Workers \cup {NoWorker}
    /\ Children \subseteq Jobs /\ Yielders \subseteq Jobs
    /\ Pin \in [Jobs -> Workers \cup {NoWorker}]

VARIABLES
    m_tasklist,
    m_stopping,
    m_state,    \* Fiber::m_state of each job, "none" before it is scheduled
    waited,     \* yielders that have arranged their wake-up
    timers,     \* jobs a queued timer will schedule
    events,     \* jobs a registered fd event will schedule
    taken,      \* timer wake-ups collected but not yet scheduled, per worker
    report,     \* what epoll_wait told each worker: fd events, "pipe"
    pc,         \* where each worker is in run() and idle()
    job,        \* the task each worker holds
    tickling,   \* threads about to call tickle(): workers, "user"
    idleDone,   \* workers whose idle fiber has terminated
    pipe,       \* the tickle pipe was written to and epoll has not reported it
    user        \* the user's thread: "open", "stopping", "caller", "joined"

vars == <<m_tasklist, m_stopping, m_state, waited, timers, events, taken, report, pc, job,
          tickling, idleDone, pipe, user>>

Labels == {"off", "scan", "resume", "running", "yielding", "swap", "done", "empty",
           "timers", "events", "drained", "wait", "expire", "fire", "dispatch", "leave",
           "exit"}

TypeOK ==
    /\ m_tasklist \in Seq(Jobs) /\ m_stopping \in BOOLEAN
    /\ m_state \in [Jobs -> {"none", "READY", "RUNNING", "TERM"}]
    /\ waited \in SUBSET Yielders
    /\ timers \in SUBSET Yielders /\ events \in SUBSET Yielders
    /\ taken \in [Workers -> SUBSET Yielders]
    /\ report \in [Workers -> SUBSET (Yielders \cup {"pipe"})]
    /\ pc \in [Workers -> Labels]
    /\ job \in [Workers -> Jobs \cup {NoJob}]
    /\ tickling \in SUBSET (Workers \cup {"user"})
    /\ idleDone \in SUBSET Workers
    /\ pipe \in BOOLEAN
    /\ user \in {"open", "stopping", "caller", "joined"}

Init ==
    /\ m_tasklist = <<>> /\ m_stopping = FALSE
    /\ m_state = [j \in Jobs |-> "none"]
    /\ waited = {} /\ timers = {} /\ events = {} /\ taken = [w \in Workers |-> {}]
    /\ report = [w \in Workers |-> {}]
    /\ \E caller \in Callers :
        pc = [w \in Workers |-> IF w = caller THEN "off" ELSE "scan"]
    /\ job = [w \in Workers |-> NoJob]
    /\ tickling = {} /\ idleDone = {} /\ pipe = FALSE /\ user = "open"

-----------------------------------------------------------------------------
Goto(w, label) == pc' = [pc EXCEPT ![w] = label]

\* m_active_thread_count and m_idle_thread_count.
Active == {w \in Workers : pc[w] \in {"resume", "running", "yielding", "swap", "done"}}
Idle == {w \in Workers : pc[w] \in {"timers", "events", "drained", "wait", "expire", "fire",
                                      "dispatch", "leave"}}

\* schedule(): append under m_mutex; tickle() follows if the list was empty.
Push(p, j) ==
    /\ m_tasklist' = Append(m_tasklist, j)
    /\ tickling' = IF m_tasklist = <<>> THEN tickling \cup {p} ELSE tickling

\* IOManager::tickle(): writes to the pipe if it sees an idle thread.
Tickle(p) ==
    /\ p \in tickling
    /\ pipe' = (pipe \/ Idle # {})
    /\ tickling' = tickling \ {p}
    /\ UNCHANGED <<m_tasklist, m_stopping, m_state, waited, timers, events, taken, report,
                   pc, job, idleDone, user>>

\* A thread goes on only after the tickle() it owes.
Free(p) == p \notin tickling

-----------------------------------------------------------------------------
\* The user's thread schedules a job,
Submit(j) ==
    /\ user = "open" /\ Free("user")
    /\ m_state[j] = "none" /\ j \notin Children
    /\ m_state' = [m_state EXCEPT ![j] = "READY"]
    /\ Push("user", j)
    /\ UNCHANGED <<m_stopping, waited, timers, events, taken, report, pc, job, idleDone,
                   pipe, user>>

\* and calls stop() once: m_stopping, then tickle() for the threads,
Stop ==
    /\ user = "open" /\ Free("user")
    /\ m_stopping' = TRUE
    /\ tickling' = tickling \cup {"user"}
    /\ user' = "stopping"
    /\ UNCHANGED <<m_tasklist, m_state, waited, timers, events, taken, report, pc, job,
                   idleDone, pipe>>

\* then m_root_fiber->resume() when the caller's thread takes part,
RunCaller ==
    /\ user = "stopping" /\ Free("user")
    /\ user' = "caller"
    /\ pc' = [w \in Workers |-> IF pc[w] = "off" THEN "scan" ELSE pc[w]]
    /\ UNCHANGED <<m_tasklist, m_stopping, m_state, waited, timers, events, taken, report,
                   job, tickling, idleDone, pipe>>

\* and joins the pool.
Join ==
    /\ user = "caller" /\ \A w \in Workers : pc[w] = "exit"
    /\ user' = "joined"
    /\ UNCHANGED <<m_tasklist, m_stopping, m_state, waited, timers, events, taken, report,
                   pc, job, tickling, idleDone, pipe>>

-----------------------------------------------------------------------------
\* The task may be taken by w: not pinned elsewhere, and its fiber not RUNNING.
\* Events and timers schedule their fiber without a pin.
Elsewhere(w, j) == j \notin waited /\ Pin[j] \notin {NoWorker, w}
EligibleRunning(w, j) == ~Elsewhere(w, j)
Eligible(w, j) == ~Elsewhere(w, j) /\ m_state[j] # "RUNNING"

Taken(w) == {i \in DOMAIN m_tasklist : Eligible(w, m_tasklist[i])}
First(w, i) == i \in Taken(w) /\ \A k \in Taken(w) : i <= k
TasksLeft(i) == RemoveAt(m_tasklist, i)

\* One pass over the task list under m_mutex: take the first task that may be
\* taken; tell the others if one was passed over because of its pin or if
\* tasks remain behind it.
Scan(w) ==
    /\ pc[w] = "scan" /\ Free(w)
    /\ \/ \E i \in DOMAIN m_tasklist :
          /\ First(w, i)
          /\ job' = [job EXCEPT ![w] = m_tasklist[i]]
          /\ m_tasklist' = TasksLeft(i)
          /\ tickling' =
               IF \/ i < Len(m_tasklist)
                  \/ \E k \in 1..(i - 1) : Elsewhere(w, m_tasklist[k])
               THEN tickling \cup {w} ELSE tickling
          /\ Goto(w, "resume")
       \/ /\ Taken(w) = {}
          /\ tickling' = IF \E i \in DOMAIN m_tasklist : Elsewhere(w, m_tasklist[i])
                         THEN tickling \cup {w} ELSE tickling
          /\ Goto(w, "empty")
          /\ UNCHANGED <<job, m_tasklist>>
    /\ UNCHANGED <<m_stopping, m_state, waited, timers, events, taken, report, idleDone,
                   pipe, user>>

\* Fiber::resume().
Resume(w) ==
    /\ pc[w] = "resume" /\ Free(w)
    /\ m_state' = [m_state EXCEPT ![job[w]] = "RUNNING"]
    /\ Goto(w, "running")
    /\ UNCHANGED <<m_tasklist, m_stopping, waited, timers, events, taken, report, job,
                   tickling, idleDone, pipe, user>>

\* The running job schedules another one,
Spawn(w, j) ==
    /\ pc[w] = "running" /\ Free(w)
    /\ j \in Children /\ m_state[j] = "none"
    /\ m_state' = [m_state EXCEPT ![j] = "READY"]
    /\ Push(w, j)
    /\ UNCHANGED <<m_stopping, waited, timers, events, taken, report, pc, job, idleDone,
                   pipe, user>>

\* arranges its wake-up (add_event or add_timer) before it yields; a timer that
\* becomes the first one tickles,
Arrange(w) ==
    /\ pc[w] = "running" /\ Free(w)
    /\ job[w] \in Yielders \ waited
    /\ waited' = waited \cup {job[w]}
    /\ \/ events' = events \cup {job[w]} /\ UNCHANGED <<timers, tickling>>
       \/ /\ timers' = timers \cup {job[w]}
          /\ tickling' \in {tickling, tickling \cup {w}}
          /\ UNCHANGED events
    /\ Goto(w, "yielding")
    /\ UNCHANGED <<m_tasklist, m_stopping, m_state, taken, report, job, idleDone, pipe,
                   user>>

\* yields: the state becomes READY first,
Yield(w) ==
    /\ pc[w] = "yielding" /\ Free(w)
    /\ m_state' = [m_state EXCEPT ![job[w]] = "READY"]
    /\ Goto(w, "swap")
    /\ UNCHANGED <<m_tasklist, m_stopping, waited, timers, events, taken, report, job,
                   tickling, idleDone, pipe, user>>

\* the context is saved by swapcontext,
SwapContext(w) ==
    /\ pc[w] = "swap"
    /\ Goto(w, "done")
    /\ UNCHANGED <<m_tasklist, m_stopping, m_state, waited, timers, events, taken, report,
                   job, tickling, idleDone, pipe, user>>

\* or ends: main_func() marks the fiber TERM and yields for good.
Finish(w) ==
    /\ pc[w] = "running" /\ Free(w)
    /\ job[w] \notin Yielders \ waited
    /\ m_state' = [m_state EXCEPT ![job[w]] = "TERM"]
    /\ Goto(w, "done")
    /\ UNCHANGED <<m_tasklist, m_stopping, waited, timers, events, taken, report, job,
                   tickling, idleDone, pipe, user>>

\* Back in run(): --m_active_thread_count.
AfterJob(w) ==
    /\ pc[w] = "done"
    /\ job' = [job EXCEPT ![w] = NoJob]
    /\ Goto(w, "scan")
    /\ UNCHANGED <<m_tasklist, m_stopping, m_state, waited, timers, events, taken, report,
                   tickling, idleDone, pipe, user>>

-----------------------------------------------------------------------------
\* run() found no task: leave if the idle fiber has ended, else resume it.
NoTask(w) ==
    /\ pc[w] = "empty" /\ Free(w)
    /\ Goto(w, IF w \in idleDone THEN "exit" ELSE "timers")
    /\ UNCHANGED <<m_tasklist, m_stopping, m_state, waited, timers, events, taken, report,
                   job, tickling, idleDone, pipe, user>>

\* IOManager::stopping(): the timer set is empty, then m_pending_event_count is
\* 0, then Scheduler::stopping() under m_mutex; the answers are not taken
\* together.  If all hold the idle fiber ends.
CheckTimers(w) ==
    /\ pc[w] = "timers"
    /\ Goto(w, IF timers = {} THEN "events" ELSE "wait")
    /\ UNCHANGED <<m_tasklist, m_stopping, m_state, waited, timers, events, taken, report,
                   job, tickling, idleDone, pipe, user>>

CheckPendingNot(w) ==
    /\ pc[w] = "events"
    /\ Goto(w, "drained")
    /\ UNCHANGED <<m_tasklist, m_stopping, m_state, waited, timers, events, taken, report,
                   job, tickling, idleDone, pipe, user>>
CheckPending(w) ==
    /\ pc[w] = "events"
    /\ Goto(w, IF events = {} THEN "drained" ELSE "wait")
    /\ UNCHANGED <<m_tasklist, m_stopping, m_state, waited, timers, events, taken, report,
                   job, tickling, idleDone, pipe, user>>

Drained == m_stopping /\ m_tasklist = <<>> /\ Active = {}
CheckDrained(w) ==
    /\ pc[w] = "drained"
    /\ IF Drained
       THEN idleDone' = idleDone \cup {w} /\ Goto(w, "leave")
       ELSE UNCHANGED idleDone /\ Goto(w, "wait")
    /\ UNCHANGED <<m_tasklist, m_stopping, m_state, waited, timers, events, taken, report,
                   job, tickling, pipe, user>>

\* epoll_wait returns with the pipe or some fd events, edge-triggered, or with
\* nothing when the time is up.
Reportable == events \cup (IF pipe THEN {"pipe"} ELSE {})
EpollReportNeverEmpty(w, set) ==
    /\ pc[w] = "wait" /\ set # {}
    /\ report' = [report EXCEPT ![w] = set]
    /\ pipe' = (pipe /\ "pipe" \notin set)
    /\ Goto(w, "expire")
    /\ UNCHANGED <<m_tasklist, m_stopping, m_state, waited, timers, events, taken, job,
                   tickling, idleDone, user>>
EpollReport(w, set) ==
    /\ pc[w] = "wait"
    /\ report' = [report EXCEPT ![w] = set]
    /\ pipe' = (pipe /\ "pipe" \notin set)
    /\ Goto(w, "expire")
    /\ UNCHANGED <<m_tasklist, m_stopping, m_state, waited, timers, events, taken, job,
                   tickling, idleDone, user>>

\* list_expired_callback(): the timers that are due leave the timer set,
CollectTimers(w, set) ==
    /\ pc[w] = "expire"
    /\ timers' = timers \ set
    /\ taken' = [taken EXCEPT ![w] = set]
    /\ Goto(w, "fire")
    /\ UNCHANGED <<m_tasklist, m_stopping, m_state, waited, events, report, job, tickling,
                   idleDone, pipe, user>>

\* and are scheduled one after the other.
FireTimer(w, j) ==
    /\ pc[w] = "fire" /\ Free(w) /\ j \in taken[w]
    /\ taken' = [taken EXCEPT ![w] = @ \ {j}]
    /\ Push(w, j)
    /\ UNCHANGED <<m_stopping, m_state, waited, timers, events, report, pc, job, idleDone,
                   pipe, user>>

TimersFired(w) ==
    /\ pc[w] = "fire" /\ Free(w) /\ taken[w] = {}
    /\ Goto(w, "dispatch")
    /\ UNCHANGED <<m_tasklist, m_stopping, m_state, waited, timers, events, taken, report,
                   job, tickling, idleDone, pipe, user>>

\* A reported fd event that is still registered is triggered: its fiber is
\* scheduled, then it stops counting as pending.
RegisteredAlways(j) == TRUE
Registered(j) == j \in events
DispatchEvent(w, j) ==
    /\ pc[w] = "dispatch" /\ Free(w) /\ j \in report[w] \ {"pipe"}
    /\ report' = [report EXCEPT ![w] = @ \ {j}]
    /\ IF Registered(j)
       THEN Push(w, j) /\ events' = events \ {j}
       ELSE UNCHANGED <<m_tasklist, tickling, events>>
    /\ UNCHANGED <<m_stopping, m_state, waited, timers, taken, pc, job, idleDone, pipe,
                   user>>

\* A reported pipe is read empty.
DrainPipe(w) ==
    /\ pc[w] = "dispatch" /\ Free(w) /\ "pipe" \in report[w]
    /\ report' = [report EXCEPT ![w] = @ \ {"pipe"}]
    /\ pipe' = FALSE
    /\ UNCHANGED <<m_tasklist, m_stopping, m_state, waited, timers, events, taken, pc, job,
                   tickling, idleDone, user>>

\* idle() yields; back in run(), --m_idle_thread_count.
Leave(w) ==
    /\ pc[w] = "leave" \/ (pc[w] = "dispatch" /\ report[w] = {} /\ Free(w))
    /\ Goto(w, "scan")
    /\ UNCHANGED <<m_tasklist, m_stopping, m_state, waited, timers, events, taken, report,
                   job, tickling, idleDone, pipe, user>>

-----------------------------------------------------------------------------
RunStep(w) ==
    \/ Tickle(w) \/ Scan(w) \/ Resume(w) \/ Arrange(w) \/ Yield(w) \/ SwapContext(w)
    \/ Finish(w) \/ AfterJob(w) \/ NoTask(w)

IdleStep(w) ==
    \/ CheckTimers(w) \/ CheckPending(w) \/ CheckDrained(w)
    \/ \E set \in SUBSET Reportable : EpollReport(w, set)
    \/ \E set \in SUBSET timers : CollectTimers(w, set)
    \/ \E j \in Jobs : FireTimer(w, j) \/ DispatchEvent(w, j)
    \/ TimersFired(w) \/ DrainPipe(w) \/ Leave(w)

UserStep == Tickle("user") \/ RunCaller \/ Join

Next ==
    \/ \E j \in Jobs : Submit(j)
    \/ Stop
    \/ UserStep
    \/ \E w \in Workers : RunStep(w) \/ IdleStep(w) \/ \E j \in Jobs : Spawn(w, j)

Spec == Init /\ [][Next]_vars

\* A wake-up of j by an epoll_wait that reports it or a timer that is due.
Wakes(j) ==
    \E w \in Workers :
        \/ \E set \in SUBSET Reportable : j \in set /\ EpollReport(w, set)
        \/ \E set \in SUBSET timers : j \in set /\ CollectTimers(w, set)

\* Threads are scheduled by the operating system, epoll_wait times out, and a
\* registered event or timer eventually comes due.
Fairness ==
    /\ WF_vars(UserStep)
    /\ \A w \in Workers : WF_vars(RunStep(w)) /\ WF_vars(IdleStep(w))
    /\ \A j \in Yielders : SF_vars(Wakes(j))

FairSpec == Spec /\ Fairness

-----------------------------------------------------------------------------
\* How many wake-ups or tasks stand for job j.
Queued(j) ==
    Cardinality({i \in DOMAIN m_tasklist : m_tasklist[i] = j})
    + Cardinality({w \in Workers : j \in taken[w]})
    + (IF j \in timers THEN 1 ELSE 0) + (IF j \in events THEN 1 ELSE 0)

\* No job is lost or doubled on its way between the task list, the threads, the
\* event registry and the timer set: an unfinished one is queued once or held by
\* a thread that will run it, and a finished one is queued nowhere.
AccountedFor ==
    \A j \in Jobs :
        /\ Queued(j) <= 1
        /\ m_state[j] = "TERM" => Queued(j) = 0
        /\ m_state[j] \in {"READY", "RUNNING"} =>
            Queued(j) = 1 \/ \E w \in Workers : job[w] = j

\* The assertion of Fiber::resume(): the fiber a thread has taken from the list
\* is not RUNNING or TERM by the time it is resumed, although its state was read
\* under m_mutex and an early wake-up may queue it while it still runs.
ResumeLegal ==
    \A w \in Workers : pc[w] = "resume" => m_state[job[w]] = "READY"

\* No two threads execute the same fiber, except that one may still be inside
\* the swapcontext() of its yield() (scheduler.cpp run(), the states it passes
\* over).
OneThreadAtWork ==
    /\ ResumeLegal
    /\ \A v, w \in Workers :
         pc[v] \in {"running", "yielding"} /\ pc[w] \in {"running", "yielding"} /\ job[v] = job[w]
         => v = w

\* No two threads execute the same fiber, the switch out of it included: not so
\* (Fiber::yield, MCSchedRaces.cfg).
OneThreadPerFiber ==
    \A v, w \in Workers :
        /\ pc[v] \in {"running", "yielding", "swap"}
        /\ pc[w] \in {"running", "yielding", "swap"}
        /\ job[v] = job[w]
        => v = w

\* stop() lets the threads finish what is left: once all have left run() every
\* scheduled job has terminated and no wake-up is outstanding.
DrainedAtExit ==
    (\A w \in Workers : pc[w] = "exit") =>
        /\ m_tasklist = <<>> /\ timers = {} /\ events = {}
        /\ \A j \in Jobs : m_state[j] \in {"none", "TERM"}

\* Every scheduled job runs to its end,
JobsFinish == \A j \in Jobs : m_state[j] = "READY" ~> m_state[j] = "TERM"

\* and stop() returns.
StopReturns == user = "stopping" ~> user = "joined"

\* Each job is where the scheduler can account for it (scheduler.cpp,
\* iomanager.cpp).
TasksSound == TypeOK /\ AccountedFor

\* What is scheduled is done, and stop() waits no longer than for that
\* (Scheduler::run, stop).
WorkEnds == JobsFinish /\ StopReturns
=============================================================================
