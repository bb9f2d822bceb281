--------------------------- MODULE Scheduler_proofs ---------------------------
(***************************************************************************)
(* Proofs about Scheduler for any number of threads and jobs, any pinning  *)
(* and any set of jobs that wait: no job is lost or doubled on its way     *)
(* between the task list, the threads, the event registry and the timers,  *)
(* resume() is only ever called on a fiber that no thread is running, and  *)
(* stop() leaves nothing undone where one job at most waits.               *)
(***************************************************************************)
EXTENDS Scheduler, FiniteSetTheorems, SequenceTheorems, TLAPS

USE SchedulerAssumption DEF SchedulerAssumption

\* The jobs of the task list, which holds each of them once.
Elements(s) == {s[i] : i \in DOMAIN s}
Distinct(s) == \A i, k \in DOMAIN s : s[i] = s[k] => i = k
Listed == Elements(m_tasklist)

\* The worker is about to run its job, runs it, or is on its way out of it
\* with the wake-up already arranged.
AtWork(w) == pc[w] \in {"resume", "running", "yielding"}

\* Some task or wake-up stands for the job.
Waiting(j) ==
    \/ j \in Listed \/ j \in timers \/ j \in events
    \/ \E w \in Workers : j \in taken[w]

Typed ==
    /\ TypeOK
    /\ \A w \in Workers : AtWork(w) => job[w] \in Jobs
    /\ \A w \in Workers : taken[w] # {} => pc[w] = "fire"

\* At most one place stands for a job.
Placed ==
    /\ Distinct(m_tasklist)
    /\ timers \cap events = {}
    /\ Listed \cap (timers \cup events) = {}
    /\ \A w \in Workers : taken[w] \cap (Listed \cup timers \cup events) = {}
    /\ \A v, w \in Workers : v # w => taken[v] \cap taken[w] = {}

\* The job is where its fiber's state says.
Stated ==
    /\ \A j \in Jobs : m_state[j] \in {"none", "TERM"} => ~Waiting(j)
    /\ \A j \in Jobs : m_state[j] = "READY" =>
         Waiting(j) \/ \E w \in Workers : pc[w] = "resume" /\ job[w] = j
    /\ \A j \in Jobs : m_state[j] = "RUNNING" =>
         \E w \in Workers : pc[w] \in {"running", "yielding"} /\ job[w] = j

\* A worker at work has its job to itself.
Held ==
    /\ \A v, w \in Workers : AtWork(v) /\ AtWork(w) /\ job[v] = job[w] => v = w
    /\ \A w \in Workers :
         /\ pc[w] = "resume" => m_state[job[w]] = "READY" /\ ~Waiting(job[w])
         /\ pc[w] = "running" => m_state[job[w]] = "RUNNING" /\ ~Waiting(job[w])
         /\ pc[w] = "yielding" => m_state[job[w]] = "RUNNING" /\ Waiting(job[w])

\* The inductive invariant.
TaskInv == Typed /\ Placed /\ Stated /\ Held

-----------------------------------------------------------------------------
\* Appending a new element, removing one: what the list holds afterwards.
LEMMA Appended ==
    ASSUME NEW S, NEW s \in Seq(S), NEW j \in S, Distinct(s), j \notin Elements(s)
    PROVE  /\ Append(s, j) \in Seq(S)
           /\ Distinct(Append(s, j))
           /\ Elements(Append(s, j)) = Elements(s) \cup {j}
<1>1. /\ Append(s, j) \in Seq(S)
      /\ Len(Append(s, j)) = Len(s) + 1 /\ Append(s, j)[Len(s) + 1] = j
      /\ \A i \in 1..Len(s) : Append(s, j)[i] = s[i]
      /\ DOMAIN Append(s, j) = 1..(Len(s) + 1) /\ DOMAIN s = 1..Len(s) /\ Len(s) \in Nat
  OBVIOUS
<1>2. Distinct(Append(s, j))
  BY <1>1 DEF Distinct, Elements
<1>3. Elements(Append(s, j)) = Elements(s) \cup {j}
  BY <1>1 DEF Elements
<1> QED
  BY <1>1, <1>2, <1>3

LEMMA RemoveAtElements ==
    ASSUME NEW S, NEW s \in Seq(S), NEW i \in 1..Len(s)
    PROVE  /\ RemoveAt(s, i) \in Seq(S)
           /\ Len(RemoveAt(s, i)) = Len(s) - 1
           /\ \A k \in 1..(Len(s) - 1) :
                RemoveAt(s, i)[k] = IF k < i THEN s[k] ELSE s[k + 1]
<1>1. Len(s) \in Nat /\ i - 1 \in Nat /\ Len(s) - i \in Nat
  OBVIOUS
<1>2. PICK h \in Seq(S) : /\ h = SubSeq(s, 1, i - 1) /\ Len(h) = i - 1
                          /\ \A k \in 1..(i - 1) : h[k] = s[k]
  <2>1. /\ SubSeq(s, 1, i - 1) \in Seq(S) /\ Len(SubSeq(s, 1, i - 1)) = i - 1
        /\ \A k \in 1..(i - 1) : SubSeq(s, 1, i - 1)[k] = s[k]
    OBVIOUS
  <2>2. QED
    BY <2>1
<1>3. PICK t \in Seq(S) : /\ t = SubSeq(s, i + 1, Len(s)) /\ Len(t) = Len(s) - i
                          /\ \A k \in 1..(Len(s) - i) : t[k] = s[i + k]
  <2>1. /\ SubSeq(s, i + 1, Len(s)) \in Seq(S)
        /\ Len(SubSeq(s, i + 1, Len(s))) = Len(s) - i
        /\ \A k \in 1..(Len(s) - i) : SubSeq(s, i + 1, Len(s))[k] = s[i + k]
    OBVIOUS
  <2>2. QED
    BY <2>1
<1>4. PICK c \in Seq(S) : /\ c = RemoveAt(s, i) /\ Len(c) = Len(h) + Len(t)
                          /\ \A k \in 1..Len(h) + Len(t) :
                               c[k] = IF k <= Len(h) THEN h[k] ELSE t[k - Len(h)]
  <2>1. /\ h \o t \in Seq(S) /\ Len(h \o t) = Len(h) + Len(t)
        /\ \A k \in 1..Len(h) + Len(t) :
             (h \o t)[k] = IF k <= Len(h) THEN h[k] ELSE t[k - Len(h)]
    BY ConcatProperties
  <2>2. RemoveAt(s, i) = h \o t
    BY <1>2, <1>3 DEF RemoveAt
  <2>3. QED
    BY <2>1, <2>2
<1>5. Len(h) = i - 1 /\ Len(h) + Len(t) = Len(s) - 1
  <2>1. Len(h) = i - 1
    BY <1>2
  <2>2. Len(t) = Len(s) - i
    BY <1>3
  <2>3. QED
    BY <2>1, <2>2, <1>1
<1>6. ASSUME NEW k \in 1..(Len(s) - 1)
      PROVE  c[k] = IF k < i THEN s[k] ELSE s[k + 1]
  <2>1. CASE k < i
    <3>1. k \in 1..(i - 1)
      BY <2>1, <1>1
    <3>2. c[k] = h[k]
      BY <2>1, <1>4, <1>5, <1>1
    <3>3. QED
      BY <2>1, <3>1, <3>2, <1>2
  <2>2. CASE ~(k < i)
    <3>1. k - (i - 1) \in 1..(Len(s) - i) /\ i + (k - (i - 1)) = k + 1
      BY <2>2, <1>1
    <3>2. c[k] = t[k - (i - 1)]
      BY <2>2, <1>4, <1>5, <1>1
    <3>3. QED
      BY <2>2, <3>1, <3>2, <1>3
  <2>3. QED
    BY <2>1, <2>2
<1>7. QED
  BY <1>4, <1>5, <1>6

LEMMA Removed ==
    ASSUME NEW S, NEW s \in Seq(S), NEW i \in DOMAIN s, Distinct(s)
    PROVE  /\ RemoveAt(s, i) \in Seq(S)
           /\ Distinct(RemoveAt(s, i))
           /\ Elements(RemoveAt(s, i)) = Elements(s) \ {s[i]}
<1>1. i \in 1..Len(s) /\ Len(s) \in Nat /\ DOMAIN s = 1..Len(s)
  OBVIOUS
<1>2. PICK r : /\ r = RemoveAt(s, i) /\ r \in Seq(S)
               /\ Len(r) = Len(s) - 1
               /\ \A k \in 1..(Len(s) - 1) : r[k] = IF k < i THEN s[k] ELSE s[k + 1]
  BY ZenonT(40), <1>1, RemoveAtElements
<1>3. DOMAIN r = 1..(Len(s) - 1)
  BY <1>2
<1>4. Distinct(r)
  <2> SUFFICES ASSUME NEW k \in 1..(Len(s) - 1), NEW m \in 1..(Len(s) - 1), r[k] = r[m]
               PROVE  k = m
    BY <1>3 DEF Distinct
  <2>1. \A a, b \in 1..Len(s) : s[a] = s[b] => a = b
    BY <1>1 DEF Distinct
  <2>2. (IF k < i THEN s[k] ELSE s[k + 1]) = (IF m < i THEN s[m] ELSE s[m + 1])
    BY <1>2
  <2> QED
    BY <1>1, <2>1, <2>2
<1>5. ASSUME NEW k \in 1..Len(s), k # i PROVE s[k] \in Elements(r)
  <2>1. CASE k < i
    <3>1. k \in 1..(Len(s) - 1) /\ r[k] = s[k]
      BY <2>1, <1>1, <1>2
    <3>2. QED
      BY <3>1, <1>3 DEF Elements
  <2>2. CASE k > i
    <3>1. k - 1 \in 1..(Len(s) - 1) /\ r[k - 1] = s[k]
      BY <2>2, <1>1, <1>2
    <3>2. QED
      BY <3>1, <1>3 DEF Elements
  <2>3. QED
    BY <1>5, <1>1, <2>1, <2>2
<1>6. ASSUME NEW k \in 1..(Len(s) - 1) PROVE r[k] \in Elements(s) \ {s[i]}
  BY SMTT(30), <1>1, <1>2 DEF Elements, Distinct
<1>7. Elements(r) = Elements(s) \ {s[i]}
  <2>1. Elements(r) \subseteq Elements(s) \ {s[i]}
    BY <1>3, <1>6 DEF Elements
  <2>2. Elements(s) \ {s[i]} \subseteq Elements(r)
    BY <1>1, <1>5 DEF Elements
  <2>3. QED
    BY <2>1, <2>2
<1>8. QED
  BY <1>2, <1>4, <1>7

-----------------------------------------------------------------------------
LEMMA InitTask == Init => TaskInv
<1> SUFFICES ASSUME Init PROVE TaskInv
  OBVIOUS
<1>1. m_tasklist = <<>> /\ <<>> \in Seq(Jobs) /\ Elements(<<>>) = {} /\ Distinct(<<>>)
  BY DEF Init, Elements, Distinct
<1>2. PICK caller \in Callers : pc = [w \in Workers |-> IF w = caller THEN "off" ELSE "scan"]
  BY DEF Init
<1>3. Typed
  BY <1>1, <1>2 DEF Init, Typed, TypeOK, Labels, AtWork
<1>4. Placed
  BY <1>1 DEF Init, Placed, Listed
<1>5. Stated
  BY <1>1 DEF Init, Stated, Waiting, Listed
<1>6. Held
  BY <1>2 DEF Init, Held, AtWork
<1> QED
  BY <1>3, <1>4, <1>5, <1>6 DEF TaskInv

-----------------------------------------------------------------------------
\* A step that moves no job and puts no thread to work or out of it.
LEMMA Quiet ==
    ASSUME TaskInv, TypeOK', NEW w \in Workers,
           UNCHANGED <<m_tasklist, m_state, timers, events, taken, job>>,
           \/ pc' = pc
           \/ /\ pc' = [pc EXCEPT ![w] = pc'[w]]
              /\ ~AtWork(w) /\ ~AtWork(w)' /\ (taken[w] = {} \/ pc'[w] = "fire")
    PROVE  TaskInv'
<1> USE DEF TaskInv
<1>1. Listed' = Listed /\ \A j \in Jobs : Waiting(j)' = Waiting(j)
  BY DEF Listed, Waiting
<1>2. pc \in [Workers -> Labels] /\ \A v \in Workers : AtWork(v)' = AtWork(v)
                                /\ (AtWork(v) => pc'[v] = pc[v])
  BY DEF Typed, TypeOK, AtWork
<1>3. Typed'
  BY <1>2 DEF Typed, AtWork
<1>4. Placed'
  BY <1>1 DEF Placed
<1>5. Stated'
  BY <1>1, <1>2 DEF Stated, AtWork
<1>6. Held'
  BY <1>1, <1>2 DEF Held, Typed, AtWork
<1> QED
  BY <1>3, <1>4, <1>5, <1>6

\* What holds of the list when a job that nothing stood for is pushed.
LEMMA Pushed ==
    ASSUME NEW p, NEW j \in Jobs, TypeOK, Distinct(m_tasklist), j \notin Listed, Push(p, j)
    PROVE  /\ m_tasklist' \in Seq(Jobs) /\ Distinct(m_tasklist')
           /\ Listed' = Listed \cup {j}
           /\ p \in Workers \cup {"user"} => tickling' \in SUBSET (Workers \cup {"user"})
BY Appended DEF TypeOK, Push, Listed

\* A first wake-up or task for j.
LEMMA SubmitTask ==
    ASSUME TaskInv, NEW p \in Workers \cup {"user"}, NEW j \in Jobs, m_state[j] = "none",
           m_state' = [m_state EXCEPT ![j] = "READY"], Push(p, j),
           UNCHANGED <<m_stopping, waited, timers, events, taken, report, pc, job, idleDone,
                       pipe, user>>
    PROVE  TaskInv'
<1> USE DEF TaskInv
<1>1. ~Waiting(j) /\ j \notin Listed
  BY DEF Stated, Waiting
<1>2. /\ m_tasklist' \in Seq(Jobs) /\ Distinct(m_tasklist') /\ Listed' = Listed \cup {j}
      /\ tickling' \in SUBSET (Workers \cup {"user"})
  BY <1>1, Pushed DEF Typed, Placed
<1>3. m_state \in [Jobs -> {"none", "READY", "RUNNING", "TERM"}]
  BY DEF Typed, TypeOK
<1>4. \A k \in Jobs : Waiting(k)' <=> Waiting(k) \/ k = j
  BY <1>2 DEF Waiting
<1>5. \A w \in Workers : AtWork(w) => job[w] \in Jobs /\ job[w] # j
  BY DEF Typed, Held, AtWork
<1>6. Typed'
  BY <1>2, <1>3 DEF Typed, TypeOK, AtWork
<1>7. Placed'
  BY <1>1, <1>2 DEF Placed, Waiting
<1>8. Stated'
  BY <1>3, <1>4, <1>5 DEF Stated, AtWork
<1>9. Held'
  BY <1>3, <1>4, <1>5 DEF Held, AtWork
<1> QED
  BY <1>6, <1>7, <1>8, <1>9

\* A wake-up of j goes from the timers or events to the list.
LEMMA WakeTask ==
    ASSUME TaskInv, TypeOK', NEW p, NEW j \in Jobs, Push(p, j),
           UNCHANGED <<m_state, pc, job, timers>>,
           \/ /\ j \in events /\ events' = events \ {j} /\ UNCHANGED taken
           \/ /\ UNCHANGED events
              /\ \E w \in Workers : j \in taken[w] /\ taken' = [taken EXCEPT ![w] = @ \ {j}]
    PROVE  TaskInv'
<1> USE DEF TaskInv
<1>1. j \notin Listed
  BY DEF Placed
<1>2. Distinct(m_tasklist') /\ Listed' = Listed \cup {j}
  BY <1>1, Pushed DEF Typed, Placed
<1>3. taken \in [Workers -> SUBSET Yielders]
  BY DEF Typed, TypeOK
<1>4. \A k \in Jobs : Waiting(k)' <=> Waiting(k)
  BY <1>2, <1>3 DEF Waiting
<1>5. Typed'
  BY <1>3 DEF Typed, AtWork
<1>6. Placed'
  BY <1>2, <1>3 DEF Placed
<1>7. Stated'
  BY <1>4 DEF Stated
<1>8. Held'
  BY <1>4 DEF Held, AtWork, Typed
<1> QED
  BY <1>5, <1>6, <1>7, <1>8

\* Scan(w) takes a task that is not RUNNING: its fiber is READY.
LEMMA ScanTask ==
    ASSUME TaskInv, NEW w \in Workers, Scan(w)
    PROVE  TaskInv'
<1> USE DEF TaskInv
<1>1. /\ pc \in [Workers -> Labels] /\ job \in [Workers -> Jobs \cup {NoJob}]
      /\ m_tasklist \in Seq(Jobs) /\ Distinct(m_tasklist)
      /\ tickling' \in SUBSET (Workers \cup {"user"})
  BY DEF Typed, TypeOK, Placed, Scan
<1>2. ASSUME NEW i \in DOMAIN m_tasklist, First(w, i),
             job' = [job EXCEPT ![w] = m_tasklist[i]], m_tasklist' = TasksLeft(i),
             Goto(w, "resume")
      PROVE  TaskInv'
  <2>0. PICK j \in Jobs : j = m_tasklist[i]
    BY <1>1
  <2>1. /\ m_tasklist' \in Seq(Jobs) /\ Distinct(m_tasklist') /\ Listed' = Listed \ {j}
    BY <2>0, <1>1, <1>2, Removed DEF TasksLeft, Listed
  <2>2. j \in Listed /\ m_state[j] # "RUNNING"
    BY <2>0, <1>1, <1>2 DEF First, Taken, Eligible, Listed, Elements
  <2>3. /\ job' = [job EXCEPT ![w] = j] /\ pc' = [pc EXCEPT ![w] = "resume"] /\ pc[w] = "scan"
        /\ UNCHANGED <<m_stopping, m_state, waited, timers, events, taken, report, idleDone,
                       pipe, user>>
    BY <2>0, <1>2 DEF Scan, Goto
  <2>4. m_state[j] = "READY" /\ Waiting(j)
    BY <2>2 DEF Stated, Waiting, Typed, TypeOK
  <2>5. \A v \in Workers : AtWork(v) => job[v] # j /\ job[v] \in Jobs
    BY <2>4, <2>3 DEF Held, AtWork, Typed
  <2>6. ~Waiting(j)' /\ \A k \in Jobs : k # j => (Waiting(k)' <=> Waiting(k))
    BY <2>1, <2>2, <2>3 DEF Waiting, Placed
  <2>7. Typed'
    BY <1>1, <2>1, <2>2, <2>3 DEF Typed, TypeOK, AtWork, Labels
  <2>8. Placed'
    BY <2>1, <2>3 DEF Placed
  <2>9. Stated'
    BY <1>1, <2>2, <2>3, <2>4, <2>6 DEF Stated
  <2>10. Held'
    BY <1>1, <2>3, <2>4, <2>5, <2>6 DEF Held, AtWork
  <2>11. QED
    BY <2>7, <2>8, <2>9, <2>10
<1>3. CASE Goto(w, "empty") /\ UNCHANGED <<job, m_tasklist>>
  <2>1. TypeOK' /\ pc' = [pc EXCEPT ![w] = pc'[w]] /\ ~AtWork(w) /\ ~AtWork(w)' /\ taken[w] = {}
    BY <1>1, <1>3 DEF Scan, Goto, Typed, TypeOK, Labels, AtWork
  <2>2. QED
    BY <1>3, <2>1, Quiet DEF Scan
<1>4. QED
  BY <1>2, <1>3 DEF Scan

\* The job a worker has in hand is resumed, runs, and yields or ends.
LEMMA ResumeTask ==
    ASSUME TaskInv, NEW w \in Workers, Resume(w)
    PROVE  TaskInv'
<1> USE DEF TaskInv
<1>1. /\ pc \in [Workers -> Labels] /\ m_state \in [Jobs -> {"none", "READY", "RUNNING", "TERM"}]
      /\ pc[w] = "resume" /\ job[w] \in Jobs
  BY DEF Typed, TypeOK, Resume, AtWork
<1>2. Listed' = Listed /\ \A j : Waiting(j)' <=> Waiting(j)
  BY DEF Resume, Listed, Waiting
<1>3. Typed'
  BY <1>1 DEF Typed, TypeOK, Resume, Goto, Labels, AtWork
<1>4. Placed'
  BY <1>2 DEF Placed, Resume
<1>5. Stated'
  BY <1>1, <1>2 DEF Stated, Resume, Goto, Held
<1>6. Held'
  BY <1>1, <1>2 DEF Held, Resume, Goto, AtWork, Typed
<1> QED
  BY <1>3, <1>4, <1>5, <1>6

LEMMA ArrangeTask ==
    ASSUME TaskInv, NEW w \in Workers, Arrange(w)
    PROVE  TaskInv'
<1> USE DEF TaskInv
<1>1. /\ pc \in [Workers -> Labels] /\ pc[w] = "running" /\ job[w] \in Jobs
      /\ m_state[job[w]] = "RUNNING" /\ ~Waiting(job[w])
      /\ pc' = [pc EXCEPT ![w] = "yielding"]
      /\ \/ events' = events \cup {job[w]} /\ UNCHANGED timers
         \/ timers' = timers \cup {job[w]} /\ UNCHANGED events
      /\ UNCHANGED <<m_tasklist, m_state, job, taken>>
  BY DEF Typed, TypeOK, Arrange, AtWork, Held, Goto
<1>2. Listed' = Listed /\ \A j : Waiting(j)' <=> Waiting(j) \/ j = job[w]
  BY <1>1 DEF Listed, Waiting
<1>3. Typed'
  <2>1. TypeOK'
    BY DEF Typed, TypeOK, Arrange, Goto, Labels
  <2>2. QED
    BY <1>1, <2>1 DEF Typed, AtWork
<1>4. Placed'
  BY <1>1, <1>2 DEF Placed, Waiting
<1>5. Stated'
  BY <1>1, <1>2 DEF Stated
<1>6. Held'
  BY <1>1, <1>2 DEF Held, AtWork, Typed
<1> QED
  BY <1>3, <1>4, <1>5, <1>6

LEMMA YieldTask ==
    ASSUME TaskInv, NEW w \in Workers, Yield(w)
    PROVE  TaskInv'
<1> USE DEF TaskInv
<1>1. /\ pc \in [Workers -> Labels] /\ m_state \in [Jobs -> {"none", "READY", "RUNNING", "TERM"}]
      /\ pc[w] = "yielding" /\ job[w] \in Jobs
  BY DEF Typed, TypeOK, Yield, AtWork
<1>2. Listed' = Listed /\ \A j : Waiting(j)' <=> Waiting(j)
  BY DEF Yield, Listed, Waiting
<1>3. Typed'
  BY <1>1 DEF Typed, TypeOK, Yield, Goto, Labels, AtWork
<1>4. Placed'
  BY <1>2 DEF Placed, Yield
<1>5. Stated'
  BY <1>1, <1>2 DEF Stated, Yield, Goto, Held
<1>6. Held'
  BY <1>1, <1>2 DEF Held, Yield, Goto, AtWork, Typed
<1> QED
  BY <1>3, <1>4, <1>5, <1>6

LEMMA FinishTask ==
    ASSUME TaskInv, NEW w \in Workers, Finish(w)
    PROVE  TaskInv'
<1> USE DEF TaskInv
<1>1. /\ pc \in [Workers -> Labels] /\ m_state \in [Jobs -> {"none", "READY", "RUNNING", "TERM"}]
      /\ pc[w] = "running" /\ job[w] \in Jobs
  BY DEF Typed, TypeOK, Finish, AtWork
<1>2. Listed' = Listed /\ \A j : Waiting(j)' <=> Waiting(j)
  BY DEF Finish, Listed, Waiting
<1>3. Typed'
  BY <1>1 DEF Typed, TypeOK, Finish, Goto, Labels, AtWork
<1>4. Placed'
  BY <1>2 DEF Placed, Finish
<1>5. Stated'
  BY <1>1, <1>2 DEF Stated, Finish, Goto, Held
<1>6. Held'
  BY <1>1, <1>2 DEF Held, Finish, Goto, AtWork, Typed
<1> QED
  BY <1>3, <1>4, <1>5, <1>6

LEMMA AfterTask ==
    ASSUME TaskInv, NEW w \in Workers, AfterJob(w)
    PROVE  TaskInv'
<1> USE DEF TaskInv
<1>1. pc \in [Workers -> Labels] /\ job \in [Workers -> Jobs \cup {NoJob}] /\ pc[w] = "done"
  BY DEF Typed, TypeOK, AfterJob
<1>2. Listed' = Listed /\ \A j : Waiting(j)' <=> Waiting(j)
  BY DEF AfterJob, Listed, Waiting
<1>3. Typed'
  BY <1>1 DEF Typed, TypeOK, AfterJob, Goto, Labels, AtWork
<1>4. Placed'
  BY <1>2 DEF Placed, AfterJob
<1>5. Stated'
  BY <1>1, <1>2 DEF Stated, AfterJob, Goto
<1>6. Held'
  BY <1>1, <1>2 DEF Held, AfterJob, Goto, AtWork
<1> QED
  BY <1>3, <1>4, <1>5, <1>6

\* Due timers leave the timer set for the hands of the worker.
LEMMA CollectTask ==
    ASSUME TaskInv, NEW w \in Workers, NEW set \in SUBSET timers, CollectTimers(w, set)
    PROVE  TaskInv'
<1> USE DEF TaskInv
<1>1. /\ pc \in [Workers -> Labels] /\ taken \in [Workers -> SUBSET Yielders]
      /\ pc[w] = "expire" /\ taken[w] = {}
      /\ pc' = [pc EXCEPT ![w] = "fire"] /\ taken' = [taken EXCEPT ![w] = set]
      /\ timers' = timers \ set /\ UNCHANGED <<m_tasklist, m_state, events, job>>
  BY DEF Typed, TypeOK, CollectTimers, Goto
<1>2. Listed' = Listed /\ \A j : Waiting(j)' <=> Waiting(j)
  BY <1>1 DEF Listed, Waiting
<1>3. Typed'
  <2>1. TypeOK'
    BY <1>1 DEF Typed, TypeOK, CollectTimers, Labels
  <2>2. QED
    BY <1>1, <2>1 DEF Typed, AtWork
<1>4. Placed'
  BY <1>1, <1>2 DEF Placed
<1>5. Stated'
  BY <1>1, <1>2 DEF Stated
<1>6. Held'
  BY <1>1, <1>2 DEF Held, AtWork
<1> QED
  BY <1>3, <1>4, <1>5, <1>6

-----------------------------------------------------------------------------
\* The other steps of a worker move no job.
LEMMA QuietWorker ==
    ASSUME TaskInv, NEW w \in Workers,
           \/ NoTask(w) \/ CheckTimers(w) \/ CheckPending(w) \/ CheckDrained(w)
           \/ TimersFired(w) \/ DrainPipe(w) \/ Leave(w)
    PROVE  TaskInv'
<1>1. TypeOK /\ pc \in [Workers -> Labels] /\ (taken[w] # {} => pc[w] = "fire")
  BY DEF TaskInv, Typed, TypeOK
<1>2. CASE NoTask(w)
  BY <1>1, <1>2, Quiet DEF NoTask, Goto, TypeOK, Labels, AtWork
<1>3. CASE CheckTimers(w)
  BY <1>1, <1>3, Quiet DEF CheckTimers, Goto, TypeOK, Labels, AtWork
<1>4. CASE CheckPending(w)
  BY <1>1, <1>4, Quiet DEF CheckPending, Goto, TypeOK, Labels, AtWork
<1>5. CASE CheckDrained(w)
  BY <1>1, <1>5, Quiet DEF CheckDrained, Goto, TypeOK, Labels, AtWork
<1>6. CASE TimersFired(w)
  BY <1>1, <1>6, Quiet DEF TimersFired, Goto, TypeOK, Labels, AtWork
<1>7. CASE DrainPipe(w)
  BY <1>1, <1>7, Quiet DEF DrainPipe, TypeOK
<1>8. CASE Leave(w)
  BY <1>1, <1>8, Quiet DEF Leave, Goto, TypeOK, Labels, AtWork
<1>9. QED
  BY <1>2, <1>3, <1>4, <1>5, <1>6, <1>7, <1>8

LEMMA SwapTask ==
    ASSUME TaskInv, NEW w \in Workers, SwapContext(w)
    PROVE  TaskInv'
<1>1. TypeOK' /\ pc' = [pc EXCEPT ![w] = "done"] /\ pc[w] = "swap" /\ pc \in [Workers -> Labels]
  BY DEF TaskInv, Typed, TypeOK, SwapContext, Goto, Labels
<1>2. taken[w] = {}
  BY <1>1 DEF TaskInv, Typed
<1>3. QED
  BY <1>1, <1>2, Quiet DEF SwapContext, AtWork

LEMMA TickleTask ==
    ASSUME TaskInv, NEW p, Tickle(p)
    PROVE  TaskInv'
<1>1. TypeOK' /\ UNCHANGED <<m_tasklist, m_state, waited, timers, events, taken, pc, job>>
  BY DEF TaskInv, Typed, TypeOK, Tickle
<1>2. Listed' = Listed /\ \A j : Waiting(j)' <=> Waiting(j)
  BY <1>1 DEF Listed, Waiting
<1>3. QED
  BY <1>1, <1>2 DEF TaskInv, Typed, Placed, Stated, Held, AtWork

LEMMA ReportTask ==
    ASSUME TaskInv, NEW w \in Workers, NEW set \in SUBSET Reportable, EpollReport(w, set)
    PROVE  TaskInv'
<1>1. TypeOK /\ pc \in [Workers -> Labels] /\ pc[w] = "wait" /\ taken[w] = {}
  BY DEF TaskInv, Typed, TypeOK, EpollReport
<1>2. set \subseteq Yielders \cup {"pipe"}
  BY <1>1 DEF Reportable, TypeOK
<1>3. TypeOK' /\ pc' = [pc EXCEPT ![w] = "expire"]
  BY <1>1, <1>2 DEF EpollReport, Goto, TypeOK, Labels
<1>4. QED
  BY <1>1, <1>3, Quiet DEF EpollReport, AtWork

\* The user's thread starts threads, and joins them.
LEMMA UserTask ==
    ASSUME TaskInv, Stop \/ RunCaller \/ Join
    PROVE  TaskInv'
<1> USE DEF TaskInv
<1>1. TypeOK /\ pc \in [Workers -> Labels] /\ \A w \in Workers : taken[w] # {} => pc[w] = "fire"
  BY DEF Typed, TypeOK
<1>2. UNCHANGED <<m_tasklist, m_state, waited, timers, events, taken, job>>
  BY DEF Stop, RunCaller, Join
<1>3. Listed' = Listed /\ \A j : Waiting(j)' <=> Waiting(j)
  BY <1>2 DEF Listed, Waiting
<1>4. /\ pc' \in [Workers -> Labels]
      /\ \A w \in Workers : pc'[w] = pc[w] \/ (pc[w] = "off" /\ pc'[w] = "scan")
  BY <1>1 DEF Stop, RunCaller, Join, Labels
<1>5. TypeOK'
  BY ZenonT(40), <1>1, <1>4 DEF TypeOK, Stop, RunCaller, Join
<1>6. \A w \in Workers : AtWork(w)' = AtWork(w) /\ (AtWork(w) => pc'[w] = pc[w])
  BY <1>4 DEF AtWork
<1>7. Typed'
  BY <1>1, <1>2, <1>4, <1>5, <1>6 DEF Typed
<1>8. Placed' /\ Stated'
  BY <1>2, <1>3, <1>4 DEF Placed, Stated
<1>9. Held'
  BY <1>2, <1>3, <1>4, <1>6 DEF Held
<1>10. QED
  BY <1>7, <1>8, <1>9

-----------------------------------------------------------------------------
\* The invariant is preserved by every step.
LEMMA NextTask == TaskInv /\ [Next]_vars => TaskInv'
<1> SUFFICES ASSUME TaskInv, [Next]_vars PROVE TaskInv'
  OBVIOUS
<1>1. ASSUME NEW j \in Jobs, Submit(j) PROVE TaskInv'
  BY <1>1, SubmitTask DEF Submit
<1>2. CASE Stop
  BY <1>2, UserTask
<1>3. CASE UserStep
  BY <1>3, UserTask, TickleTask DEF UserStep
<1>4. ASSUME NEW w \in Workers, RunStep(w) PROVE TaskInv'
  BY <1>4, TickleTask, ScanTask, ResumeTask, ArrangeTask, YieldTask, SwapTask, FinishTask,
     AfterTask, QuietWorker DEF RunStep
<1>5. ASSUME NEW w \in Workers, NEW j \in Jobs, FireTimer(w, j) PROVE TaskInv'
  <2>1. TypeOK'
    <3>1. TypeOK /\ taken \in [Workers -> SUBSET Yielders] /\ j \notin Listed
      BY <1>5 DEF TaskInv, Typed, TypeOK, FireTimer, Placed
    <3>2. m_tasklist' \in Seq(Jobs) /\ tickling' \in SUBSET (Workers \cup {"user"})
      BY <1>5, <3>1, Pushed DEF FireTimer, TaskInv, Placed
    <3>3. QED
      BY <1>5, <3>1, <3>2 DEF FireTimer, TypeOK
  <2>2. QED
    BY <1>5, <2>1, WakeTask DEF FireTimer
<1>6. ASSUME NEW w \in Workers, NEW j \in Jobs, DispatchEvent(w, j) PROVE TaskInv'
  <2>1. TypeOK /\ report \in [Workers -> SUBSET (Yielders \cup {"pipe"})]
    BY DEF TaskInv, Typed, TypeOK
  <2>2. CASE j \in events
    <3>1. Push(w, j) /\ events' = events \ {j}
      BY <1>6, <2>2 DEF DispatchEvent, Registered
    <3>2. m_tasklist' \in Seq(Jobs) /\ tickling' \in SUBSET (Workers \cup {"user"})
      BY <2>1, <2>2, <3>1, Pushed DEF TaskInv, Placed
    <3>3. TypeOK'
      BY <1>6, <2>1, <3>1, <3>2 DEF DispatchEvent, TypeOK
    <3>4. QED
      BY <1>6, <2>2, <3>1, <3>3, WakeTask DEF DispatchEvent
  <2>3. CASE j \notin events
    <3>1. UNCHANGED <<m_tasklist, m_state, timers, events, taken, pc, job>> /\ TypeOK'
      BY <1>6, <2>1, <2>3 DEF DispatchEvent, Registered, TypeOK
    <3>2. QED
      BY <3>1, Quiet
  <2>4. QED
    BY <2>2, <2>3
<1>7. ASSUME NEW w \in Workers, IdleStep(w) PROVE TaskInv'
  BY <1>5, <1>6, <1>7, QuietWorker, ReportTask, CollectTask DEF IdleStep
<1>8. ASSUME NEW w \in Workers, NEW j \in Jobs, Spawn(w, j) PROVE TaskInv'
  BY <1>8, SubmitTask DEF Spawn
<1>9. CASE UNCHANGED vars
  <2>1. Listed' = Listed /\ \A j : Waiting(j)' <=> Waiting(j)
    BY <1>9 DEF vars, Listed, Waiting
  <2>2. QED
    BY <1>9, <2>1 DEF vars, TaskInv, Typed, TypeOK, Placed, Stated, Held, AtWork
<1>10. QED
  BY <1>1, <1>2, <1>3, <1>4, <1>7, <1>8, <1>9 DEF Next

-----------------------------------------------------------------------------
\* A set with at most one element is counted as such.
LEMMA CountAtMostOne ==
    ASSUME NEW S, \A x, y \in S : x = y
    PROVE  Cardinality(S) = IF S = {} THEN 0 ELSE 1
<1>1. CASE S = {}
  BY <1>1, FS_EmptySet
<1>2. CASE S # {}
  <2>1. PICK x : S = {x}
    BY <1>2
  <2>2. QED
    BY <2>1, FS_Singleton
<1>3. QED
  BY <1>1, <1>2

\* As the places are disjoint, a job that waits is queued once, any other nowhere.
LEMMA QueuedOnce ==
    ASSUME TaskInv, NEW j \in Jobs
    PROVE  Queued(j) = IF Waiting(j) THEN 1 ELSE 0
<1> DEFINE places == {i \in DOMAIN m_tasklist : m_tasklist[i] = j}
           hands == {w \in Workers : j \in taken[w]}
<1>1. Cardinality(places) = IF places = {} THEN 0 ELSE 1
  <2>1. \A x, y \in places : x = y
    BY DEF TaskInv, Placed, Distinct
  <2> HIDE DEF places
  <2>2. QED
    BY <2>1, CountAtMostOne
<1>2. Cardinality(hands) = IF hands = {} THEN 0 ELSE 1
  <2>1. \A x, y \in hands : x = y
    BY DEF TaskInv, Placed
  <2> HIDE DEF hands
  <2>2. QED
    BY <2>1, CountAtMostOne
<1>3. /\ places = {} <=> j \notin Listed
      /\ hands = {} <=> ~\E w \in Workers : j \in taken[w]
  BY DEF Listed, Elements
<1>4. Queued(j) = (IF j \in Listed THEN 1 ELSE 0)
                 + (IF \E w \in Workers : j \in taken[w] THEN 1 ELSE 0)
                 + (IF j \in timers THEN 1 ELSE 0) + (IF j \in events THEN 1 ELSE 0)
  BY <1>1, <1>2, <1>3 DEF Queued
<1>5. QED
  BY <1>4 DEF TaskInv, Placed, Waiting

\* No job is lost or doubled: an unfinished one is queued exactly once or held by a
\* thread, a finished one is queued nowhere (Scheduler::schedule, run, IOManager::idle).
THEOREM TasksCorrect == Spec => []TasksSound
<1>1. TaskInv => TasksSound
  <2> SUFFICES ASSUME TaskInv PROVE TypeOK /\ AccountedFor
    BY DEF TasksSound
  <2>1. TypeOK
    BY DEF TaskInv, Typed
  <2>2. ASSUME NEW j \in Jobs
        PROVE  /\ Queued(j) <= 1
               /\ m_state[j] = "TERM" => Queued(j) = 0
               /\ m_state[j] \in {"READY", "RUNNING"} =>
                    Queued(j) = 1 \/ \E w \in Workers : job[w] = j
    BY QueuedOnce DEF TaskInv, Stated
  <2>3. QED
    BY <2>1, <2>2 DEF AccountedFor
<1>2. QED
  BY InitTask, NextTask, <1>1, PTL DEF Spec

\* resume() is called only on a READY fiber, and no two threads execute the same
\* fiber, the switch out of it left aside (Scheduler::run, Fiber::resume).
THEOREM WorkersApart == Spec => []OneThreadAtWork
<1>1. TaskInv => OneThreadAtWork
  BY DEF TaskInv, Held, AtWork, OneThreadAtWork, ResumeLegal
<1>2. QED
  BY InitTask, NextTask, <1>1, PTL DEF Spec

-----------------------------------------------------------------------------
\* The hypothesis of what follows: one job at most waits, or there is one thread.
\* With two of each, both threads can leave too early (MCSchedRaces.cfg).
OneWaits ==
    /\ Workers # {}
    /\ (\A i, j \in Yielders : i = j) \/ (\A v, w \in Workers : v = w)

\* Nothing is left to do, and as no job runs nothing comes.
Finished == \A j \in Jobs : m_state[j] \in {"none", "TERM"}

InIdle(w) ==
    pc[w] \in {"timers", "events", "drained", "wait", "expire", "fire", "dispatch"}

\* The jobs whose wake-up is still to come.
Outstanding == timers \cup events \cup UNION {taken[w] : w \in Workers}

\* The worker's idle fiber will find what stopping() has not yet seen.
Careful(w) ==
    w \notin idleDone /\ pc[w] # "drained" /\ (pc[w] = "events" => timers = {})

\* A worker may leave before its time, once no other job can begin to wait; then
\* another one stays behind, and the last finds everything done.
DrainInv ==
    /\ \A w \in Workers : pc[w] = "exit" => w \in idleDone
    /\ \A w \in idleDone : ~InIdle(w)
    /\ m_stopping => user # "open"
    /\ idleDone # {} => m_stopping /\ (Finished \/ Yielders \subseteq waited)
    /\ Outstanding \subseteq waited
    /\ timers \cup events # {} => \E w \in Workers : Careful(w)
    /\ idleDone = Workers => Finished

\* No thread has left, and none may before stop().
LEMMA InitDrain == OneWaits /\ Init => DrainInv
<1> SUFFICES ASSUME OneWaits, Init PROVE DrainInv
  OBVIOUS
<1>1. PICK caller \in Callers : pc = [w \in Workers |-> IF w = caller THEN "off" ELSE "scan"]
  BY DEF Init
<1>2. Outstanding = {} /\ idleDone = {} /\ \A w \in Workers : pc[w] # "exit"
  BY <1>1 DEF Init, Outstanding
<1>3. QED
  BY <1>2 DEF Init, DrainInv, OneWaits

\* When everything is finished no worker has a job and nothing stands for one.
LEMMA FinishedRests ==
    ASSUME TaskInv, Finished
    PROVE  /\ \A w \in Workers : ~AtWork(w)
           /\ m_tasklist = <<>> /\ timers = {} /\ events = {}
<1>1. \A j \in Jobs : ~Waiting(j)
  BY DEF TaskInv, Stated, Finished
<1>2. \A w \in Workers : ~AtWork(w)
  BY DEF TaskInv, Typed, Held, AtWork, Finished
<1>3. m_tasklist \in Seq(Jobs) /\ timers \subseteq Jobs /\ events \subseteq Jobs
  BY DEF TaskInv, Typed, TypeOK
<1>4. timers = {} /\ events = {}
  BY <1>1, <1>3 DEF Waiting
<1>5. m_tasklist = <<>>
  <2> SUFFICES ASSUME m_tasklist # <<>> PROVE FALSE
    OBVIOUS
  <2>1. 1 \in DOMAIN m_tasklist /\ m_tasklist[1] \in Jobs
    BY <1>3
  <2>2. QED
    BY <1>1, <2>1 DEF Waiting, Listed, Elements
<1>6. QED
  BY <1>2, <1>4, <1>5

\* A step that arranges no wake-up and ends no idle fiber.
LEMMA DrainKept ==
    ASSUME DrainInv, UNCHANGED <<waited, idleDone>>, m_stopping => m_stopping',
           m_stopping' => user' # "open",
           timers' \subseteq timers, events' \subseteq events, Outstanding' \subseteq Outstanding,
           Finished => Finished',
           \A v \in Workers : pc'[v] = "exit" => v \in idleDone,
           \A v \in idleDone : ~InIdle(v)',
           \A v \in Workers : timers' \cup events' # {} /\ Careful(v) => Careful(v)'
    PROVE  DrainInv'
<1>1. timers' \cup events' # {} => \E w \in Workers : Careful(w)'
  BY DEF DrainInv
<1>2. idleDone' # {} => m_stopping' /\ (Finished' \/ Yielders \subseteq waited')
  BY DEF DrainInv
<1>3. QED
  BY <1>1, <1>2 DEF DrainInv

\* A step of the user's thread, or of a tickle.
LEMMA UserDrains ==
    ASSUME OneWaits, TaskInv, DrainInv,
           (\E j \in Jobs : Submit(j)) \/ Stop \/ RunCaller \/ Join \/ (\E p : Tickle(p))
    PROVE  DrainInv'
<1>1. /\ UNCHANGED <<waited, idleDone, timers, events, taken>>
      /\ pc \in [Workers -> Labels] /\ m_stopping \in BOOLEAN
      /\ Outstanding' = Outstanding
  BY DEF Submit, Stop, RunCaller, Join, Tickle, TaskInv, Typed, TypeOK, Outstanding
<1>2. CASE \E j \in Jobs : Submit(j)
  <2>1. ~m_stopping /\ idleDone = {} /\ UNCHANGED <<m_stopping, user, pc>>
    BY <1>1, <1>2 DEF Submit, DrainInv
  <2>2. QED
    BY <1>1, <2>1 DEF DrainInv, OneWaits, Careful
<1>3. CASE Stop \/ RunCaller \/ Join \/ (\E p : Tickle(p))
  <2>1. m_state' = m_state /\ (m_stopping => m_stopping') /\ (m_stopping' => user' # "open")
    BY <1>3 DEF Stop, RunCaller, Join, Tickle, DrainInv
  <2>2. \A v \in Workers : pc'[v] = pc[v] \/ (pc[v] = "off" /\ pc'[v] = "scan")
    BY <1>1, <1>3 DEF Stop, RunCaller, Join, Tickle
  <2>3. idleDone \subseteq Workers
    BY DEF TaskInv, Typed, TypeOK
  <2>4. /\ \A v \in Workers : pc'[v] = "exit" => v \in idleDone
        /\ \A v \in idleDone : ~InIdle(v)'
        /\ \A v \in Workers : Careful(v) => Careful(v)'
    BY <1>1, <2>2, <2>3 DEF DrainInv, InIdle, Careful
  <2>5. QED
    BY <1>1, <2>1, <2>4, DrainKept DEF Finished
<1>4. QED
  BY <1>2, <1>3

\* A step of run() that arranges nothing.
LEMMA RunDrains ==
    ASSUME TaskInv, DrainInv, NEW w \in Workers,
           \/ Scan(w) \/ Resume(w) \/ Yield(w) \/ SwapContext(w) \/ Finish(w) \/ AfterJob(w)
           \/ NoTask(w) \/ \E j \in Jobs : Spawn(w, j)
    PROVE  DrainInv'
<1>1. /\ UNCHANGED <<waited, idleDone, timers, events, taken, m_stopping, user>>
      /\ pc \in [Workers -> Labels] /\ idleDone \subseteq Workers
      /\ Outstanding' = Outstanding
  BY DEF Scan, Resume, Yield, SwapContext, Finish, AfterJob, NoTask, Spawn, TaskInv, Typed, TypeOK,
         Outstanding
<1>2. \/ pc' = pc
      \/ \E l \in {"resume", "empty", "running", "swap", "done", "scan"} :
           pc' = [pc EXCEPT ![w] = l]
      \/ pc' = [pc EXCEPT ![w] = "exit"] /\ w \in idleDone
      \/ pc' = [pc EXCEPT ![w] = "timers"] /\ w \notin idleDone
  BY DEF Scan, Resume, Yield, SwapContext, Finish, AfterJob, NoTask, Spawn, Goto
<1>3. /\ \A v \in Workers : pc'[v] = "exit" => v \in idleDone
      /\ \A v \in idleDone : ~InIdle(v)'
      /\ \A v \in Workers : Careful(v) => Careful(v)'
  BY <1>1, <1>2 DEF DrainInv, InIdle, Careful
<1>4. ASSUME Finished PROVE Finished'
  <2>1. ~AtWork(w)
    BY <1>4, FinishedRests
  <2>2. UNCHANGED m_state
    BY <2>1 DEF AtWork, Scan, Resume, Yield, SwapContext, Finish, AfterJob, NoTask, Spawn
  <2>3. QED
    BY <1>4, <2>2 DEF Finished
<1>5. QED
  BY <1>1, <1>3, <1>4, DrainKept DEF DrainInv

\* A step of idle() but for the last test of stopping().
LEMMA IdleDrains ==
    ASSUME TaskInv, DrainInv, NEW w \in Workers,
           \/ CheckTimers(w) \/ CheckPending(w)
           \/ \E set \in SUBSET Reportable : EpollReport(w, set)
           \/ \E set \in SUBSET timers : CollectTimers(w, set)
           \/ \E j \in Jobs : FireTimer(w, j) \/ DispatchEvent(w, j)
           \/ TimersFired(w) \/ DrainPipe(w) \/ Leave(w)
    PROVE  DrainInv'
<1>1. /\ UNCHANGED <<waited, idleDone, m_stopping, user, m_state>>
      /\ pc \in [Workers -> Labels] /\ taken \in [Workers -> SUBSET Yielders]
      /\ idleDone \subseteq Workers
  BY DEF CheckTimers, CheckPending, EpollReport, CollectTimers, FireTimer, DispatchEvent,
         TimersFired, DrainPipe, Leave, TaskInv, Typed, TypeOK
<1>2. /\ timers' \subseteq timers /\ events' \subseteq events
      /\ \A v \in Workers : taken'[v] \subseteq taken[v] \cup timers
  BY <1>1 DEF CheckTimers, CheckPending, EpollReport, CollectTimers, FireTimer, DispatchEvent,
         TimersFired, DrainPipe, Leave
<1>3. Outstanding' \subseteq Outstanding
  BY <1>2 DEF Outstanding
<1>4. \/ pc' = pc
      \/ pc' = [pc EXCEPT ![w] = "events"] /\ timers = {} /\ InIdle(w)
      \/ pc' = [pc EXCEPT ![w] = "drained"] /\ pc[w] = "events" /\ events = {}
      \/ \E l \in {"wait", "expire", "fire", "dispatch"} : pc' = [pc EXCEPT ![w] = l] /\ InIdle(w)
      \/ pc' = [pc EXCEPT ![w] = "scan"]
  BY DEF CheckTimers, CheckPending, EpollReport, CollectTimers, FireTimer, DispatchEvent,
         TimersFired, DrainPipe, Leave, Goto, InIdle
<1>5. /\ \A v \in Workers : pc'[v] = "exit" => v \in idleDone
      /\ \A v \in idleDone : ~InIdle(v)'
  BY <1>1, <1>4 DEF DrainInv, InIdle
<1>6. ASSUME NEW v \in Workers, timers' \cup events' # {}, Careful(v) PROVE Careful(v)'
  BY <1>1, <1>2, <1>4, <1>6 DEF Careful
<1>7. QED
  BY <1>1, <1>2, <1>3, <1>5, <1>6, DrainKept DEF DrainInv, Finished

\* The worker that runs the job that begins to wait stays to see it woken.
LEMMA ArrangeDrains ==
    ASSUME OneWaits, TaskInv, DrainInv, NEW w \in Workers, Arrange(w)
    PROVE  DrainInv'
<1>1. /\ pc[w] = "running" /\ job[w] \in Yielders \ waited /\ waited' = waited \cup {job[w]}
      /\ pc' = [pc EXCEPT ![w] = "yielding"] /\ pc \in [Workers -> Labels]
      /\ timers' \subseteq timers \cup {job[w]} /\ events' \subseteq events \cup {job[w]}
      /\ UNCHANGED <<m_stopping, m_state, taken, idleDone, user>>
  BY DEF Arrange, Goto, TaskInv, Typed, TypeOK
<1>2. ~Finished
  BY <1>1, FinishedRests DEF AtWork
<1>3. idleDone = {}
  BY <1>1, <1>2 DEF DrainInv
<1>4. Careful(w)'
  BY <1>1, <1>3 DEF Careful
<1>5. Outstanding' \subseteq waited'
  BY <1>1 DEF Outstanding, DrainInv
<1>6. \A v \in Workers : pc'[v] # "exit"
  BY <1>1, <1>3 DEF DrainInv
<1>7. QED
  BY <1>1, <1>3, <1>4, <1>5, <1>6 DEF DrainInv, OneWaits

\* Where stopping() holds for the last worker, everything is done.
LEMMA CheckDrains ==
    ASSUME OneWaits, TaskInv, DrainInv, NEW w \in Workers, CheckDrained(w)
    PROVE  DrainInv'
<1>1. /\ pc[w] = "drained" /\ pc \in [Workers -> Labels] /\ idleDone \subseteq Workers
      /\ taken \in [Workers -> SUBSET Yielders]
      /\ UNCHANGED <<m_stopping, m_state, waited, timers, events, taken, user>>
      /\ Outstanding' = Outstanding
  BY DEF CheckDrained, TaskInv, Typed, TypeOK, Outstanding
<1>2. CASE ~Drained
  <2>1. idleDone' = idleDone /\ pc' = [pc EXCEPT ![w] = "wait"]
    BY <1>2 DEF CheckDrained, Goto
  <2>2. /\ \A v \in Workers : pc'[v] = "exit" => v \in idleDone
        /\ \A v \in idleDone : ~InIdle(v)'
        /\ \A v \in Workers : Careful(v) => Careful(v)'
    BY <1>1, <2>1 DEF DrainInv, InIdle, Careful
  <2>3. QED
    BY <1>1, <2>1, <2>2, DrainKept DEF DrainInv, Finished
<1>3. CASE Drained
  <2>1. idleDone' = idleDone \cup {w} /\ pc' = [pc EXCEPT ![w] = "leave"] /\ m_stopping
    BY <1>3 DEF CheckDrained, Goto, Drained
  <2>2. \A j \in Jobs : m_state[j] \in {"READY", "RUNNING"} => j \in Outstanding
    <3>1. \A v \in Workers : ~AtWork(v)
      BY <1>3 DEF Drained, Active, AtWork
    <3>2. Listed = {}
      BY <1>3 DEF Drained, Listed, Elements
    <3>3. QED
      BY <3>1, <3>2 DEF TaskInv, Stated, AtWork, Waiting, Outstanding
  <2>3. m_state \in [Jobs -> {"none", "READY", "RUNNING", "TERM"}]
    BY DEF TaskInv, Typed, TypeOK
  <2>4. Outstanding \subseteq Yielders /\ Outstanding \subseteq waited
    BY DEF TaskInv, Typed, TypeOK, Outstanding, DrainInv
  <2>5. Outstanding = {} => Finished
    BY <2>2, <2>3 DEF Finished
  <2>6. \A v \in idleDone : taken[v] = {}
    BY <1>1 DEF DrainInv, InIdle, TaskInv, Typed
  <2>7. ASSUME idleDone' = Workers PROVE Finished
    <3>1. timers = {} /\ events = {}
      BY <1>1, <2>1, <2>7 DEF DrainInv, Careful
    <3>2. \A v \in Workers : taken[v] = {}
      BY <1>1, <2>1, <2>6, <2>7 DEF TaskInv, Typed
    <3>3. QED
      BY <2>5, <3>1, <3>2 DEF Outstanding
  <2>8. Finished \/ Yielders \subseteq waited
    <3>1. CASE \A i, j \in Yielders : i = j
      BY <2>4, <2>5, <3>1
    <3>2. CASE \A u, v \in Workers : u = v
      BY <1>1, <2>1, <2>7, <3>2
    <3>3. QED
      BY <3>1, <3>2 DEF OneWaits
  <2>9. /\ \A v \in Workers : pc'[v] = "exit" => v \in idleDone'
        /\ \A v \in idleDone' : ~InIdle(v)'
        /\ \A v \in Workers : Careful(v) => Careful(v)'
    BY <1>1, <2>1 DEF DrainInv, InIdle, Careful
  <2>10. Finished' = Finished
    BY <1>1 DEF Finished
  <2>11. QED
    BY <1>1, <2>1, <2>7, <2>8, <2>9, <2>10 DEF DrainInv
<1>4. QED
  BY <1>2, <1>3

LEMMA NextDrain == OneWaits /\ TaskInv /\ DrainInv /\ [Next]_vars => DrainInv'
<1> SUFFICES ASSUME OneWaits, TaskInv, DrainInv, [Next]_vars PROVE DrainInv'
  OBVIOUS
<1>1. CASE UNCHANGED vars
  BY <1>1 DEF vars, DrainInv, InIdle, Finished, Outstanding, Careful
<1>2. ASSUME NEW w \in Workers, RunStep(w) \/ IdleStep(w) \/ \E j \in Jobs : Spawn(w, j)
      PROVE  DrainInv'
  BY <1>2, UserDrains, RunDrains, IdleDrains, ArrangeDrains, CheckDrains DEF RunStep, IdleStep
<1>3. QED
  BY <1>1, <1>2, UserDrains DEF Next, UserStep

\* Once all threads have left run(), every scheduled job has terminated and no
\* wake-up is outstanding, where one job at most waits or there is one thread
\* (Scheduler::stop, run, IOManager::stopping).
THEOREM DrainedCorrect == ASSUME OneWaits PROVE Spec => []DrainedAtExit
<1>1. TaskInv /\ DrainInv => DrainedAtExit
  <2> SUFFICES ASSUME TaskInv, DrainInv, \A w \in Workers : pc[w] = "exit"
               PROVE  /\ m_tasklist = <<>> /\ timers = {} /\ events = {}
                      /\ \A j \in Jobs : m_state[j] \in {"none", "TERM"}
    BY DEF DrainedAtExit
  <2>1. idleDone = Workers
    BY ZenonT(40) DEF DrainInv, TaskInv, Typed, TypeOK
  <2>2. Finished
    BY <2>1 DEF DrainInv
  <2>3. QED
    BY <2>2, FinishedRests DEF Finished
<1>2. QED
  BY InitTask, NextTask, InitDrain, NextDrain, <1>1, PTL DEF Spec
=============================================================================
