----------------------------- MODULE AsyncLogger -----------------------------
(***************************************************************************)
(* acid::AsyncLogger (logger/async_logger.cpp) behind a Logger and its     *)
(* FileLogAppender (logger/logger.cpp), in a program that may turn itself  *)
(* into a daemon (common/daemon.cpp).                                      *)
(*                                                                         *)
(* Logger::log() keeps the logger's spinlock (spin) while the appender     *)
(* works, so one thread at a time is in append().  A line fits the current *)
(* buffer or takes the next free one; cur is also the head of free.  The   *)
(* logger thread (flusher) waits on the same condition as append() does:   *)
(* signalled it writes the full buffers, after three seconds without a     *)
(* signal the current one.  What is done under m_mutex is one step, except *)
(* that the flusher writes buffer by buffer; spurious wake-ups are left    *)
(* out, both loops ignore them.                                            *)
(*                                                                         *)
(* The variables are those of the process that runs main_func; image is    *)
(* what its parent, the daemon, had of them when it forked: a fork has no  *)
(* flusher.  mine, missed and raced are history: the lines this process    *)
(* appended, a signal that found the flusher on its way to the wait ("now" *)
(* until it writes the full buffers again), a destructor that met the      *)
(* flusher at work.                                                        *)
(***************************************************************************)
EXTENDS Integers, Sequences, FiniteSets

CONSTANTS Threads, Main,   \* of the program; Main runs main()
          BufferNum,       \* BUFFER_NUM
          Capacity,        \* lines a buffer holds
          MaxLines, MaxRestarts
VARIABLES spin, pc, line, buffers, cur, free, flush, flusher, wasEmpty, file,
          process, image, restart_count, lines, mine, missed, raced

bufferVars  == <<buffers, cur, free, flush>>
historyVars == <<mine, missed, raced>>
daemonVars  == <<process, image, restart_count>>
logVars == <<spin, pc, line, bufferVars, flusher, wasEmpty, file, daemonVars, lines, historyVars>>

Nobody == "nobody"
ASSUME LoggerAssumption ==
  /\ Main \in Threads /\ Nobody \notin Threads
  /\ BufferNum \in Nat \ {0} /\ Capacity \in Nat \ {0}
  /\ MaxLines \in Nat /\ MaxRestarts \in Nat

NoLine == [id |-> 0, big |-> FALSE]

LoggerInit ==
  /\ spin = Nobody /\ pc = [t \in Threads |-> "idle"] /\ line = [t \in Threads |-> NoLine]
  /\ buffers = [b \in 1 .. BufferNum |-> <<>>]
  /\ cur = 1 /\ free = [b \in 1 .. BufferNum |-> b] /\ flush = <<>>
  /\ flusher = "top" /\ wasEmpty = FALSE /\ file = <<>>
  /\ process = "boot" /\ image = <<>> /\ restart_count = 0
  /\ lines = 0 /\ mine = {} /\ missed = "never" /\ raced = FALSE

\* m_mutex is free: for ever taken when a fork came while the flusher wrote.
MutexFree == flusher \notin {"draining", "gone_holding"}
Running   == process \in {"boot", "direct", "child"}

\* available() > len, for a line of the usual size; one of a megabyte fits
\* no buffer.
Fits(l, b) == ~l.big /\ Len(buffers[b]) < Capacity
AppendTo(l, b) == [buffers EXCEPT ![b] = IF Fits(l, b) THEN Append(@, l.id) ELSE @]

\* m_cond.signal() by an appending thread: only the flusher can be waiting.
SignalFlusher ==
  /\ flusher' = IF flusher = "waits" THEN "signalled" ELSE flusher
  /\ missed' = IF flusher \in {"top", "timed_out"} THEN "now" ELSE missed

\* Logger::log() and FileLogAppender::log() begin: the line is formatted and
\* given to append().
Begin(t, l) ==
  /\ Running /\ pc[t] = "idle" /\ spin = Nobody /\ MutexFree /\ (process = "boot" => t = Main)
  /\ lines < MaxLines /\ lines' = lines + 1
  /\ mine' = IF l.big THEN mine ELSE mine \cup {l.id}
  /\ UNCHANGED <<wasEmpty, file, daemonVars, raced>>

\* append(): there is room.
AppendFits(t, l) ==
  /\ Begin(t, l) /\ Fits(l, cur)
  /\ buffers' = AppendTo(l, cur)
  /\ UNCHANGED <<spin, pc, line, cur, free, flush, flusher, missed>>

\* append(): the current buffer is full, the next one is taken.
AppendNext(t, l) ==
  /\ Begin(t, l) /\ ~Fits(l, cur) /\ Len(free) > 1
  /\ free' = Tail(free) /\ flush' = Append(flush, cur)
  /\ cur' = Head(Tail(free)) /\ buffers' = AppendTo(l, Head(Tail(free)))
  /\ SignalFlusher
  /\ UNCHANGED <<spin, pc, line>>

\* append(): no buffer is left, it waits, and the logger's spinlock is held.
AppendWaits(t, l) ==
  /\ Begin(t, l) /\ ~Fits(l, cur) /\ Len(free) = 1
  /\ free' = <<>> /\ flush' = Append(flush, cur)
  /\ spin' = t /\ pc' = [pc EXCEPT ![t] = "waits"] /\ line' = [line EXCEPT ![t] = l]
  /\ SignalFlusher
  /\ UNCHANGED <<buffers, cur>>

\* append() after the wait.
AppendWakes(t) ==
  /\ pc[t] = "woken" /\ MutexFree /\ free # <<>>
  /\ cur' = Head(free) /\ buffers' = AppendTo(line[t], Head(free))
  /\ spin' = Nobody /\ pc' = [pc EXCEPT ![t] = "idle"] /\ line' = [line EXCEPT ![t] = NoLine]
  /\ SignalFlusher
  /\ UNCHANGED <<free, flush, wasEmpty, file, daemonVars, lines, mine, raced>>

-----------------------------------------------------------------------------
threadVars == <<spin, pc, line>>

\* run(): the mutex is taken and given up in wait_timeout().
FlusherWaits ==
  /\ flusher = "top" /\ flusher' = "waits"
  /\ UNCHANGED <<threadVars, bufferVars, wasEmpty, file, daemonVars, lines, historyVars>>

Timeout ==
  /\ flusher = "waits" /\ flusher' = "timed_out"
  /\ UNCHANGED <<threadVars, bufferVars, wasEmpty, file, daemonVars, lines, historyVars>>

\* run(), woken by a signal.
Drain ==
  /\ flusher = "signalled" /\ flusher' = "draining"
  /\ wasEmpty' = (free = <<>>)
  /\ UNCHANGED <<threadVars, bufferVars, file, daemonVars, lines, historyVars>>

\* Mutant: the last full buffer is taken first.
DrainOneLast ==
  /\ flusher = "draining" /\ flush # <<>>
  /\ LET b == flush[Len(flush)] IN
       /\ file' = file \o buffers[b] /\ buffers' = [buffers EXCEPT ![b] = <<>>]
       /\ free' = Append(free, b)
  /\ flush' = SubSeq(flush, 1, Len(flush) - 1)
  /\ UNCHANGED <<threadVars, cur, flusher, wasEmpty, daemonVars, lines, historyVars>>

DrainOne ==
  /\ flusher = "draining" /\ flush # <<>>
  /\ file' = file \o buffers[Head(flush)]
  /\ buffers' = [buffers EXCEPT ![Head(flush)] = <<>>]
  /\ flush' = Tail(flush) /\ free' = Append(free, Head(flush))
  /\ UNCHANGED <<threadVars, cur, flusher, wasEmpty, daemonVars, lines, historyVars>>

\* Mutant: the waiting thread is not signalled.
DrainEndsSilent ==
  /\ flusher = "draining" /\ flush = <<>> /\ flusher' = "top"
  /\ UNCHANGED <<threadVars, bufferVars, wasEmpty, file, daemonVars, lines, historyVars>>

DrainEnds ==
  /\ flusher = "draining" /\ flush = <<>> /\ flusher' = "top"
  /\ pc' = [t \in Threads |-> IF wasEmpty /\ pc[t] = "waits" THEN "woken" ELSE pc[t]]
  /\ missed' = IF missed = "now" THEN "before" ELSE missed
  /\ UNCHANGED <<spin, line, bufferVars, wasEmpty, file, daemonVars, lines, mine, raced>>

\* run() after the timeout: the current buffer only, whatever is queued
\* before it, and nobody is signalled.
WriteCur ==
  /\ flusher = "timed_out" /\ flusher' = "top"
  /\ file' = file \o buffers[cur] /\ buffers' = [buffers EXCEPT ![cur] = <<>>]
  /\ UNCHANGED <<threadVars, cur, free, flush, wasEmpty, daemonVars, lines, historyVars>>

-----------------------------------------------------------------------------
\* The lines of the buffers in q.
Contents(bs, q) ==
  LET upTo[i \in 0 .. Len(q)] == IF i = 0 THEN <<>> ELSE upTo[i - 1] \o bs[q[i]]
  IN  upTo[Len(q)]

\* ~AsyncLogger(): what is queued, then the current buffer.
Left(bs, q, c) == Contents(bs, q) \o bs[c]

\* Destroyed without the mutex: when the flusher is writing, the buffer it
\* is at may be written by both.
Destroy(twice) ==
  /\ twice => flusher = "draining" /\ flush # <<>>
  /\ raced' = (raced \/ flusher = "draining")
  /\ file' = file \o (IF twice THEN buffers[Head(flush)] ELSE <<>>) \o Left(buffers, flush, cur)
  /\ flusher' = "dangling"
  /\ buffers' = [b \in 1 .. BufferNum |-> <<>>] /\ flush' = <<>>

Resting == \A t \in Threads : pc[t] = "idle"

\* start_daemon(argc, argv, main_func, false)
StartDirect ==
  /\ process = "boot" /\ process' = "direct"
  /\ UNCHANGED <<threadVars, bufferVars, flusher, wasEmpty, file, image, restart_count, lines, historyVars>>

\* real_daemon(): daemon(1, 0) forks, and the process it leaves has one thread.
StartDaemon ==
  /\ process = "boot" /\ Resting /\ process' = "forking"
  /\ image' = [buffers |-> buffers, cur |-> cur, free |-> free, flush |-> flush, mine |-> mine]
  /\ flusher' = IF flusher = "draining" THEN "gone_holding" ELSE "gone"
  /\ UNCHANGED <<threadVars, bufferVars, wasEmpty, file, restart_count, lines, historyVars>>

\* fork(), and real_start() in the child.
Fork ==
  /\ process = "forking" /\ process' = "child"
  /\ spin' = Nobody /\ pc' = [t \in Threads |-> "idle"] /\ line' = [t \in Threads |-> NoLine]
  /\ buffers' = image.buffers /\ cur' = image.cur /\ free' = image.free /\ flush' = image.flush
  /\ mine' = image.mine
  /\ flusher' = IF flusher = "dangling" THEN "gone" ELSE flusher
  /\ UNCHANGED <<wasEmpty, file, image, restart_count, lines, missed, raced>>

\* The daemon itself ends, and writes what it had when it forked.
DaemonEnds == file' = file \o Left(image.buffers, image.flush, image.cur)

ForkFails ==
  /\ process = "forking" /\ process' = "ended" /\ DaemonEnds
  /\ UNCHANGED <<threadVars, bufferVars, flusher, wasEmpty, image, restart_count, lines, historyVars>>

\* main_func returns 0 with its threads at rest, and the process exits.
Exit(twice) ==
  /\ process \in {"direct", "child"} /\ Resting
  /\ Destroy(twice)
  /\ process' = IF process = "child" THEN "finished" ELSE "ended"
  /\ UNCHANGED <<threadVars, cur, free, wasEmpty, image, restart_count, lines, mine, missed>>

\* waitpid() gives status 0.
Waited ==
  /\ process = "finished" /\ process' = "ended" /\ DaemonEnds
  /\ UNCHANGED <<threadVars, bufferVars, flusher, wasEmpty, image, restart_count, lines, historyVars>>

\* The child crashes at any point; its buffers are gone and it is restarted.
Crash ==
  /\ process = "child" /\ restart_count < MaxRestarts
  /\ process' = "forking" /\ restart_count' = restart_count + 1
  /\ UNCHANGED <<threadVars, bufferVars, flusher, wasEmpty, file, image, lines, historyVars>>

-----------------------------------------------------------------------------
Appends(t) == \E big \in BOOLEAN : LET l == [id |-> lines + 1, big |-> big] IN
                AppendFits(t, l) \/ AppendNext(t, l) \/ AppendWaits(t, l)

FlusherStep == FlusherWaits \/ Drain \/ DrainOne \/ DrainEnds \/ WriteCur
Wakings     == \E t \in Threads : AppendWakes(t)

LoggerNext ==
  \/ \E t \in Threads : Appends(t)
  \/ Wakings
  \/ FlusherStep
  \/ Timeout
  \/ StartDirect
  \/ StartDaemon
  \/ Fork
  \/ ForkFails
  \/ \E twice \in BOOLEAN : Exit(twice)
  \/ Waited
  \/ Crash

LoggerSpec == LoggerInit /\ [][LoggerNext]_logVars

-----------------------------------------------------------------------------
\* The states, and the buffers: each is free or full, the current one is the
\* head of the free ones unless a thread waits for one, the other free ones
\* are empty, so append() never takes from an empty queue
\* (AsyncLogger::append, run).
BuffersSound ==
  /\ process \in {"boot", "direct", "forking", "child", "finished", "ended"}
  /\ restart_count \in 0 .. MaxRestarts /\ lines \in 0 .. MaxLines
  /\ Running =>
       /\ Len(free) + Len(flush) = BufferNum
       /\ \A b \in 1 .. BufferNum : \E i \in DOMAIN (free \o flush) : (free \o flush)[i] = b
       /\ (spin = Nobody) = Resting
       /\ spin = Nobody => free # <<>> /\ cur = Head(free)
       /\ \A i \in DOMAIN free : free[i] # cur => buffers[free[i]] = <<>>

Written(l) == Cardinality({ i \in DOMAIN file : file[i] = l })
Buffered(l) == Cardinality({ p \in (1 .. BufferNum) \X (1 .. Capacity) :
                               p[2] \in DOMAIN buffers[p[1]] /\ buffers[p[1]][p[2]] = l })
Waiting(l) == Cardinality({ t \in Threads : line[t].id = l })

\* A line that fits a buffer is in the file, in a buffer or in the hands of
\* the thread that waits for one: exactly once in a program that is no
\* daemon, at least once in one that is (AsyncLogger::append, run).
LinesKept ==
  Running => \A l \in mine :
    LET n == Written(l) + Buffered(l) + Waiting(l) IN n >= 1 /\ (image = <<>> => n = 1)

\* The logger's buffers are sound, and it loses and repeats no line while it
\* runs (async_logger.cpp).
LoggerSound == BuffersSound /\ LinesKept

\* After a process has returned from main_func its lines are all in the
\* file; once each, unless it is a daemon's or the destructor met the logger
\* thread at work (AsyncLogger::~AsyncLogger).
ExitWrites ==
  process = "finished" \/ (process = "ended" /\ image = <<>>) =>
    \A l \in mine : Written(l) >= 1 /\ (image = <<>> /\ ~raced => Written(l) = 1)

\* The file has the lines in the order they were logged, if no signal ever
\* found the logger thread on its way to the wait (AsyncLogger::run: after a
\* timeout the current buffer overtakes the full ones).
FileInOrder ==
  image = <<>> /\ missed = "never" /\ ~raced =>
    \A i, j \in DOMAIN file : i < j => file[i] < file[j]

\* The buffers are sound, no line is lost or repeated while the program runs,
\* and the file of a process that returned has every line, once and in order
\* where the code keeps the order (async_logger.cpp).
LogKept == LoggerSound /\ ExitWrites /\ FileInOrder
==============================================================================
