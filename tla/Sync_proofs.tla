----------------------------- MODULE Sync_proofs -----------------------------
(***************************************************************************)
(* Proofs about CoMutex and, below it, about CoSync.                       *)
(*                                                                         *)
(* CoMutex, for any set of fibers and any number of threads: typing,       *)
(* mutual exclusion, that CoMutex implements MutexSpec, and that a parked  *)
(* fiber has one wake-up.  All but the last need a hypothesis that the     *)
(* code does not establish: the uninitialised m_fiber_id is not the id of  *)
(* a fiber.                                                                *)
(*                                                                         *)
(* CoSync, for any set of fibers (Users) and any capacity, count and       *)
(* number of units: typing, the bound and the order of the channel, that   *)
(* the latch holds, that closing releases everybody, and for finitely many *)
(* fibers that no notification is missing.                                 *)
(***************************************************************************)
EXTENDS CoMutex, CoSync, FiniteSetTheorems, TLAPS

\* The fiber has taken m_mutex and not yet given it back.
Holds(f) == pc[f] \in {"setid", "in", "release"}

\* The inductive strengthening of MutualExclusion.
LockInv ==
    /\ TypeOK
    /\ \A f, g \in Fibers : Holds(f) /\ Holds(g) => f = g
    /\ \A f \in Fibers : Holds(f) => m_mutex
    /\ m_fiber_id \in Fibers => pc[m_fiber_id] = "in"
    /\ \A f \in Fibers : pc[f] = "wake" => waking[f] \in Fibers

USE CoMutexAssumption

\* The initial state is well typed and nobody holds the lock.
LEMMA InitLockInv ==
    ASSUME FirstIds \cap Fibers = {}
    PROVE  Init => LockInv
<1> SUFFICES ASSUME Init PROVE LockInv
  OBVIOUS
<1>1. m_wait_queue \in Seq(Fibers)
  BY DEF Init
<1>2. TypeOK
  <2>1. m_mutex \in BOOLEAN /\ pc \in [Fibers -> Labels]
    BY DEF Init, Labels
  <2>2. waking \in [Fibers -> Fibers \cup {NoFiber}]
    BY DEF Init
  <2>3. QED
    BY <1>1, <2>1, <2>2 DEF Init, TypeOK
<1>3. \A f \in Fibers : pc[f] = "out"
  BY DEF Init
<1>4. m_fiber_id \notin Fibers
  BY DEF Init
<1>5. QED
  BY <1>2, <1>3, <1>4 DEF LockInv, Holds

\* Every step of a fiber keeps LockInv.
LEMMA NextLockInv == LockInv /\ [Next]_vars => LockInv'
<1> SUFFICES ASSUME LockInv, [Next]_vars PROVE LockInv'
  OBVIOUS
<1> USE DEF LockInv, TypeOK, Labels, Holds, Goto
<1>1. ASSUME NEW f \in Fibers, Lock(f) PROVE LockInv'
  BY <1>1 DEF Lock
<1>2. ASSUME NEW f \in Fibers, TryLock(f) PROVE LockInv'
  BY <1>2 DEF TryLock
<1>3. ASSUME NEW f \in Fibers, GuardedTry(f) PROVE LockInv'
  <2>1. CASE m_mutex
    <3>1. m_wait_queue' \in Seq(Fibers)
      BY <1>3, <2>1 DEF GuardedTry
    <3>2. QED
      BY <1>3, <2>1, <3>1 DEF GuardedTry
  <2>2. CASE ~m_mutex
    BY <1>3, <2>2 DEF GuardedTry
  <2>3. QED
    BY <2>1, <2>2
<1>4. ASSUME NEW f \in Fibers, Yield(f) PROVE LockInv'
  BY <1>4 DEF Yield
<1>5. ASSUME NEW f \in Fibers, Resume(f) PROVE LockInv'
  BY <1>5 DEF Resume
<1>6. ASSUME NEW f \in Fibers, SetId(f) PROVE LockInv'
  BY <1>6 DEF SetId
<1>7. ASSUME NEW f \in Fibers, AwaitIO(f) \/ FinishIO(f) PROVE LockInv'
  BY <1>7 DEF AwaitIO, FinishIO
<1>8. ASSUME NEW f \in Fibers, UnlockGuarded(f) PROVE LockInv'
  <2>1. /\ m_wait_queue' \in Seq(Fibers)
        /\ waking' \in [Fibers -> Fibers \cup {NoFiber}]
        /\ \A g \in Fibers \ {f} : waking'[g] = waking[g]
    <3>1. CASE m_wait_queue = <<>>
      BY <1>8, <3>1 DEF UnlockGuarded, TakeWaiter
    <3>2. CASE m_wait_queue # <<>>
      <4>1. Head(m_wait_queue) \in Fibers /\ Tail(m_wait_queue) \in Seq(Fibers)
        BY <3>2
      <4>2. QED
        BY <1>8, <3>2, <4>1 DEF UnlockGuarded, TakeWaiter
    <3>3. QED
      BY <3>1, <3>2
  <2>3. /\ pc' \in [Fibers -> Labels]
        /\ \A g \in Fibers : pc'[g] = IF g = f THEN "release" ELSE pc[g]
    BY <1>8 DEF UnlockGuarded
  <2>4. m_mutex' = m_mutex /\ m_fiber_id' = NoFiber
    BY <1>8 DEF UnlockGuarded
  <2>5. QED
    BY <1>8, <2>1, <2>3, <2>4 DEF UnlockGuarded
<1>9. ASSUME NEW f \in Fibers, Release(f) PROVE LockInv'
  <2>1. \A g \in Fibers : Holds(g) => g = f
    BY <1>9 DEF Release
  <2>2. pc' \in [Fibers -> Labels] /\ active' \in SUBSET Fibers
    BY <1>9 DEF Release, AfterUnlock
  <2>3. \A g \in Fibers : ~ Holds(g)'
    BY <1>9, <2>1 DEF Release, AfterUnlock
  <2>4. QED
    BY <1>9, <2>2, <2>3 DEF Release, AfterUnlock
<1>10. ASSUME NEW f \in Fibers, WakeWaiter(f) PROVE LockInv'
  <2>1. /\ pc' \in [Fibers -> Labels]
        /\ pc'[f] = "out"
        /\ \A g \in Fibers \ {f} : pc'[g] = pc[g]
    BY <1>10 DEF WakeWaiter, AfterUnlock
  <2>2. /\ scheduled' \in SUBSET Fibers /\ active' \in SUBSET Fibers
        /\ waking' \in [Fibers -> Fibers \cup {NoFiber}]
        /\ \A g \in Fibers \ {f} : waking'[g] = waking[g]
    BY <1>10 DEF WakeWaiter, AfterUnlock
  <2>3. QED
    BY <1>10, <2>1, <2>2 DEF WakeWaiter
<1>11. CASE UNCHANGED vars
  BY <1>11 DEF vars
<1>12. QED
  BY <1>1, <1>2, <1>3, <1>4, <1>5, <1>6, <1>7, <1>8, <1>9, <1>10, <1>11
     DEF Next, InCall, InSection

\* TypeOK: every variable of CoMutex keeps its type, and the early return of
\* lock() and the queue of unlock() work on fibers only.
THEOREM TypeCorrect ==
    ASSUME FirstIds \cap Fibers = {}
    PROVE  Spec => []TypeOK
<1>1. LockInv => TypeOK
  BY DEF LockInv
<1>2. QED
  BY <1>1, InitLockInv, NextLockInv, PTL DEF Spec

\* MutualExclusion: of any number of fibers on any number of threads at most
\* one is between lock() and unlock(), although lock() tries m_mutex twice and
\* unlock() clears m_fiber_id before it releases m_mutex.
THEOREM Exclusion ==
    ASSUME FirstIds \cap Fibers = {}
    PROVE  Spec => []MutualExclusion
<1>1. LockInv => MutualExclusion
  BY DEF LockInv, MutualExclusion, InCS, Holds
<1>2. QED
  BY <1>1, InitLockInv, NextLockInv, PTL DEF Spec

\* IdNamesHolder: whenever lock() finds its own id in m_fiber_id the caller is
\* the holder, so the early return never admits a second fiber.
THEOREM IdCorrect ==
    ASSUME FirstIds \cap Fibers = {}
    PROVE  Spec => []IdNamesHolder
<1>1. LockInv => IdNamesHolder
  BY DEF LockInv, IdNamesHolder, InCS, TypeOK
<1>2. QED
  BY <1>1, InitLockInv, NextLockInv, PTL DEF Spec

-----------------------------------------------------------------------------
\* Under LockInv the mapped holder is the fiber whose pc is "in", if any.
LEMMA HolderIs ==
    ASSUME LockInv
    PROVE  /\ \A f \in Fibers : pc[f] = "in" => Holder = f
           /\ (\A f \in Fibers : pc[f] # "in") => Holder = NoFiber
<1>1. \A f \in Fibers : InCS(f) <=> pc[f] = "in"
  BY DEF LockInv, InCS
<1>2. \A f, g \in Fibers : InCS(f) /\ InCS(g) => f = g
  BY <1>1 DEF LockInv, Holds
<1>3. QED
  BY <1>1, <1>2 DEF Holder

\* The same of the next state.
LEMMA HolderWillBe ==
    ASSUME LockInv'
    PROVE  /\ \A f \in Fibers : pc'[f] = "in" => Holder' = f
           /\ (\A f \in Fibers : pc'[f] # "in") => Holder' = NoFiber
<1>1. \A f \in Fibers : InCS(f)' <=> pc'[f] = "in"
  BY DEF LockInv, InCS
<1>2. \A f, g \in Fibers : InCS(f)' /\ InCS(g)' => f = g
  BY <1>1 DEF LockInv, Holds
<1>3. QED
  BY <1>1, <1>2 DEF Holder

\* A step that moves no fiber into or out of "in" leaves the holder alone.
LEMMA HolderKept ==
    ASSUME LockInv, LockInv', \A f \in Fibers : pc[f] = "in" <=> pc'[f] = "in"
    PROVE  Holder' = Holder
  BY HolderIs, HolderWillBe

\* ImplementsMutex: every step of CoMutex is a step of MutexSpec or leaves its
\* holder alone; lock() takes a lock nobody holds, only the holder gives it up.
THEOREM Refinement ==
    ASSUME FirstIds \cap Fibers = {}
    PROVE  Spec => ImplementsMutex
<1>1. Init => Abstract!Init
  BY InitLockInv, HolderIs DEF Init, Abstract!Init
<1>2. LockInv /\ LockInv' /\ [Next]_vars => [Abstract!Next]_Holder
  <2> SUFFICES ASSUME LockInv, LockInv', [Next]_vars
               PROVE  [Abstract!Next]_Holder
    OBVIOUS
  <2>1. ASSUME NEW f \in Fibers, pc[f] # "in", pc'[f] = "in",
               \A g \in Fibers \ {f} : pc'[g] = pc[g]
        PROVE  Abstract!Acquire(f)
    <3>1. \A g \in Fibers : pc[g] # "in"
      BY <2>1 DEF LockInv, Holds
    <3>2. QED
      BY <2>1, <3>1, HolderIs, HolderWillBe DEF Abstract!Acquire
  <2>2. ASSUME NEW f \in Fibers, pc[f] = "in", pc'[f] # "in",
               \A g \in Fibers \ {f} : pc'[g] = pc[g]
        PROVE  Abstract!Release(f)
    <3>1. \A g \in Fibers : pc'[g] # "in"
      BY <2>2 DEF LockInv, Holds
    <3>2. QED
      BY <2>2, <3>1, HolderIs, HolderWillBe DEF Abstract!Release
  <2>3. ASSUME NEW f \in Fibers, \A g \in Fibers \ {f} : pc'[g] = pc[g]
        PROVE  [Abstract!Next]_Holder
    <3>1. CASE pc[f] = "in" <=> pc'[f] = "in"
      BY <2>3, <3>1, HolderKept
    <3>2. CASE ~(pc[f] = "in" <=> pc'[f] = "in")
      BY <2>1, <2>2, <2>3, <3>2 DEF Abstract!Next
    <3>3. QED
      BY <3>1, <3>2
  <2>4. CASE UNCHANGED vars
    BY <2>4, HolderKept DEF vars
  <2>5. ASSUME NEW f \in Fibers, Lock(f) \/ InCall(f) \/ InSection(f)
        PROVE  \A g \in Fibers \ {f} : pc'[g] = pc[g]
    BY <2>5 DEF LockInv, TypeOK, Lock, Goto, InCall, InSection, TryLock,
                GuardedTry, Yield, Resume, SetId, Release, AfterUnlock, WakeWaiter, AwaitIO, FinishIO, UnlockGuarded
  <2>6. QED
    BY <2>3, <2>4, <2>5 DEF Next
<1>3. QED
  BY <1>1, <1>2, InitLockInv, NextLockInv, PTL DEF Spec, ImplementsMutex, Abstract!Spec

-----------------------------------------------------------------------------
\* A fiber that lock() has put into the queue and that has not been resumed.
Waits(f) == pc[f] \in {"yield", "parked"}

\* Whoever is in the queue, taken by an unlock() or scheduled is waiting.
PlacesWait ==
    /\ \A i \in 1..Len(m_wait_queue) : Waits(m_wait_queue[i])
    /\ \A g \in Fibers : waking[g] \in Fibers => Waits(waking[g])
    /\ \A f \in scheduled : Waits(f)

\* No fiber is in two of these places, nor twice in one.
PlacesDiffer ==
    /\ \A i, j \in 1..Len(m_wait_queue) : m_wait_queue[i] = m_wait_queue[j] => i = j
    /\ \A i \in 1..Len(m_wait_queue) :
         m_wait_queue[i] \notin scheduled /\ \A g \in Fibers : waking[g] # m_wait_queue[i]
    /\ \A g, h \in Fibers : waking[g] = waking[h] /\ waking[g] \in Fibers => g = h
    /\ \A g \in Fibers : waking[g] \notin scheduled

\* Every waiting fiber is in one of them.
WaitersPlaced ==
    \A f \in Fibers : Waits(f) =>
        \/ \E i \in 1..Len(m_wait_queue) : m_wait_queue[i] = f
        \/ \E g \in Fibers : waking[g] = f
        \/ f \in scheduled

\* Only an unlock() in progress has taken a fiber out, and it wakes that one.
WakersUnlock ==
    \A g \in Fibers : /\ waking[g] \in Fibers => pc[g] \in {"release", "wake"}
                      /\ pc[g] = "wake" => waking[g] \in Fibers

WakeInv == TypeOK /\ PlacesWait /\ PlacesDiffer /\ WaitersPlaced /\ WakersUnlock

\* At first there is no place and nobody waits.
LEMMA InitWakeInv == Init => WakeInv
<1> SUFFICES ASSUME Init PROVE WakeInv
  OBVIOUS
<1>1. m_wait_queue = <<>> /\ m_wait_queue \in Seq(Fibers) /\ Len(m_wait_queue) = 0
  BY DEF Init
<1>2. \A f \in Fibers : pc[f] = "out" /\ waking[f] = NoFiber /\ ~Waits(f)
  BY DEF Init, Waits
<1>3. TypeOK
  <2>1. m_mutex \in BOOLEAN /\ pc \in [Fibers -> Labels]
    BY DEF Init, Labels
  <2>2. waking \in [Fibers -> Fibers \cup {NoFiber}]
    BY DEF Init
  <2>3. QED
    BY <1>1, <2>1, <2>2 DEF Init, TypeOK
<1>4. scheduled = {}
  BY DEF Init
<1>5. QED
  BY <1>1, <1>2, <1>3, <1>4 DEF WakeInv, PlacesWait, PlacesDiffer, WaitersPlaced, WakersUnlock

\* A step that only moves one fiber among the labels that are no waiting ones,
\* and not into "wake", keeps WakeInv.
LEMMA OtherStep ==
    ASSUME WakeInv, NEW f \in Fibers, NEW label \in Labels \ {"yield", "parked", "wake"},
           ~Waits(f), pc' = [pc EXCEPT ![f] = label],
           waking[f] \in Fibers => label = "release",
           UNCHANGED <<m_wait_queue, waking, scheduled>>, TypeOK'
    PROVE  WakeInv'
  BY DEF WakeInv, TypeOK, PlacesWait, PlacesDiffer, WaitersPlaced, WakersUnlock, Waits, Labels

\* Every step of a fiber keeps WakeInv.
LEMMA NextWakeInv == WakeInv /\ [Next]_vars => WakeInv'
<1> SUFFICES ASSUME WakeInv, [Next]_vars PROVE WakeInv'
  OBVIOUS
<1>0. TypeOK /\ WakersUnlock
  BY DEF WakeInv
<1> USE DEF Goto
<1>1. ASSUME NEW f \in Fibers, Lock(f) \/ TryLock(f) \/ SetId(f) \/ AwaitIO(f) \/ FinishIO(f)
      PROVE  WakeInv'
  <2>1. TypeOK'
    BY <1>0, <1>1 DEF Lock, TryLock, SetId, AwaitIO, FinishIO, TypeOK, Labels
  <2>2. /\ UNCHANGED <<m_wait_queue, waking, scheduled>> /\ ~Waits(f)
        /\ pc[f] \in {"out", "try", "setid", "in"}
        /\ \E label \in {"try", "guard", "setid", "in"} : pc' = [pc EXCEPT ![f] = label]
    BY <1>0, <1>1 DEF Lock, TryLock, SetId, AwaitIO, FinishIO, TypeOK, Labels, Waits
  <2>3. waking[f] \notin Fibers
    BY <1>0, <2>2 DEF WakersUnlock
  <2>4. QED
    BY <2>1, <2>2, <2>3, OtherStep DEF Labels
<1>2. ASSUME NEW f \in Fibers, GuardedTry(f) PROVE WakeInv'
  <2>0. pc[f] = "guard" /\ ~Waits(f) /\ waking[f] \notin Fibers
    BY <1>0, <1>2 DEF GuardedTry, WakersUnlock, Waits
  <2>1. CASE m_mutex
    <3>1. /\ m_wait_queue' = Append(m_wait_queue, f) /\ pc' = [pc EXCEPT ![f] = "yield"]
          /\ UNCHANGED <<m_mutex, m_fiber_id, waking, scheduled, active>>
      BY <1>2, <2>1 DEF GuardedTry
    <3>2. /\ m_wait_queue' \in Seq(Fibers) /\ Len(m_wait_queue') = Len(m_wait_queue) + 1
          /\ Len(m_wait_queue) \in Nat
          /\ \A i \in 1..Len(m_wait_queue) :
                m_wait_queue'[i] = m_wait_queue[i] /\ m_wait_queue[i] \in Fibers
          /\ m_wait_queue'[Len(m_wait_queue) + 1] = f
      BY <1>0, <3>1 DEF TypeOK
    <3>3. TypeOK'
      BY <1>0, <3>1, <3>2 DEF TypeOK, Labels
    <3>4. /\ pc'[f] = "yield" /\ \A g \in Fibers \ {f} : pc'[g] = pc[g]
      BY <1>0, <3>1 DEF TypeOK
    <3>5. \A i \in 1..Len(m_wait_queue) : m_wait_queue[i] # f
      BY <2>0 DEF WakeInv, PlacesWait
    <3>6. (\A g \in Fibers : waking[g] # f) /\ f \notin scheduled
      BY <2>0 DEF WakeInv, PlacesWait
    <3>7. PlacesWait'
      BY <1>0, <3>1, <3>2, <3>4 DEF WakeInv, PlacesWait, Waits, TypeOK
    <3>8. PlacesDiffer'
      BY <1>0, <3>1, <3>2, <3>5, <3>6 DEF WakeInv, PlacesDiffer, TypeOK
    <3>9. WaitersPlaced'
      <4> SUFFICES ASSUME NEW g \in Fibers, Waits(g)'
                   PROVE  \/ \E i \in 1..Len(m_wait_queue') : m_wait_queue'[i] = g
                          \/ \E h \in Fibers : waking'[h] = g
                          \/ g \in scheduled'
        BY DEF WaitersPlaced
      <4>1. CASE g = f
        BY <3>2, <4>1
      <4>2. CASE g # f
        BY <3>1, <3>2, <3>4, <4>2 DEF WakeInv, WaitersPlaced, Waits
      <4>3. QED
        BY <4>1, <4>2
    <3>10. WakersUnlock'
      BY <1>0, <2>0, <3>1, <3>4 DEF WakersUnlock
    <3>11. QED
      BY <3>3, <3>7, <3>8, <3>9, <3>10 DEF WakeInv
  <2>2. CASE ~m_mutex
    <3>1. /\ UNCHANGED <<m_wait_queue, waking, scheduled>> /\ pc' = [pc EXCEPT ![f] = "in"]
      BY <1>2, <2>2 DEF GuardedTry
    <3>2. TypeOK'
      BY <1>0, <1>2, <2>2 DEF GuardedTry, TypeOK, Labels
    <3>3. QED
      BY <2>0, <3>1, <3>2, OtherStep DEF Labels
  <2>3. QED
    BY <2>1, <2>2
<1>3. ASSUME NEW f \in Fibers, Yield(f) PROVE WakeInv'
  <2>1. TypeOK'
    BY <1>0, <1>3 DEF Yield, TypeOK, Labels
  <2>2. QED
    BY <1>3, <2>1 DEF Yield, WakeInv, TypeOK, PlacesWait, PlacesDiffer, WaitersPlaced, WakersUnlock, Waits
<1>4. ASSUME NEW f \in Fibers, Resume(f) PROVE WakeInv'
  <2>1. TypeOK'
    BY <1>0, <1>4 DEF Resume, TypeOK, Labels
  <2>2. QED
    BY <1>4, <2>1 DEF Resume, WakeInv, TypeOK, PlacesWait, PlacesDiffer, WaitersPlaced, WakersUnlock, Waits
<1>5. ASSUME NEW f \in Fibers, UnlockGuarded(f) PROVE WakeInv'
  <2>0. /\ pc[f] = "in" /\ ~Waits(f) /\ waking[f] \notin Fibers
        /\ pc' = [pc EXCEPT ![f] = "release"] /\ UNCHANGED scheduled
    BY <1>0, <1>5 DEF UnlockGuarded, WakersUnlock, Waits
  <2>1. CASE m_wait_queue = <<>>
    <3>1. TypeOK' /\ UNCHANGED <<m_wait_queue, waking, scheduled>>
      BY <1>0, <1>5, <2>1 DEF UnlockGuarded, TakeWaiter, TypeOK, Labels
    <3>2. QED
      BY <2>0, <3>1, OtherStep DEF Labels
  <2>2. CASE m_wait_queue # <<>>
    <3>1. /\ waking' = [waking EXCEPT ![f] = Head(m_wait_queue)]
          /\ m_wait_queue' = Tail(m_wait_queue)
      BY <1>5, <2>2 DEF UnlockGuarded, TakeWaiter
    <3>2. /\ Len(m_wait_queue) \in Nat \ {0} /\ Head(m_wait_queue) = m_wait_queue[1]
          /\ m_wait_queue[1] \in Fibers
          /\ m_wait_queue' \in Seq(Fibers) /\ Len(m_wait_queue') = Len(m_wait_queue) - 1
          /\ \A i \in 1..(Len(m_wait_queue) - 1) : m_wait_queue'[i] = m_wait_queue[i + 1]
      BY <1>0, <2>2, <3>1 DEF TypeOK
    <3>3. TypeOK'
      BY <1>0, <1>5, <3>1, <3>2 DEF UnlockGuarded, TypeOK, Labels
    <3>4. /\ waking'[f] = m_wait_queue[1] /\ \A g \in Fibers \ {f} : waking'[g] = waking[g]
          /\ pc'[f] = "release" /\ \A g \in Fibers \ {f} : pc'[g] = pc[g]
      BY <1>0, <2>0, <3>1, <3>2 DEF TypeOK
    <3>5. PlacesWait'
      <4>1. Waits(m_wait_queue[1]) /\ m_wait_queue[1] # f
        BY <2>0, <3>2 DEF WakeInv, PlacesWait
      <4>2. \A g \in Fibers : Waits(g) => Waits(g)'
        BY <2>0, <3>4 DEF Waits
      <4>3. \A i \in 1..Len(m_wait_queue') :
              m_wait_queue'[i] \in Fibers /\ Waits(m_wait_queue'[i])
        BY <1>0, <3>2 DEF WakeInv, PlacesWait, TypeOK
      <4>4. QED
        BY <1>0, <2>0, <3>2, <3>4, <4>1, <4>2, <4>3 DEF WakeInv, PlacesWait, TypeOK
    <3>6. PlacesDiffer'
      <4>1. \A i, j \in 1..Len(m_wait_queue') : m_wait_queue'[i] = m_wait_queue'[j] => i = j
        BY <3>2 DEF WakeInv, PlacesDiffer
      <4>2. \A i \in 1..Len(m_wait_queue') :
              m_wait_queue'[i] \notin scheduled' /\ \A g \in Fibers : waking'[g] # m_wait_queue'[i]
        BY <2>0, <3>2, <3>4 DEF WakeInv, PlacesDiffer
      <4>3. \A g, h \in Fibers : waking'[g] = waking'[h] /\ waking'[g] \in Fibers => g = h
        BY <3>2, <3>4 DEF WakeInv, PlacesDiffer
      <4>4. \A g \in Fibers : waking'[g] \notin scheduled'
        BY <2>0, <3>2, <3>4 DEF WakeInv, PlacesDiffer
      <4>5. QED
        BY <4>1, <4>2, <4>3, <4>4 DEF PlacesDiffer
    <3>7. WaitersPlaced'
      <4> SUFFICES ASSUME NEW g \in Fibers, Waits(g)'
                   PROVE  \/ \E i \in 1..Len(m_wait_queue') : m_wait_queue'[i] = g
                          \/ \E h \in Fibers : waking'[h] = g
                          \/ g \in scheduled'
        BY DEF WaitersPlaced
      <4>1. Waits(g)
        BY <3>4 DEF Waits
      <4>2. CASE \E h \in Fibers : waking[h] = g
        BY <2>0, <3>4, <4>2
      <4>3. CASE g \in scheduled
        BY <2>0, <4>3
      <4>4. ASSUME NEW i \in 1..Len(m_wait_queue), m_wait_queue[i] = g
            PROVE  \/ \E j \in 1..Len(m_wait_queue') : m_wait_queue'[j] = g
                   \/ \E h \in Fibers : waking'[h] = g
        <5>1. CASE i = 1
          BY <3>4, <4>4, <5>1
        <5>2. CASE i # 1
          <6>1. i - 1 \in 1..(Len(m_wait_queue) - 1) /\ (i - 1) + 1 = i
            BY <3>2, <5>2
          <6>2. QED
            BY <3>2, <4>4, <6>1
        <5>3. QED
          BY <5>1, <5>2
      <4>5. QED
        BY <4>1, <4>2, <4>3, <4>4 DEF WakeInv, WaitersPlaced
    <3>8. WakersUnlock'
      BY <1>0, <3>4 DEF WakersUnlock
    <3>9. QED
      BY <3>3, <3>5, <3>6, <3>7, <3>8 DEF WakeInv
  <2>3. QED
    BY <2>1, <2>2
<1>6. ASSUME NEW f \in Fibers, Release(f) PROVE WakeInv'
  <2>1. TypeOK' /\ UNCHANGED <<m_wait_queue, waking, scheduled>>
    BY <1>0, <1>6 DEF Release, AfterUnlock, TypeOK, Labels
  <2>2. /\ pc[f] = "release" /\ \A g \in Fibers \ {f} : pc'[g] = pc[g]
        /\ IF waking[f] \in Fibers THEN pc'[f] = "wake" ELSE pc'[f] = "out"
    BY <1>0, <1>6 DEF Release, AfterUnlock, TypeOK
  <2>3. QED
    BY SMTT(30), <2>1, <2>2 DEF WakeInv, TypeOK, PlacesWait, PlacesDiffer, WaitersPlaced, WakersUnlock, Waits
<1>7. ASSUME NEW f \in Fibers, WakeWaiter(f) PROVE WakeInv'
  <2>1. /\ pc[f] = "wake" /\ waking[f] \in Fibers
        /\ scheduled' = scheduled \cup {waking[f]}
        /\ waking' = [waking EXCEPT ![f] = NoFiber]
        /\ pc' = [pc EXCEPT ![f] = "out"] /\ UNCHANGED m_wait_queue
    BY <1>0, <1>7 DEF WakeWaiter, AfterUnlock, WakersUnlock
  <2>2. TypeOK'
    BY <1>0, <1>7, <2>1 DEF WakeWaiter, AfterUnlock, TypeOK, Labels
  <2>3. QED
    BY <2>1, <2>2 DEF WakeInv, TypeOK, PlacesWait, PlacesDiffer, WaitersPlaced, WakersUnlock, Waits
<1>8. CASE UNCHANGED vars
  BY <1>8 DEF vars, WakeInv, TypeOK, PlacesWait, PlacesDiffer, WaitersPlaced, WakersUnlock, Waits
<1>9. QED
  BY <1>1, <1>2, <1>3, <1>4, <1>5, <1>6, <1>7, <1>8 DEF Next, InCall, InSection

\* WakeInv counts: a waiting fiber has one place, any other fiber has none.
LEMMA PlacesCounted == WakeInv => OneWakeUp
<1> SUFFICES ASSUME WakeInv, NEW f \in Fibers
             PROVE  Places(f) = IF Waits(f) THEN 1 ELSE 0
  BY DEF OneWakeUp, Waits
<1> DEFINE queued == {i \in DOMAIN m_wait_queue : m_wait_queue[i] = f}
           wakers == {g \in Fibers : waking[g] = f}
<1>0. DOMAIN m_wait_queue = 1..Len(m_wait_queue)
  BY DEF WakeInv, TypeOK
<1>1. Cardinality({}) = 0 /\ \A x : Cardinality({x}) = 1
  BY FS_EmptySet, FS_Singleton
<1>2. queued = {} \/ \E i : queued = {i}
  <2>1. \A i, j \in queued : i = j
    BY <1>0 DEF WakeInv, PlacesDiffer
  <2>2. QED
    BY <2>1
<1>3. wakers = {} \/ \E g : wakers = {g}
  <2>1. \A g, h \in wakers : g = h
    BY DEF WakeInv, PlacesDiffer
  <2>2. QED
    BY <2>1
<1>4. queued # {} => wakers = {} /\ f \notin scheduled
  BY <1>0 DEF WakeInv, PlacesDiffer
<1>5. wakers # {} => f \notin scheduled
  BY DEF WakeInv, PlacesDiffer
<1>6. Waits(f) <=> queued # {} \/ wakers # {} \/ f \in scheduled
  BY <1>0 DEF WakeInv, PlacesWait, WaitersPlaced
<1>7. Places(f) = Cardinality(queued) + Cardinality(wakers) + (IF f \in scheduled THEN 1 ELSE 0)
  BY DEF Places
<1>8. Cardinality(queued) = IF queued = {} THEN 0 ELSE 1
  BY <1>1, <1>2
<1>9. Cardinality(wakers) = IF wakers = {} THEN 0 ELSE 1
  BY <1>1, <1>3
<1> HIDE DEF queued, wakers
<1>10. QED
  BY <1>4, <1>5, <1>6, <1>7, <1>8, <1>9

\* OneWakeUp: however lock() and unlock() interleave, a fiber that lock() parks
\* is in the queue once, or taken by one unlock(), or in the task list once, and
\* no other fiber is; whatever the uninitialised m_fiber_id holds.
THEOREM WokenOnce == Spec => []OneWakeUp
  BY InitWakeInv, NextWakeInv, PlacesCounted, PTL DEF Spec

-----------------------------------------------------------------------------
\* A condition variable.
Cond == [m_wait_queue : Seq(Users), m_timer : BOOLEAN]

USE CoSyncAssumption

\* A queue holds what it held and the fiber appended.
LEMMA AppendSet ==
    ASSUME NEW S, NEW s \in Seq(S), NEW e \in S
    PROVE  ToSet(s) \cup {e} \subseteq ToSet(Append(s, e))
<1> DEFINE t == Append(s, e)
<1>1. DOMAIN s = 1..Len(s) /\ DOMAIN t = 1..(Len(s) + 1)
  OBVIOUS
<1>2. t[Len(s) + 1] = e /\ Len(s) + 1 \in DOMAIN t
  BY <1>1
<1>3. \A i \in DOMAIN s : i \in DOMAIN t /\ t[i] = s[i]
  BY <1>1
<1> HIDE DEF t
<1>4. ToSet(s) \cup {e} \subseteq ToSet(t)
  BY <1>2, <1>3 DEF ToSet
<1>5. QED
  BY <1>4 DEF t

\* notify() and notify_all() leave a condition variable with fewer waiters.
LEMMA NotifiedType ==
    ASSUME NEW c \in Cond
    PROVE  Notified(c) \in Cond /\ NotifiedAll(c) \in Cond
<1>1. NotifiedAll(c) \in Cond
  <2>1. <<>> \in Seq(Users)
    OBVIOUS
  <2>2. QED
    BY <2>1 DEF Cond, NotifiedAll
<1>2. CASE c.m_wait_queue = <<>>
  BY <1>1, <1>2 DEF Notified
<1>3. CASE c.m_wait_queue # <<>>
  <2>1. c.m_wait_queue \in Seq(Users)
    BY DEF Cond
  <2>2. Tail(c.m_wait_queue) \in Seq(Users)
    BY <1>3, <2>1
  <2>3. QED
    BY <1>1, <1>3, <2>2 DEF Notified, Cond
<1>4. QED
  BY <1>2, <1>3

\* CoCond::wait() adds one fiber to one condition variable.
LEMMA WaitType ==
    ASSUME cond \in [Conds -> Cond], at \in [Users -> Conds \cup {"none"}],
           NEW c \in Conds, NEW f \in Users, Wait(c, f)
    PROVE  cond' \in [Conds -> Cond] /\ at' \in [Users -> Conds \cup {"none"}]
<1>1. cond[c].m_wait_queue \in Seq(Users)
  BY DEF Cond
<1>2. Append(cond[c].m_wait_queue, f) \in Seq(Users)
  BY <1>1
<1>3. [m_wait_queue |-> Append(cond[c].m_wait_queue, f), m_timer |-> TRUE] \in Cond
  BY <1>2 DEF Cond
<1>4. QED
  BY <1>3 DEF Wait

\* The channel as push() and pop() see it: the part of the state that the
\* bound and the order are about.
ChannelInv ==
    /\ m_queue \in Seq(1..MaxItems) /\ m_is_close \in BOOLEAN
    /\ pushed \in 0..MaxItems /\ popped \in 0..MaxItems
    /\ popped <= pushed
    /\ Len(m_queue) <= m_capacity
    /\ ~m_is_close => /\ Len(m_queue) = pushed - popped
                      /\ \A i \in 1..Len(m_queue) : m_queue[i] = popped + i

\* The channel is empty at first.
LEMMA InitChannel == SyncInit => ChannelInv
<1> SUFFICES ASSUME SyncInit PROVE ChannelInv
  OBVIOUS
<1>1. m_queue \in Seq(1..MaxItems) /\ Len(m_queue) = 0
  BY DEF SyncInit
<1>2. m_is_close \in BOOLEAN
  BY DEF SyncInit
<1>3. /\ pushed = 0 /\ popped = 0
      /\ 0 \in 0..MaxItems /\ 0 <= m_capacity
  BY DEF SyncInit
<1>4. QED
  BY <1>1, <1>2, <1>3 DEF ChannelInv

\* A value is accepted.
LEMMA PushChannel ==
    ASSUME ChannelInv, NEW f \in Users, Push(f)
    PROVE  ChannelInv'
<1>1. m_queue' = Append(m_queue, pushed + 1) /\ pushed' = pushed + 1
  BY DEF Push
<1>2. pushed + 1 \in 1..MaxItems
  BY DEF ChannelInv, Push
<1>3. m_queue' \in Seq(1..MaxItems)
  BY <1>1, <1>2 DEF ChannelInv
<1>4. Len(m_queue) < m_capacity
  BY DEF ChannelInv, Push, MustWait, Full
<1>5. Len(m_queue') = Len(m_queue) + 1
  BY <1>1, <1>2 DEF ChannelInv
<1>6. ~m_is_close /\ UNCHANGED <<m_is_close, popped>>
  BY DEF Push
<1>7. \A i \in 1..Len(m_queue') : m_queue'[i] = popped + i
  BY <1>1, <1>2, <1>5, <1>6 DEF ChannelInv
<1>8. QED
  BY <1>1, <1>2, <1>3, <1>4, <1>5, <1>6, <1>7 DEF ChannelInv

\* The first value is taken out.
LEMMA PopChannel ==
    ASSUME ChannelInv, NEW f \in Users, Pop(f)
    PROVE  ChannelInv'
<1>1. /\ m_queue # <<>> /\ ~m_is_close /\ UNCHANGED <<m_is_close, pushed>>
      /\ m_queue' = Tail(m_queue) /\ popped' = Head(m_queue)
  BY DEF Pop, NextValue
<1>2. Len(m_queue) >= 1
  BY <1>1 DEF ChannelInv
<1>3. popped' = popped + 1
  BY <1>1, <1>2 DEF ChannelInv
<1>4. m_queue' \in Seq(1..MaxItems) /\ Len(m_queue') = Len(m_queue) - 1
  BY <1>1 DEF ChannelInv
<1>5. \A i \in 1..Len(m_queue') : m_queue'[i] = m_queue[i + 1]
  BY <1>1, <1>4 DEF ChannelInv
<1>6. \A i \in 1..Len(m_queue') : m_queue'[i] = popped' + i
  BY <1>1, <1>3, <1>4, <1>5 DEF ChannelInv
<1>7. QED
  BY <1>1, <1>2, <1>3, <1>4, <1>6 DEF ChannelInv

\* Every step keeps ChannelInv.
LEMMA NextChannel == ChannelInv /\ [SyncNext]_syncVars => ChannelInv'
<1> SUFFICES ASSUME ChannelInv, [SyncNext]_syncVars PROVE ChannelInv'
  OBVIOUS
<1>1. ASSUME UNCHANGED channel PROVE ChannelInv'
  BY <1>1 DEF ChannelInv, channel
<1>2. ASSUME NEW f \in Users, Close(f) PROVE ChannelInv'
  BY <1>2 DEF ChannelInv, Close
<1>3. ASSUME NEW f \in Users,
             PushRefused(f) \/ PushWaits(f) \/ PopRefused(f) \/ PopWaits(f) \/ SemWaits(f)
             \/ SemGets(f) \/ LatchPassed(f) \/ SemNotify(f) \/ LatchWaits(f) \/ count_down(f)
      PROVE  UNCHANGED channel
  BY <1>3 DEF PushRefused, PushWaits, PopRefused, PopWaits, SemWaits, SemGets, LatchPassed,
              SemNotify, LatchWaits, count_down, channel
<1>4. CASE UNCHANGED syncVars
  BY <1>1, <1>4 DEF syncVars, channel
<1>5. QED
  BY <1>1, <1>2, <1>3, <1>4, PushChannel, PopChannel DEF SyncNext, Continues, Calls

\* Bounded: however many fibers push, also when a notified pusher finds its
\* place taken, the channel never holds more than m_capacity values.
THEOREM CapacityHolds == SyncSpec => []Bounded
<1>1. ChannelInv => Bounded
  BY DEF ChannelInv, Bounded
<1>2. QED
  BY <1>1, InitChannel, NextChannel, PTL DEF SyncSpec

\* Fifo: pop() returns what push() accepted, in that order, and nothing is lost
\* or doubled while the channel is open.
THEOREM OrderKept == SyncSpec => []Fifo
<1>1. ChannelInv => Fifo
  <2> SUFFICES ASSUME ChannelInv, ~m_is_close
               PROVE  m_queue = [i \in 1..(pushed - popped) |-> popped + i]
    BY DEF Fifo
  <2>1. Len(m_queue) = pushed - popped /\ \A i \in 1..Len(m_queue) : m_queue[i] = popped + i
    BY DEF ChannelInv
  <2>2. m_queue \in [1..Len(m_queue) -> 1..MaxItems]
    BY DEF ChannelInv
  <2>3. QED
    BY <2>1, <2>2
<1>2. QED
  BY <1>1, InitChannel, NextChannel, PTL DEF SyncSpec

-----------------------------------------------------------------------------
\* Every variable keeps its type, and a fiber that CoCountDownLatch::wait() has
\* been woken from finds the count at 0.
LatchInv == SyncTypeOK /\ LatchHolds

\* The initial state.
LEMMA InitLatch == SyncInit => LatchInv
<1> SUFFICES ASSUME SyncInit PROVE LatchInv
  OBVIOUS
<1>1. [m_wait_queue |-> <<>>, m_timer |-> FALSE] \in Cond
  <2>1. <<>> \in Seq(Users)
    OBVIOUS
  <2>2. QED
    BY <2>1 DEF Cond
<1>2. cond \in [Conds -> Cond] /\ at \in [Users -> Conds \cup {"none"}]
  BY <1>1 DEF SyncInit
<1>3. <<>> \in Seq(1..MaxItems) /\ 0 \in 0..MaxItems /\ 0 \in 0..m_num /\ Count \in 0..Count
  OBVIOUS
<1>4. SyncTypeOK
  BY <1>2, <1>3 DEF SyncInit, SyncTypeOK, Cond
<1>5. Woken("latch") = {}
  BY DEF SyncInit, Woken
<1>6. QED
  BY <1>4, <1>5 DEF LatchInv, LatchHolds

\* The types of the condition variables after a step.
LEMMA CondType ==
    ASSUME SyncTypeOK, [SyncNext]_syncVars
    PROVE  cond' \in [Conds -> Cond] /\ at' \in [Users -> Conds \cup {"none"}]
<1>1. cond \in [Conds -> Cond] /\ at \in [Users -> Conds \cup {"none"}]
  BY DEF SyncTypeOK, Cond
<1>2. ASSUME NEW f \in Users,
             PushWaits(f) \/ PopWaits(f) \/ SemWaits(f) \/ LatchWaits(f)
      PROVE  \E c \in Conds : Wait(c, f)
  BY <1>2 DEF PushWaits, PopWaits, SemWaits, LatchWaits, Conds
<1>3. ASSUME NEW f \in Users, PushRefused(f) \/ PopRefused(f) \/ SemGets(f) \/ LatchPassed(f)
      PROVE  cond' = cond /\ Returns(f)
  BY <1>3 DEF PushRefused, PopRefused, SemGets, LatchPassed
<1>4. ASSUME NEW f \in Users, Push(f) \/ Pop(f)
      PROVE  Returns(f) /\ \E c \in Conds : cond' = [cond EXCEPT ![c] = Notified(@)]
  BY <1>4 DEF Push, Pop, Conds
<1>5. ASSUME NEW f \in Users, SemNotify(f) \/ count_down(f)
      PROVE  /\ at' = at
             /\ \/ cond' = cond
                \/ \E c \in Conds : \/ cond' = [cond EXCEPT ![c] = Notified(@)]
                                    \/ cond' = [cond EXCEPT ![c] = NotifiedAll(@)]
                                    \/ cond' = [cond EXCEPT ![c] = @]
  BY <1>5 DEF SemNotify, count_down, Conds
<1>6. ASSUME NEW f \in Users, Close(f)
      PROVE  cond' \in [Conds -> Cond] /\ at' = at
  <2>1. NotifiedAll(cond["push"]) \in Cond /\ NotifiedAll(cond["pop"]) \in Cond
    BY <1>1, NotifiedType DEF Conds
  <2>2. QED
    BY <1>1, <1>6, <2>1 DEF Close, NotifiedAll
<1>7. \A c \in Conds : cond[c] \in Cond /\ Notified(cond[c]) \in Cond /\ NotifiedAll(cond[c]) \in Cond
  BY <1>1, NotifiedType
<1>8. ASSUME NEW f \in Users, Returns(f) PROVE at' \in [Users -> Conds \cup {"none"}]
  BY <1>1, <1>8 DEF Returns
<1>9. CASE UNCHANGED syncVars
  BY <1>1, <1>9 DEF syncVars
<1>10. ASSUME NEW f \in Users, Continues(f) \/ Calls(f)
       PROVE  cond' \in [Conds -> Cond] /\ at' \in [Users -> Conds \cup {"none"}]
  <2>1. CASE PushWaits(f) \/ PopWaits(f) \/ SemWaits(f) \/ LatchWaits(f)
    BY <1>1, <1>2, <2>1, WaitType
  <2>2. CASE PushRefused(f) \/ PopRefused(f) \/ SemGets(f) \/ LatchPassed(f)
    BY <1>1, <1>3, <1>8, <2>2
  <2>3. CASE Push(f) \/ Pop(f)
    BY <1>1, <1>4, <1>7, <1>8, <2>3
  <2>4. CASE SemNotify(f) \/ count_down(f)
    BY <1>1, <1>5, <1>7, <2>4
  <2>5. CASE Close(f)
    BY <1>1, <1>6, <2>5
  <2>6. QED
    BY <1>10, <2>1, <2>2, <2>3, <2>4, <2>5 DEF Continues, Calls
<1>11. QED
  BY <1>9, <1>10 DEF SyncNext

\* The counters and the channel's variables after a step.
LEMMA CounterType ==
    ASSUME SyncTypeOK, ChannelInv', [SyncNext]_syncVars
    PROVE  m_used' \in 0..m_num /\ m_count' \in 0..Count
<1>1. CASE UNCHANGED <<m_used, m_count>>
  BY <1>1 DEF SyncTypeOK
<1>2. ASSUME NEW f \in Users, SemGets(f) \/ SemNotify(f) \/ count_down(f)
      PROVE  m_used' \in 0..m_num /\ m_count' \in 0..Count
  BY <1>2 DEF SemGets, SemNotify, Freed, count_down, SyncTypeOK
<1>3. ASSUME NEW f \in Users,
             PushRefused(f) \/ PushWaits(f) \/ Push(f) \/ PopRefused(f) \/ PopWaits(f) \/ Pop(f)
             \/ Close(f) \/ SemWaits(f) \/ LatchWaits(f) \/ LatchPassed(f)
      PROVE  UNCHANGED <<m_used, m_count>>
  BY <1>3 DEF PushRefused, PushWaits, Push, PopRefused, PopWaits, Pop, Close, SemWaits,
              LatchWaits, LatchPassed
<1>4. CASE UNCHANGED syncVars
  BY <1>1, <1>4 DEF syncVars
<1>5. QED
  BY <1>1, <1>2, <1>3, <1>4 DEF SyncNext, Continues, Calls

\* A step wakes a fiber from the latch only when the count becomes 0.
LEMMA LatchStep ==
    ASSUME LatchInv, [SyncNext]_syncVars
    PROVE  LatchHolds'
<1>1. cond \in [Conds -> Cond] /\ at \in [Users -> Conds \cup {"none"}] /\ m_count \in Nat
  BY DEF LatchInv, SyncTypeOK, Cond
<1> DEFINE q == cond["latch"].m_wait_queue
<1>2. q \in Seq(Users)
  BY <1>1 DEF Cond, Conds
<1>3. ASSUME cond'["latch"] = cond["latch"], m_count' = m_count,
             \A g \in Users : at'[g] = "latch" => at[g] = "latch"
      PROVE  LatchHolds'
  BY <1>3 DEF LatchInv, LatchHolds, Woken, Waiting
<1>4. ASSUME NEW f \in Users, LatchWaits(f) PROVE LatchHolds'
  <2>1. /\ m_count' = m_count
        /\ cond'["latch"].m_wait_queue = Append(q, f)
        /\ \A g \in Users \ {f} : at'[g] = at[g]
    BY <1>1, <1>4 DEF LatchWaits, Wait, Conds
  <2>2. ToSet(q) \cup {f} \subseteq ToSet(Append(q, f))
    BY <1>2, AppendSet
  <2>3. Woken("latch")' \subseteq Woken("latch")
    BY <2>1, <2>2 DEF Woken, Waiting
  <2>4. QED
    BY <2>1, <2>3 DEF LatchInv, LatchHolds
<1>5. ASSUME NEW f \in Users, count_down(f) PROVE LatchHolds'
  <2>1. CASE m_count' = 0
    BY <2>1 DEF LatchHolds
  <2>2. CASE m_count' # 0
    <3>1. cond'["latch"] = cond["latch"] /\ at' = at /\ m_count # 0
      BY <1>1, <1>5, <2>2 DEF count_down, Conds
    <3>2. Woken("latch")' = Woken("latch") /\ Woken("latch") = {}
      BY <3>1 DEF Woken, Waiting, LatchInv, LatchHolds
    <3>3. QED
      BY <3>2 DEF LatchHolds
  <2>3. QED
    BY <2>1, <2>2
<1>6. ASSUME NEW f \in Users,
             PushRefused(f) \/ PushWaits(f) \/ PopRefused(f) \/ PopWaits(f)
             \/ SemWaits(f) \/ SemGets(f) \/ LatchPassed(f)
      PROVE  LatchHolds'
  <2>1. CASE PushWaits(f) \/ PopWaits(f) \/ SemWaits(f)
    BY <1>1, <1>3, <2>1 DEF PushWaits, PopWaits, SemWaits, Wait, Conds
  <2>2. CASE PushRefused(f) \/ PopRefused(f) \/ SemGets(f) \/ LatchPassed(f)
    BY <1>1, <1>3, <2>2 DEF PushRefused, PopRefused, SemGets, LatchPassed, Returns
  <2>3. QED
    BY <1>6, <2>1, <2>2
<1>7. ASSUME NEW f \in Users, Push(f) \/ Pop(f) \/ Close(f) \/ SemNotify(f)
      PROVE  LatchHolds'
  BY <1>1, <1>3, <1>7 DEF Push, Pop, Close, SemNotify, Returns, Conds
<1>8. CASE UNCHANGED syncVars
  BY <1>3, <1>8 DEF syncVars
<1>9. QED
  BY <1>4, <1>5, <1>6, <1>7, <1>8 DEF SyncNext, Continues, Calls

\* Every step keeps both invariants.
LEMMA NextLatch == LatchInv /\ ChannelInv /\ [SyncNext]_syncVars => LatchInv' /\ ChannelInv'
<1> SUFFICES ASSUME LatchInv, ChannelInv, [SyncNext]_syncVars PROVE LatchInv' /\ ChannelInv'
  OBVIOUS
<1>1. ChannelInv'
  BY NextChannel
<1>2. SyncTypeOK /\ LatchHolds'
  BY LatchStep DEF LatchInv
<1>3. SyncTypeOK'
  BY <1>1, <1>2, CondType, CounterType DEF SyncTypeOK, ChannelInv, Cond
<1>4. QED
  BY <1>1, <1>2, <1>3 DEF LatchInv

\* SyncTypeOK: every variable of CoSync keeps its type, m_used within the number
\* of units and the latch's count at 0 or above.
THEOREM SyncTypeCorrect == SyncSpec => []SyncTypeOK
<1>1. LatchInv => SyncTypeOK
  BY DEF LatchInv
<1>2. QED
  BY <1>1, InitLatch, InitChannel, NextLatch, PTL DEF SyncSpec

\* LatchHolds: CoCountDownLatch::wait() returns only after the count has
\* reached 0, although a woken fiber does not look at it again.
THEOREM LatchCorrect == SyncSpec => []LatchHolds
<1>1. LatchInv => LatchHolds
  BY DEF LatchInv
<1>2. QED
  BY <1>1, InitLatch, InitChannel, NextLatch, PTL DEF SyncSpec

-----------------------------------------------------------------------------
\* The wait queues of a closed channel and of an open latch are empty.
ReleaseInv ==
    /\ m_is_close => cond["push"].m_wait_queue = <<>> /\ cond["pop"].m_wait_queue = <<>>
    /\ m_count = 0 => cond["latch"].m_wait_queue = <<>>

\* All queues are empty at first.
LEMMA InitRelease == SyncInit => ReleaseInv
  BY DEF SyncInit, ReleaseInv, Conds

\* Every step keeps ReleaseInv.
LEMMA NextRelease == SyncTypeOK /\ ReleaseInv /\ [SyncNext]_syncVars => ReleaseInv'
<1> SUFFICES ASSUME SyncTypeOK, ReleaseInv, [SyncNext]_syncVars PROVE ReleaseInv'
  OBVIOUS
<1>1. cond \in [Conds -> Cond] /\ m_count \in Nat /\ m_is_close \in BOOLEAN
  BY DEF SyncTypeOK, Cond
<1>2. ASSUME NEW f \in Users, PushWaits(f) \/ PopWaits(f) PROVE ReleaseInv'
  BY <1>1, <1>2 DEF PushWaits, PopWaits, Wait, channel, Conds, ReleaseInv
<1>3. ASSUME NEW f \in Users, SemWaits(f) PROVE ReleaseInv'
  BY <1>1, <1>3 DEF SemWaits, Wait, channel, Conds, ReleaseInv
<1>4. ASSUME NEW f \in Users, LatchWaits(f) PROVE ReleaseInv'
  BY <1>1, <1>4 DEF LatchWaits, Wait, channel, Conds, ReleaseInv
<1>5. ASSUME NEW f \in Users, Push(f) \/ Pop(f) \/ SemNotify(f) PROVE ReleaseInv'
  BY <1>1, <1>5 DEF Push, Pop, SemNotify, Notified, channel, Conds, ReleaseInv
<1>6. ASSUME NEW f \in Users, Close(f) PROVE ReleaseInv'
  BY <1>1, <1>6 DEF Close, NotifiedAll, Conds, ReleaseInv
<1>7. ASSUME NEW f \in Users, count_down(f) PROVE ReleaseInv'
  BY <1>1, <1>7 DEF count_down, NotifiedAll, channel, Conds, ReleaseInv
<1>8. ASSUME cond' = cond, m_is_close' = m_is_close, m_count' = m_count PROVE ReleaseInv'
  BY <1>8 DEF ReleaseInv
<1>9. ASSUME NEW f \in Users,
             PushRefused(f) \/ PopRefused(f) \/ SemGets(f) \/ LatchPassed(f)
      PROVE  ReleaseInv'
  BY <1>8, <1>9 DEF PushRefused, PopRefused, SemGets, LatchPassed, channel
<1>10. CASE UNCHANGED syncVars
  BY <1>8, <1>10 DEF syncVars
<1>11. QED
  BY <1>2, <1>3, <1>4, <1>5, <1>6, <1>7, <1>9, <1>10 DEF SyncNext, Continues, Calls

\* ClosedReleasesAll: close() and the last count_down() leave nobody waiting,
\* and nobody starts to wait afterwards.
THEOREM ReleaseComplete == SyncSpec => []ClosedReleasesAll
<1>1. ReleaseInv => ClosedReleasesAll
  BY DEF ReleaseInv, ClosedReleasesAll, Waiting, ToSet
<1>2. LatchInv => SyncTypeOK
  BY DEF LatchInv
<1>3. QED
  BY <1>1, <1>2, InitLatch, InitChannel, InitRelease, NextLatch, NextRelease, PTL DEF SyncSpec

-----------------------------------------------------------------------------
Queue(c) == cond[c].m_wait_queue

\* A fiber waits in the queue of the condition it is at, and there once.
QueuesSound ==
    \A c \in Conds :
        /\ \A i \in 1..Len(Queue(c)) : at[Queue(c)[i]] = c
        /\ \A i, j \in 1..Len(Queue(c)) : Queue(c)[i] = Queue(c)[j] => i = j

\* No fiber waits at first.
LEMMA InitQueues == SyncInit => QueuesSound
<1> SUFFICES ASSUME SyncInit, NEW c \in Conds PROVE Len(Queue(c)) = 0
  BY DEF QueuesSound
<1>1. Queue(c) = <<>>
  BY DEF SyncInit, Queue
<1>2. QED
  BY <1>1

\* Who waits, by position.
LEMMA WaitingIs ==
    ASSUME SyncTypeOK, NEW c \in Conds
    PROVE  /\ Queue(c) \in Seq(Users) /\ Len(Queue(c)) \in Nat
           /\ \A f : f \in Waiting(c) <=> \E i \in 1..Len(Queue(c)) : Queue(c)[i] = f
           /\ Waiting(c) = {} <=> Queue(c) = <<>>
<1>1. cond[c] \in Cond
  BY DEF SyncTypeOK, Cond
<1>2. Queue(c) \in Seq(Users)
  BY <1>1 DEF Cond, Queue
<1>3. DOMAIN Queue(c) = 1..Len(Queue(c)) /\ Len(Queue(c)) \in Nat
  BY <1>2
<1>4. Waiting(c) = {Queue(c)[i] : i \in DOMAIN Queue(c)}
  BY DEF Waiting, ToSet, Queue
<1>5. Queue(c) = <<>> <=> Len(Queue(c)) = 0
  BY <1>2
<1>6. Waiting(c) = {} <=> Queue(c) = <<>>
  <2>1. Len(Queue(c)) # 0 => 1 \in DOMAIN Queue(c)
    BY <1>3
  <2>2. Len(Queue(c)) = 0 => DOMAIN Queue(c) = {}
    BY <1>3
  <2>3. QED
    BY <1>4, <1>5, <2>1, <2>2
<1>7. QED
  BY <1>2, <1>3, <1>4, <1>6

\* A fiber that enters an operation waits nowhere.
LEMMA EntersFree ==
    ASSUME SyncTypeOK, QueuesSound, NEW c \in Conds, NEW f \in Users, Enters(c, f)
    PROVE  \A d \in Conds : \A i \in 1..Len(Queue(d)) : Queue(d)[i] # f
<1> SUFFICES ASSUME NEW d \in Conds, NEW i \in 1..Len(Queue(d)), Queue(d)[i] = f PROVE FALSE
  OBVIOUS
<1>1. f \in Waiting(d)
  BY WaitingIs
<1>2. at[f] = d /\ d # "none"
  BY DEF QueuesSound, Conds
<1>3. QED
  BY <1>1, <1>2 DEF Enters, Woken

\* A queue loses nothing, its head, or all that it holds.
Shrinks(d) == \/ Queue(d)' = Queue(d)
              \/ Queue(d)' = <<>>
              \/ Queue(d) # <<>> /\ Queue(d)' = Tail(Queue(d))

\* Some fiber, who waits nowhere, changes its place, and queues lose their head or
\* all they hold: what is left of the queues is sound.
LEMMA QueuesShrink ==
    ASSUME SyncTypeOK, SyncTypeOK', QueuesSound, NEW f \in Users,
           \A d \in Conds : \A i \in 1..Len(Queue(d)) : Queue(d)[i] # f,
           \A g \in Users \ {f} : at'[g] = at[g],
           \A d \in Conds : Shrinks(d)
    PROVE  QueuesSound'
<1> SUFFICES ASSUME NEW d \in Conds
             PROVE  /\ \A i \in 1..Len(Queue(d)') : at'[Queue(d)'[i]] = d
                    /\ \A i, j \in 1..Len(Queue(d)') : Queue(d)'[i] = Queue(d)'[j] => i = j
  BY DEF QueuesSound
<1>1. Queue(d) \in Seq(Users)
  BY WaitingIs
<1>2. \A i \in 1..Len(Queue(d)) : Queue(d)[i] \in Users \ {f} /\ at'[Queue(d)[i]] = d
  BY <1>1 DEF QueuesSound
<1>3. \A i, j \in 1..Len(Queue(d)) : Queue(d)[i] = Queue(d)[j] => i = j
  BY DEF QueuesSound
<1>4. CASE Queue(d)' = Queue(d)
  BY <1>2, <1>3, <1>4
<1>5. CASE Queue(d)' = <<>>
  BY <1>5
<1>6. CASE Queue(d) # <<>> /\ Queue(d)' = Tail(Queue(d))
  <2>1. Len(Queue(d)') = Len(Queue(d)) - 1 /\ Len(Queue(d)) \in Nat
    BY <1>1, <1>6
  <2>2. \A i \in 1..Len(Queue(d)') : Queue(d)'[i] = Queue(d)[i + 1]
    BY <1>1, <1>6
  <2>3. \A i \in 1..Len(Queue(d)') : i + 1 \in 1..Len(Queue(d))
    BY <2>1
  <2>4. QED
    BY SMTT(30), <1>2, <1>3, <2>1, <2>2, <2>3
<1>7. QED
  BY <1>4, <1>5, <1>6 DEF Shrinks

\* A fiber that waited nowhere starts to wait.
LEMMA QueuesGrow ==
    ASSUME SyncTypeOK, SyncTypeOK', QueuesSound, NEW c \in Conds, NEW f \in Users,
           \A d \in Conds : \A i \in 1..Len(Queue(d)) : Queue(d)[i] # f, Wait(c, f)
    PROVE  QueuesSound'
<1> SUFFICES ASSUME NEW d \in Conds
             PROVE  /\ \A i \in 1..Len(Queue(d)') : at'[Queue(d)'[i]] = d
                    /\ \A i, j \in 1..Len(Queue(d)') : Queue(d)'[i] = Queue(d)'[j] => i = j
  BY DEF QueuesSound
<1>0. cond \in [Conds -> Cond] /\ at \in [Users -> Conds \cup {"none"}]
  BY DEF SyncTypeOK, Cond
<1>1. Queue(d) \in Seq(Users)
  BY WaitingIs
<1>2. at'[f] = c /\ \A g \in Users \ {f} : at'[g] = at[g]
  BY <1>0 DEF Wait
<1>3. \A i \in 1..Len(Queue(d)) : Queue(d)[i] \in Users \ {f} /\ at'[Queue(d)[i]] = d
  BY <1>1, <1>2 DEF QueuesSound
<1>4. \A i, j \in 1..Len(Queue(d)) : Queue(d)[i] = Queue(d)[j] => i = j
  BY DEF QueuesSound
<1>5. CASE d # c
  <2>1. Queue(d)' = Queue(d)
    BY <1>0, <1>5 DEF Wait, Queue
  <2>2. QED
    BY <1>3, <1>4, <2>1
<1>6. CASE d = c
  <2>1. Queue(d)' = Append(Queue(d), f)
    BY <1>0, <1>6 DEF Wait, Queue
  <2>2. /\ Len(Queue(d)') = Len(Queue(d)) + 1 /\ Len(Queue(d)) \in Nat
        /\ Queue(d)'[Len(Queue(d)) + 1] = f
        /\ \A i \in 1..Len(Queue(d)) : Queue(d)'[i] = Queue(d)[i]
    BY <1>1, <2>1
  <2>3. QED
    BY <1>2, <1>3, <1>4, <1>6, <2>2
<1>7. QED
  BY <1>5, <1>6

\* What the steps do to the queues and to the places of the fibers.
LEMMA StepQueues ==
    ASSUME SyncTypeOK, NEW f \in Users, Continues(f) \/ Calls(f)
    PROVE  /\ \E c \in Conds : Enters(c, f)
           /\ \/ \E c \in Conds : Wait(c, f)
              \/ /\ \A g \in Users \ {f} : at'[g] = at[g]
                 /\ \A d \in Conds : Shrinks(d)
<1>0. cond \in [Conds -> Cond] /\ at \in [Users -> Conds \cup {"none"}]
  BY DEF SyncTypeOK, Cond
<1>1. CASE PushWaits(f) \/ PopWaits(f) \/ SemWaits(f) \/ LatchWaits(f)
  BY <1>1 DEF PushWaits, PopWaits, SemWaits, LatchWaits, Conds, Enters
<1>2. CASE PushRefused(f) \/ PopRefused(f) \/ SemGets(f) \/ LatchPassed(f)
  <2>1. cond' = cond /\ Returns(f) /\ \E c \in Conds : Enters(c, f)
    BY <1>2 DEF PushRefused, PopRefused, SemGets, LatchPassed, Conds, Enters
  <2>2. QED
    BY <1>0, <2>1 DEF Returns, Queue, Shrinks
<1>3. CASE Push(f) \/ Pop(f) \/ SemNotify(f)
  <2>1. PICK c \in Conds : cond' = [cond EXCEPT ![c] = Notified(@)]
    BY <1>3 DEF Push, Pop, SemNotify, Conds
  <2>2. /\ \A g \in Users \ {f} : at'[g] = at[g]
        /\ \E d \in Conds : Enters(d, f)
    BY <1>0, <1>3 DEF Push, Pop, SemNotify, Returns, Conds, Enters
  <2>3. \A d \in Conds : Shrinks(d)
    BY <1>0, <2>1 DEF Notified, Queue, Shrinks
  <2>4. QED
    BY <2>2, <2>3
<1>4. CASE Close(f) \/ count_down(f)
  <2>1. at' = at /\ \E d \in Conds : Enters(d, f)
    BY <1>4 DEF Close, count_down, Conds, Enters
  <2>2. \A d \in Conds : Shrinks(d)
    BY <1>0, <1>4 DEF Close, count_down, NotifiedAll, Queue, Shrinks
  <2>3. QED
    BY <2>1, <2>2
<1>5. QED
  BY <1>1, <1>2, <1>3, <1>4 DEF Continues, Calls

\* Every step keeps QueuesSound.
LEMMA NextQueues == ASSUME SyncTypeOK, SyncTypeOK', QueuesSound, [SyncNext]_syncVars PROVE QueuesSound'
<1>1. CASE UNCHANGED syncVars
  BY <1>1 DEF syncVars, QueuesSound, Queue
<1>2. ASSUME NEW f \in Users, Continues(f) \/ Calls(f) PROVE QueuesSound'
  <2>1. \A d \in Conds : \A i \in 1..Len(Queue(d)) : Queue(d)[i] # f
    BY <1>2, StepQueues, EntersFree
  <2>2. QED
    BY <1>2, <2>1, StepQueues, QueuesGrow, QueuesShrink
<1>3. QED
  BY <1>1, <1>2 DEF SyncNext

-----------------------------------------------------------------------------
\* What a condition variable's waiters wait for: values, free places, units.
Share(c) == CASE c = "pop" -> Len(m_queue)
              [] c = "push" -> m_capacity - Len(m_queue)
              [] c = "sem" -> m_num - m_used

Shared == {"push", "pop", "sem"}
Covered(c) == Waiting(c) # {} => Share(c) <= Cardinality(Woken(c))

\* The count of the woken fibers is a number.
LEMMA WokenCount ==
    ASSUME IsFiniteSet(Users)
    PROVE  \A c \in Conds : IsFiniteSet(Woken(c)) /\ Cardinality(Woken(c)) \in Nat
<1> SUFFICES ASSUME NEW c \in Conds PROVE IsFiniteSet(Woken(c)) /\ Cardinality(Woken(c)) \in Nat
  OBVIOUS
<1>1. Woken(c) \in SUBSET Users
  BY DEF Woken
<1>2. QED
  BY <1>1, FS_Subset, FS_CardinalityType

\* A share is an integer.
LEMMA ShareType ==
    ASSUME SyncTypeOK, SyncTypeOK'
    PROVE  \A c \in Shared : Share(c) \in Int /\ Share(c)' \in Int /\ c \in Conds
<1>1. Len(m_queue) \in Nat /\ Len(m_queue') \in Nat
  BY DEF SyncTypeOK
<1>2. m_used \in Nat /\ m_used' \in Nat
  BY DEF SyncTypeOK
<1>3. QED
  BY <1>1, <1>2 DEF Share, Shared, Conds

\* A step that leaves the condition variable alone, and its share no larger.
LEMMA CoveredKept ==
    ASSUME IsFiniteSet(Users), SyncTypeOK, SyncTypeOK', NEW c \in Shared, Covered(c), Queue(c)' = Queue(c),
           \A g \in Users : at'[g] = c <=> at[g] = c, Share(c)' <= Share(c)
    PROVE  Covered(c)'
<1>1. Waiting(c)' = Waiting(c) /\ Woken(c)' = Woken(c)
  BY DEF Waiting, Woken, Queue
<1>2. Share(c) \in Int /\ Share(c)' \in Int
  BY ShareType
<1>3. QED
  BY <1>1, <1>2, WokenCount, ShareType DEF Covered

\* A woken fiber that goes on takes its share with it.
LEMMA CoveredLeaves ==
    ASSUME IsFiniteSet(Users), SyncTypeOK, SyncTypeOK', NEW c \in Shared, Covered(c), Queue(c)' = Queue(c),
           NEW f \in Woken(c), at' = [at EXCEPT ![f] = "none"], Share(c)' <= Share(c) - 1
    PROVE  Covered(c)'
<1>1. c # "none"
  BY DEF Shared
<1>2. Waiting(c)' = Waiting(c) /\ Woken(c)' = Woken(c) \ {f}
  BY <1>1 DEF Waiting, Woken, Queue, SyncTypeOK
<1>3. Cardinality(Woken(c)') = Cardinality(Woken(c)) - 1
  BY <1>2, WokenCount, ShareType, FS_RemoveElement
<1>4. Share(c) \in Int /\ Share(c)' \in Int /\ Cardinality(Woken(c)) \in Nat
  BY ShareType, WokenCount
<1>5. QED
  BY <1>2, <1>3, <1>4 DEF Covered

\* notify() wakes a fiber for one more share, unless nobody waits.
LEMMA CoveredNotified ==
    ASSUME IsFiniteSet(Users), SyncTypeOK, SyncTypeOK', QueuesSound, QueuesSound', NEW c \in Shared, Covered(c),
           cond'[c] = Notified(cond[c]),
           \A g \in Users : at'[g] = c <=> at[g] = c, Share(c)' <= Share(c) + 1
    PROVE  Covered(c)'
<1>0. c \in Conds /\ Share(c) \in Int /\ Share(c)' \in Int
  BY ShareType
<1>1. CASE Queue(c) = <<>>
  <2>1. Queue(c)' = <<>>
    BY <1>1 DEF Notified, Queue
  <2>2. Waiting(c)' = {}
    BY <2>1 DEF Waiting, Queue, ToSet
  <2>3. QED
    BY <2>2 DEF Covered
<1>2. CASE Queue(c) # <<>>
  <2> DEFINE h == Queue(c)[1]
  <2>1. Queue(c)' = Tail(Queue(c)) /\ Queue(c) \in Seq(Users) /\ Len(Queue(c)) \in Nat \ {0}
    BY <1>0, <1>2, WaitingIs DEF Notified, Queue
  <2>2. h \in Waiting(c) /\ h \in Users /\ at[h] = c
    BY <1>0, <2>1, WaitingIs DEF QueuesSound
  <2>3. /\ Len(Queue(c)') = Len(Queue(c)) - 1
        /\ \A i \in 1..Len(Queue(c)') : Queue(c)'[i] = Queue(c)[i + 1]
    BY <2>1
  <2>4. \A g : g \in Waiting(c)' <=> \E i \in 1..Len(Queue(c)') : Queue(c)'[i] = g
    <3>1. DOMAIN Queue(c)' = 1..Len(Queue(c)')
      BY <2>1
    <3>2. Waiting(c)' = {Queue(c)'[i] : i \in DOMAIN Queue(c)'}
      BY DEF Waiting, ToSet, Queue
    <3>3. QED
      BY <3>1, <3>2
  <2>5. \A g : g \in Waiting(c)' <=> g \in Waiting(c) /\ g # h
    <3>1. ASSUME NEW g \in Waiting(c)' PROVE g \in Waiting(c) /\ g # h
      <4>1. PICK i \in 1..Len(Queue(c)') : Queue(c)'[i] = g
        BY <2>4, <3>1
      <4>2. i + 1 \in 1..Len(Queue(c)) /\ 1 \in 1..Len(Queue(c)) /\ i + 1 # 1 /\ Queue(c)[i + 1] = g
        BY <2>1, <2>3, <4>1
      <4>3. QED
        BY <1>0, <4>2, WaitingIs DEF QueuesSound
    <3>2. ASSUME NEW g \in Waiting(c), g # h PROVE g \in Waiting(c)'
      <4>1. PICK i \in 1..Len(Queue(c)) : Queue(c)[i] = g
        BY <1>0, WaitingIs
      <4>2. i - 1 \in 1..Len(Queue(c)') /\ (i - 1) + 1 = i
        BY <2>1, <2>3, <3>2, <4>1
      <4>3. QED
        BY <2>3, <2>4, <4>1, <4>2
    <3>3. QED
      BY <3>1, <3>2
  <2> HIDE DEF h
  <2>6. Woken(c)' = Woken(c) \cup {h} /\ h \notin Woken(c)
    BY <2>2, <2>5 DEF Woken
  <2>7. Cardinality(Woken(c)') = Cardinality(Woken(c)) + 1
    BY <1>0, <2>6, WokenCount, FS_AddElement
  <2>8. Waiting(c) # {}
    BY <2>2
  <2>9. QED
    BY <1>0, <2>7, <2>8, WokenCount DEF Covered
<1>3. QED
  BY <1>1, <1>2

\* A fiber that enters an operation and returns takes its share, if it was woken.
LEMMA CoveredEntered ==
    ASSUME IsFiniteSet(Users), SyncTypeOK, SyncTypeOK', NEW c \in Shared, Covered(c), Queue(c)' = Queue(c),
           NEW f \in Users, Enters(c, f), Returns(f), Share(c)' <= Share(c) - 1
    PROVE  Covered(c)'
<1>0. at \in [Users -> Conds \cup {"none"}] /\ c # "none"
  BY DEF SyncTypeOK, Shared
<1>1. CASE f \in Woken(c)
  BY <1>1, CoveredLeaves DEF Returns
<1>2. CASE at[f] = "none"
  <2>1. \A g \in Users : at'[g] = c <=> at[g] = c
    BY <1>0, <1>2 DEF Returns
  <2>2. Share(c) \in Int /\ Share(c)' \in Int /\ Share(c)' <= Share(c)
    BY ShareType
  <2>3. QED
    BY <2>1, <2>2, CoveredKept
<1>3. QED
  BY <1>1, <1>2 DEF Enters

\* A fiber that waits or returns from elsewhere does not count here.
LEMMA PlaceElsewhere ==
    ASSUME SyncTypeOK, NEW c \in Conds, NEW d \in Conds \ {c}, NEW f \in Users, Enters(d, f),
           Wait(d, f) \/ Returns(f)
    PROVE  \A g \in Users : at'[g] = c <=> at[g] = c
<1>1. at \in [Users -> Conds \cup {"none"}] /\ c # "none" /\ d # c
  BY DEF SyncTypeOK, Conds
<1>2. at[f] # c
  BY <1>1 DEF Enters, Woken
<1>3. at' = [at EXCEPT ![f] = d] \/ at' = [at EXCEPT ![f] = "none"]
  BY DEF Wait, Returns
<1>4. QED
  BY <1>1, <1>2, <1>3

\* The invariant under NoLostNotify.
NotifyInv == LatchInv /\ ChannelInv /\ ReleaseInv /\ QueuesSound /\ \A c \in Shared : Covered(c)

\* The steps of a fiber that waits: nothing is left for it.
LEMMA WaitsCovered ==
    ASSUME IsFiniteSet(Users), NotifyInv, SyncTypeOK', NEW f \in Users,
           PushWaits(f) \/ PopWaits(f) \/ SemWaits(f) \/ LatchWaits(f), NEW c \in Shared
    PROVE  Covered(c)'
<1>0. SyncTypeOK /\ cond \in [Conds -> Cond] /\ c \in Conds /\ Covered(c)
  BY ShareType DEF NotifyInv, LatchInv, SyncTypeOK, Cond
<1>1. PICK d \in Conds : Wait(d, f) /\ Enters(d, f) /\ (d = c => Share(c) <= 0)
  <2>1. CASE PushWaits(f)
    BY SMTT(30), <1>0, <2>1 DEF PushWaits, MustWait, Full, Share, Conds, SyncTypeOK
  <2>2. CASE PopWaits(f)
    BY SMTT(30), <1>0, <2>2 DEF PopWaits, Share, Conds, SyncTypeOK
  <2>3. CASE SemWaits(f)
    BY SMTT(30), <1>0, <2>3 DEF SemWaits, Share, Conds, SyncTypeOK
  <2>4. CASE LatchWaits(f)
    BY <2>4 DEF LatchWaits, Enters, Conds, Shared
  <2>5. QED
    BY <2>1, <2>2, <2>3, <2>4
<1>2. UNCHANGED <<m_queue, m_used>>
  BY DEF PushWaits, PopWaits, SemWaits, LatchWaits, channel
<1>3. Share(c)' = Share(c) /\ Share(c) \in Int
  BY <1>0, <1>2, ShareType DEF Share
<1>4. CASE d = c
  <2>1. Cardinality(Woken(c)') \in Nat
    <3>1. Woken(c)' \in SUBSET Users
      BY DEF Woken
    <3>2. QED
      BY <3>1, FS_Subset, FS_CardinalityType
  <2>2. QED
    BY <1>1, <1>3, <1>4, <2>1 DEF Covered
<1>5. CASE d # c
  <2>1. Queue(c)' = Queue(c)
    BY <1>0, <1>1, <1>5 DEF Wait, Queue
  <2>2. \A g \in Users : at'[g] = c <=> at[g] = c
    BY <1>0, <1>1, <1>5, PlaceElsewhere
  <2>3. QED
    BY <1>0, <1>3, <2>1, <2>2, CoveredKept
<1>6. QED
  BY <1>4, <1>5

\* The steps of a fiber that takes or gives something.
LEMMA MovesCovered ==
    ASSUME IsFiniteSet(Users), NotifyInv, SyncTypeOK', QueuesSound', NEW f \in Users,
           Push(f) \/ Pop(f) \/ SemGets(f) \/ SemNotify(f), NEW c \in Shared
    PROVE  Covered(c)'
<1>0. SyncTypeOK /\ cond \in [Conds -> Cond] /\ c \in Conds /\ Covered(c) /\ QueuesSound
  BY ShareType DEF NotifyInv, LatchInv, SyncTypeOK, Cond
<1>1. m_queue \in Seq(1..MaxItems) /\ Len(m_queue) \in Nat /\ m_used \in Nat
  BY <1>0 DEF SyncTypeOK
<1>2. CASE Push(f)
  <2>1. /\ Enters("push", f) /\ Returns(f) /\ cond' = [cond EXCEPT !["pop"] = Notified(@)]
        /\ m_used' = m_used
    BY <1>2 DEF Push
  <2>2. Len(m_queue') = Len(m_queue) + 1
    BY <1>1, <1>2 DEF Push
  <2>3. CASE c = "push"
    <3>1. Queue(c)' = Queue(c) /\ Share(c)' <= Share(c) - 1
      BY <1>0, <1>1, <2>1, <2>2, <2>3 DEF Queue, Share
    <3>2. QED
      BY <1>0, <2>1, <2>3, <3>1, CoveredEntered
  <2>4. CASE c = "pop"
    <3>1. cond'[c] = Notified(cond[c]) /\ Share(c)' <= Share(c) + 1
      BY <1>0, <1>1, <2>1, <2>2, <2>4 DEF Share
    <3>2. \A g \in Users : at'[g] = c <=> at[g] = c
      BY <1>0, <2>1, <2>4, PlaceElsewhere DEF Conds
    <3>3. QED
      BY <1>0, <3>1, <3>2, CoveredNotified
  <2>5. CASE c = "sem"
    <3>1. Queue(c)' = Queue(c) /\ Share(c)' <= Share(c)
      BY <1>0, <1>1, <2>1, <2>5 DEF Queue, Share
    <3>2. \A g \in Users : at'[g] = c <=> at[g] = c
      BY <1>0, <2>1, <2>5, PlaceElsewhere DEF Conds
    <3>3. QED
      BY <1>0, <3>1, <3>2, CoveredKept
  <2>6. QED
    BY <2>3, <2>4, <2>5 DEF Shared
<1>3. CASE Pop(f)
  <2>1. /\ Enters("pop", f) /\ Returns(f) /\ cond' = [cond EXCEPT !["push"] = Notified(@)]
        /\ m_used' = m_used
    BY <1>3 DEF Pop
  <2>2. Len(m_queue') = Len(m_queue) - 1 /\ Len(m_queue) >= 1
    BY <1>1, <1>3 DEF Pop
  <2>3. CASE c = "pop"
    <3>1. Queue(c)' = Queue(c) /\ Share(c)' <= Share(c) - 1
      BY <1>0, <1>1, <2>1, <2>2, <2>3 DEF Queue, Share
    <3>2. QED
      BY <1>0, <2>1, <2>3, <3>1, CoveredEntered
  <2>4. CASE c = "push"
    <3>1. cond'[c] = Notified(cond[c]) /\ Share(c)' <= Share(c) + 1
      BY <1>0, <1>1, <2>1, <2>2, <2>4 DEF Share
    <3>2. \A g \in Users : at'[g] = c <=> at[g] = c
      BY <1>0, <2>1, <2>4, PlaceElsewhere DEF Conds
    <3>3. QED
      BY <1>0, <3>1, <3>2, CoveredNotified
  <2>5. CASE c = "sem"
    <3>1. Queue(c)' = Queue(c) /\ Share(c)' <= Share(c)
      BY <1>0, <1>1, <2>1, <2>5 DEF Queue, Share
    <3>2. \A g \in Users : at'[g] = c <=> at[g] = c
      BY <1>0, <2>1, <2>5, PlaceElsewhere DEF Conds
    <3>3. QED
      BY <1>0, <3>1, <3>2, CoveredKept
  <2>6. QED
    BY <2>3, <2>4, <2>5 DEF Shared
<1>4. CASE SemGets(f)
  <2>1. Enters("sem", f) /\ Returns(f) /\ UNCHANGED <<cond, m_queue>> /\ m_used' = m_used + 1
    BY <1>4 DEF SemGets, channel
  <2>2. Queue(c)' = Queue(c)
    BY <2>1 DEF Queue
  <2>3. CASE c = "sem"
    <3>1. Share(c)' <= Share(c) - 1
      BY <1>1, <2>1, <2>3 DEF Share
    <3>2. QED
      BY <1>0, <2>1, <2>2, <2>3, <3>1, CoveredEntered
  <2>4. CASE c # "sem"
    <3>1. Share(c)' <= Share(c)
      BY <1>1, <2>1, <2>4 DEF Share, Shared
    <3>2. \A g \in Users : at'[g] = c <=> at[g] = c
      BY <1>0, <2>1, <2>4, PlaceElsewhere DEF Conds
    <3>3. QED
      BY <1>0, <2>2, <3>1, <3>2, CoveredKept
  <2>5. QED
    BY <2>3, <2>4
<1>5. CASE SemNotify(f)
  <2>1. /\ at' = at /\ m_queue' = m_queue /\ cond' = [cond EXCEPT !["sem"] = Notified(@)]
        /\ m_used' = IF m_used > 0 THEN m_used - 1 ELSE 0
    BY <1>5 DEF SemNotify, channel, Freed
  <2>2. CASE c = "sem"
    <3>1. cond'[c] = Notified(cond[c]) /\ Share(c)' <= Share(c) + 1
      BY <1>0, <1>1, <2>1, <2>2 DEF Share
    <3>2. QED
      BY <1>0, <2>1, <3>1, CoveredNotified
  <2>3. CASE c # "sem"
    <3>1. Queue(c)' = Queue(c) /\ Share(c)' <= Share(c)
      BY <1>0, <1>1, <2>1, <2>3 DEF Queue, Share, Shared
    <3>2. QED
      BY <1>0, <2>1, <3>1, CoveredKept
  <2>4. QED
    BY <2>2, <2>3
<1>6. QED
  BY <1>2, <1>3, <1>4, <1>5

\* The other steps: on a closed channel nobody waits, the latch is apart.
LEMMA OthersCovered ==
    ASSUME IsFiniteSet(Users), NotifyInv, SyncTypeOK', ReleaseInv', NEW f \in Users,
           PushRefused(f) \/ PopRefused(f) \/ Close(f) \/ LatchPassed(f) \/ count_down(f),
           NEW c \in Shared
    PROVE  Covered(c)'
<1>0. SyncTypeOK /\ cond \in [Conds -> Cond] /\ c \in Conds /\ Covered(c)
  BY ShareType DEF NotifyInv, LatchInv, SyncTypeOK, Cond
<1>1. ASSUME Queue(c)' = <<>> PROVE Covered(c)'
  BY <1>1 DEF Covered, Waiting, Queue, ToSet
<1>2. CASE PushRefused(f) \/ PopRefused(f)
  <2>1. PICK d \in {"push", "pop"} : Enters(d, f)
    BY <1>2 DEF PushRefused, PopRefused
  <2>2. m_is_close' = TRUE /\ Returns(f) /\ UNCHANGED <<cond, m_queue, m_used>>
    BY <1>0, <1>2 DEF PushRefused, PopRefused, channel, SyncTypeOK
  <2>3. CASE c \in {"push", "pop"}
    BY <1>1, <2>2, <2>3 DEF ReleaseInv, Queue
  <2>4. CASE c = "sem"
    <3>1. Queue(c)' = Queue(c) /\ Share(c)' <= Share(c)
      BY <1>0, <2>2, <2>4 DEF Queue, Share, SyncTypeOK
    <3>2. \A g \in Users : at'[g] = c <=> at[g] = c
      BY <1>0, <2>1, <2>2, <2>4, PlaceElsewhere DEF Conds
    <3>3. QED
      BY <1>0, <3>1, <3>2, CoveredKept
  <2>5. QED
    BY <2>3, <2>4 DEF Shared
<1>3. CASE Close(f)
  <2>1. /\ at' = at /\ m_used' = m_used
        /\ cond' = [cond EXCEPT !["push"] = NotifiedAll(@), !["pop"] = NotifiedAll(@)]
    BY <1>3 DEF Close
  <2>2. CASE c \in {"push", "pop"}
    BY <1>0, <1>1, <2>1, <2>2 DEF Queue, NotifiedAll
  <2>3. CASE c = "sem"
    <3>1. Queue(c)' = Queue(c)
      BY <1>0, <2>1, <2>3 DEF Queue
    <3>2. Share(c)' = Share(c) /\ Share(c) \in Int
      BY <1>0, <2>1, <2>3, ShareType DEF Share
    <3>3. QED
      BY <1>0, <2>1, <3>1, <3>2, CoveredKept
  <2>4. QED
    BY <2>2, <2>3 DEF Shared
<1>4. CASE LatchPassed(f) \/ count_down(f)
  <2>1. UNCHANGED <<m_queue, m_used>> /\ Queue(c)' = Queue(c)
    BY <1>0, <1>4 DEF LatchPassed, count_down, channel, Queue, Shared
  <2>2. Share(c)' = Share(c) /\ Share(c) \in Int
    BY <1>0, <2>1, ShareType DEF Share
  <2>3. \A g \in Users : at'[g] = c <=> at[g] = c
    <3>1. CASE LatchPassed(f)
      BY <1>0, <3>1, PlaceElsewhere DEF LatchPassed, Enters, Shared, Conds
    <3>2. CASE count_down(f)
      BY <3>2 DEF count_down
    <3>3. QED
      BY <1>4, <3>1, <3>2
  <2>4. QED
    BY <1>0, <2>1, <2>2, <2>3, CoveredKept
<1>5. QED
  BY <1>2, <1>3, <1>4

\* NotifyInv is inductive.
LEMMA NextNotify == ASSUME IsFiniteSet(Users) PROVE NotifyInv /\ [SyncNext]_syncVars => NotifyInv'
<1> SUFFICES ASSUME NotifyInv, [SyncNext]_syncVars PROVE NotifyInv'
  OBVIOUS
<1>1. SyncTypeOK /\ LatchInv' /\ ChannelInv' /\ ReleaseInv'
  BY NextLatch, NextRelease DEF NotifyInv, LatchInv
<1>2. SyncTypeOK' /\ QueuesSound'
  BY <1>1, NextQueues DEF NotifyInv, LatchInv
<1>3. \A c \in Shared : Covered(c)'
  <2>1. CASE UNCHANGED syncVars
    BY <2>1 DEF syncVars, NotifyInv, Covered, Waiting, Woken, Share
  <2>2. ASSUME NEW f \in Users, Continues(f) \/ Calls(f), NEW c \in Shared PROVE Covered(c)'
    BY <1>1, <1>2, <2>2, WaitsCovered, MovesCovered, OthersCovered DEF Continues, Calls
  <2>3. QED
    BY <2>1, <2>2 DEF SyncNext
<1>4. QED
  BY <1>1, <1>2, <1>3 DEF NotifyInv

\* NoLostNotify: while a fiber sleeps in pop(), push() or CoSemaphore::wait(),
\* there are no more values, free places or units than fibers already woken for
\* them, however newcomers overtake the woken ones.
THEOREM NotifyComplete ==
    ASSUME IsFiniteSet(Users) PROVE SyncSpec => []NoLostNotify
<1>1. SyncInit => NotifyInv
  <2> SUFFICES ASSUME SyncInit PROVE NotifyInv
    OBVIOUS
  <2>1. \A c \in Shared : Covered(c)
    BY DEF SyncInit, Covered, Waiting, ToSet, Shared, Conds
  <2>2. QED
    BY <2>1, InitLatch, InitChannel, InitRelease, InitQueues DEF NotifyInv
<1>2. NotifyInv => NoLostNotify
  BY DEF NotifyInv, Covered, Shared, Share, NoLostNotify
<1>3. QED
  BY <1>1, <1>2, NextNotify, PTL DEF SyncSpec
=============================================================================
