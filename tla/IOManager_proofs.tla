--------------------------- MODULE IOManager_proofs ---------------------------
(***************************************************************************)
(* Proofs about the two parts of acid::IOManager.                          *)
(*                                                                         *)
(* FdEvents, for any descriptors, fibers and dispatchers, any size of the  *)
(* context table and any number of contexts per descriptor.  Three         *)
(* hypotheses say what the results rest on and are cited where they are    *)
(* needed: Zeroed, OneWaiterWhereRacy and OneFarDescriptor.                *)
(*                                                                         *)
(* TimerManager, for any number of clients, workers and timers.  QueueInv  *)
(* says who may touch a timer that is not queued, and gives TimersSound.   *)
(* Deadlines and SleepersTold follow the first deadline through the queue, *)
(* m_ticked and the workers' time-outs, and give SleeperWakesInTime.       *)
(* ClockInv keeps the times read behind the clock, and gives NeverEarly.   *)
(***************************************************************************)
EXTENDS FdEvents, TimerManager, FiniteSetTheorems, TLAPS

USE FdEventsAssumption DEF FdEventsAssumption

\* The memory of a new FdContext happens to be zero (its events has no
\* initialiser), and the table has room for two descriptors from the start.
Zeroed == FirstEvents = {{}} /\ FirstSize >= 2

\* Fiber c waits for its event in context x.
Waits(c, x) == c \in Fibers /\ phase[c] = "waiting" /\ ctx[c] = x

\* What PendingCounts counts.
RegisteredPairs == {q \in Contexts \X Event : q[2] \in events[q[1]]}

\* Every descriptor of the table has a context, and a fiber that works on one
\* works on a context of its descriptor.
TableInv ==
    /\ size \in Nat /\ size >= 2
    /\ gen \in [Fds -> 0..MaxGen]
    /\ \A fd \in Fds : InTable(fd) => gen[fd] >= 1
    /\ phase \in [Fibers -> {"idle", "resize", "add", "waiting", "woken"}]
    /\ ctx \in [Fibers -> Contexts \cup {NoContext}]
    /\ \A c \in Fibers : phase[c] = "resize" => Fd(c) >= 2
    /\ \A c \in Fibers : phase[c] \in {"add", "waiting"} =>
         ctx[c] \in Contexts /\ Fd(ctx[c]) = Fd(c)

\* Registered, armed and waited for are the same thing, whatever the races.
RegistryInv ==
    /\ events \in [Contexts -> SUBSET Event]
    /\ armed \in [Contexts -> SUBSET Event]
    /\ \A x \in Contexts : \A e \in Event : e \in events[x] <=> Waits(<<Fd(x), e>>, x)
    /\ \A x \in Contexts : armed[x] = events[x]

\* The kernel's entry points at a context of the descriptor, and never asks for
\* an event that is not registered there.
KernelInv ==
    /\ interest \in [Fds -> [ptr : Contexts \cup {NoContext}, mask : SUBSET Event]]
    /\ \A fd \in Fds : interest[fd] # NoInterest =>
         /\ interest[fd].ptr \in Contexts /\ Fd(interest[fd].ptr) = fd
         /\ interest[fd].mask \subseteq events[interest[fd].ptr]

\* A report holds the pointer the kernel was given.
ReportInv ==
    /\ report \in [Dispatchers ->
                    [ptr : Contexts \cup {NoContext}, mask : SUBSET Event, err : BOOLEAN]]
    /\ \A d \in Dispatchers : Reported(d) => report[d].ptr \in Contexts
    /\ failed \in BOOLEAN

CountInv ==
    /\ IsFiniteSet(RegisteredPairs)
    /\ pending = Cardinality(RegisteredPairs)

-----------------------------------------------------------------------------
\* A pair is the pair of its parts.
LEMMA PairParts ==
    ASSUME NEW A, NEW B, NEW c \in A \X B
    PROVE  c[1] \in A /\ c[2] \in B /\ c = <<c[1], c[2]>>
OBVIOUS

\* Facts about contexts and fibers as pairs.
LEMMA ContextPairs ==
    /\ \A x \in Contexts : Fd(x) \in Fds /\ x # NoContext
    /\ \A c \in Fibers : Fd(c) \in Fds /\ Fd(c) \in Nat /\ Ev(c) \in Event /\ c = <<Fd(c), Ev(c)>>
    /\ \A fd \in Fds : \A e \in Event : Fd(<<fd, e>>) = fd /\ Ev(<<fd, e>>) = e
    /\ \A fd \in Fds : \A g \in 1..MaxGen : <<fd, g>> \in Contexts /\ Fd(<<fd, g>>) = fd
<1>1. \A x \in Contexts : Fd(x) \in Fds /\ x # NoContext
  BY DEF Contexts, Fd, NoContext
<1>2. ASSUME NEW c \in Fibers
      PROVE  Fd(c) \in Fds /\ Fd(c) \in Nat /\ Ev(c) \in Event /\ c = <<Fd(c), Ev(c)>>
  <2>1. c \in Fds \X Event /\ Fds \subseteq Nat
    OBVIOUS
  <2>2. c[1] \in Fds /\ c[2] \in Event /\ c = <<c[1], c[2]>>
    BY <2>1, PairParts
  <2>3. QED
    BY <2>1, <2>2 DEF Fd, Ev
<1>3. \A fd \in Fds : \A e \in Event : Fd(<<fd, e>>) = fd /\ Ev(<<fd, e>>) = e
  BY DEF Fd, Ev
<1>4. \A fd \in Fds : \A g \in 1..MaxGen : <<fd, g>> \in Contexts /\ Fd(<<fd, g>>) = fd
  BY DEF Contexts, Fd
<1> QED
  BY <1>1, <1>2, <1>3, <1>4

LEMMA CurrentContext ==
    ASSUME TableInv, NEW fd \in Fds, InTable(fd)
    PROVE  Current(fd) \in Contexts /\ Fd(Current(fd)) = fd
BY ContextPairs DEF TableInv, Current

\* The size add_event() asks for is larger than the descriptor.
LEMMA NewSizeLarger ==
    ASSUME NEW fd \in Nat, fd >= 2
    PROVE  NewSize(fd) \in Nat /\ NewSize(fd) > fd
BY DEF NewSize

-----------------------------------------------------------------------------
\* The inductive invariant of PendingCounts.
CountsInv == TableInv /\ RegistryInv /\ KernelInv /\ ReportInv /\ CountInv

LEMMA InitCounts == Zeroed /\ Init => CountsInv
<1> SUFFICES ASSUME Zeroed, Init PROVE CountsInv
  OBVIOUS
<1>1. TableInv
  BY DEF Init, TableInv, Zeroed, InTable
<1>2. \A x \in Contexts : events[x] = {} /\ armed[x] = {}
  BY DEF Init, Zeroed
<1>3. RegistryInv
  BY <1>2 DEF Init, RegistryInv, Zeroed, Waits
<1>4. KernelInv /\ ReportInv
  BY DEF Init, KernelInv, ReportInv, Reported, NoInterest, NoReport, NoContext
<1>5. RegisteredPairs = {}
  BY <1>2 DEF RegisteredPairs
<1>6. CountInv
  BY <1>5, FS_EmptySet DEF CountInv, Init
<1> QED
  BY <1>1, <1>3, <1>4, <1>6 DEF CountsInv

-----------------------------------------------------------------------------
\* Dropping events of one context, as many pairs fewer.
PairsOf(x, set) == {<<x, e>> : e \in set}

LEMMA PairsDropped ==
    ASSUME NEW P, IsFiniteSet(P), NEW x, NEW set \in SUBSET Event,
           PairsOf(x, set) \subseteq P
    PROVE  /\ IsFiniteSet(P \ PairsOf(x, set))
           /\ Cardinality(P \ PairsOf(x, set)) = Cardinality(P) - Cardinality(set)
<1> DEFINE drop == PairsOf(x, set)
           r == <<x, "READ">>
           w == <<x, "WRITE">>
<1>0. drop = {<<x, e>> : e \in set} /\ \A e \in set : <<x, e>> \in P
  BY DEF PairsOf
<1> SUFFICES IsFiniteSet(P \ drop) /\ Cardinality(P \ drop) = Cardinality(P) - Cardinality(set)
  OBVIOUS
<1> HIDE DEF drop
<1>1. Cardinality(P) \in Nat
  BY FS_CardinalityType
<1>2. r # w
  OBVIOUS
<1>3. CASE set = {}
  <2>1. P \ drop = P
    BY <1>0, <1>3
  <2>2. Cardinality(set) = 0
    BY <1>3, FS_EmptySet
  <2>3. IsFiniteSet(P \ drop) /\ Cardinality(P \ drop) = Cardinality(P)
    BY <2>1, Zenon
  <2>4. Cardinality(P \ drop) = Cardinality(P) - Cardinality(set)
    BY <2>2, <2>3, <1>1
  <2>5. QED
    BY <2>3, <2>4
<1>4. CASE set = {"READ"}
  <2>1. drop = {r} /\ r \in P
    BY <1>0, <1>4
  <2>2. Cardinality(set) = 1
    BY <1>4, FS_Singleton
  <2> HIDE DEF r
  <2>3. IsFiniteSet(P \ {r}) /\ Cardinality(P \ {r}) = Cardinality(P) - 1
    BY <2>1, FS_RemoveElement
  <2>4. IsFiniteSet(P \ drop) /\ Cardinality(P \ drop) = Cardinality(P \ {r})
    BY <2>1, <2>3, Zenon
  <2>5. QED
    BY <2>2, <2>3, <2>4, <1>1
<1>5. CASE set = {"WRITE"}
  <2>1. drop = {w} /\ w \in P
    BY <1>0, <1>5
  <2>2. Cardinality(set) = 1
    BY <1>5, FS_Singleton
  <2> HIDE DEF w
  <2>3. IsFiniteSet(P \ {w}) /\ Cardinality(P \ {w}) = Cardinality(P) - 1
    BY <2>1, FS_RemoveElement
  <2>4. IsFiniteSet(P \ drop) /\ Cardinality(P \ drop) = Cardinality(P \ {w})
    BY <2>1, <2>3, Zenon
  <2>5. QED
    BY <2>2, <2>3, <2>4, <1>1
<1>6. CASE set = Event
  <2>1. P \ drop = (P \ {r}) \ {w} /\ r \in P /\ w \in P
    BY <1>0, <1>6 DEF Event
  <2>2. Cardinality(set) = 2
    <3>1. set = {"READ"} \cup {"WRITE"} /\ IsFiniteSet({"READ"}) /\ Cardinality({"READ"}) = 1
      BY <1>6, FS_Singleton DEF Event
    <3>2. Cardinality({"READ"} \cup {"WRITE"}) = 1 + 1
      BY <3>1, FS_AddElement
    <3>3. QED
      BY <3>1, <3>2
  <2> HIDE DEF r, w
  <2>3. IsFiniteSet(P \ {r}) /\ Cardinality(P \ {r}) = Cardinality(P) - 1
    BY <2>1, FS_RemoveElement
  <2>4. IsFiniteSet((P \ {r}) \ {w})
        /\ Cardinality((P \ {r}) \ {w}) = Cardinality(P \ {r}) - 1
    BY <2>1, <2>3, <1>2, FS_RemoveElement
  <2>5. IsFiniteSet(P \ drop) /\ Cardinality(P \ drop) = Cardinality((P \ {r}) \ {w})
    BY <2>1, <2>4, Zenon
  <2>6. Cardinality(P \ drop) = Cardinality(P) - Cardinality(set)
    BY <2>2, <2>3, <2>4, <2>5, <1>1
  <2>7. QED
    BY <2>5, <2>6
<1>7. set = {} \/ set = {"READ"} \/ set = {"WRITE"} \/ set = Event
  BY DEF Event
<1> QED
  BY <1>3, <1>4, <1>5, <1>6, <1>7

\* Events of x are triggered, cancelled or deleted: their fibers wait no more.
LEMMA Dropped ==
    ASSUME TableInv, RegistryInv, CountInv, NEW x \in Contexts, NEW set \in SUBSET events[x],
           NEW label \in {"woken", "idle"},
           events' = [events EXCEPT ![x] = @ \ set],
           armed' = ContextsLeft(x, set),
           pending' = PendingLeft(set),
           phase' = [c \in Fibers |-> IF Waits(c, x) /\ Ev(c) \in set THEN label ELSE phase[c]],
           UNCHANGED <<size, gen, ctx>>
    PROVE  TableInv' /\ RegistryInv' /\ CountInv'
<1>1. TableInv'
  BY DEF TableInv, InTable
<1>2. events[x] \subseteq Event
  BY DEF RegistryInv
<1>3. RegistryInv'
  <2>1. /\ events' \in [Contexts -> SUBSET Event] /\ armed' \in [Contexts -> SUBSET Event]
        /\ \A y \in Contexts : armed'[y] = events'[y]
    BY DEF RegistryInv, ContextsLeft
  <2>2. ASSUME NEW y \in Contexts, NEW e \in Event
        PROVE  e \in events'[y] <=> Waits(<<Fd(y), e>>, y)'
    <3>1. Fd(y) \in Fds /\ Ev(<<Fd(y), e>>) = e
      BY ContextPairs
    <3>2. e \in events'[y] <=> e \in events[y] /\ ~(y = x /\ e \in set)
      BY DEF RegistryInv
    <3>3. Waits(<<Fd(y), e>>, y)' <=> Waits(<<Fd(y), e>>, y) /\ ~(y = x /\ e \in set)
      BY <3>1 DEF Waits
    <3>4. QED
      BY <3>2, <3>3 DEF RegistryInv
  <2>3. QED
    BY <2>1, <2>2 DEF RegistryInv
<1>4. CountInv'
  <2>1. RegisteredPairs' = RegisteredPairs \ PairsOf(x, set)
    <3>1. ASSUME NEW q \in Contexts \X Event
          PROVE  q[2] \in events'[q[1]] <=> q[2] \in events[q[1]] /\ q \notin PairsOf(x, set)
      <4>1. q[1] \in Contexts /\ q[2] \in Event /\ q = <<q[1], q[2]>>
        BY PairParts
      <4>2. q \in PairsOf(x, set) <=> q[1] = x /\ q[2] \in set
        BY <4>1 DEF PairsOf
      <4>3. q[2] \in events'[q[1]] <=> q[2] \in events[q[1]] /\ ~(q[1] = x /\ q[2] \in set)
        BY <4>1 DEF RegistryInv
      <4>4. QED
        BY <4>2, <4>3
    <3>2. QED
      BY <3>1 DEF RegisteredPairs
  <2>2. \A e \in set : <<x, e>> \in RegisteredPairs
    BY <1>2 DEF RegisteredPairs
  <2>3. /\ IsFiniteSet(RegisteredPairs')
        /\ Cardinality(RegisteredPairs') = Cardinality(RegisteredPairs) - Cardinality(set)
    <3>1. IsFiniteSet(RegisteredPairs) /\ set \in SUBSET Event
      BY <1>2 DEF CountInv
    <3>2. PairsOf(x, set) \subseteq RegisteredPairs
      BY <2>2 DEF PairsOf
    <3>3. /\ IsFiniteSet(RegisteredPairs \ PairsOf(x, set))
          /\ Cardinality(RegisteredPairs \ PairsOf(x, set)) =
                Cardinality(RegisteredPairs) - Cardinality(set)
      BY <3>1, <3>2, PairsDropped
    <3>4. QED
      BY <2>1, <3>3, Zenon
  <2>4. QED
    BY <2>3 DEF CountInv, PendingLeft
<1> QED
  BY <1>1, <1>3, <1>4

\* Fiber c registers its event.
LEMMA Added ==
    ASSUME TableInv, RegistryInv, CountInv, failed \in BOOLEAN,
           NEW c \in Fibers, AddEvent(c)
    PROVE  /\ TableInv' /\ RegistryInv' /\ CountInv'
           /\ Ev(c) \notin events[ctx[c]] /\ failed' = failed
<1>1. PICK x \in Contexts : x = ctx[c] /\ Fd(x) = Fd(c) /\ phase[c] = "add"
  BY DEF TableInv, AddEvent
<1>2. /\ Fd(c) \in Fds /\ Ev(c) \in Event /\ c = <<Fd(x), Ev(c)>>
  BY <1>1, ContextPairs
<1>3. Ev(c) \notin events[x] /\ Ev(c) \notin armed[x]
  BY <1>1, <1>2 DEF RegistryInv, Waits
<1>4. /\ pending' = pending + 1
      /\ events' = [events EXCEPT ![x] = @ \cup {Ev(c)}]
      /\ armed' = [armed EXCEPT ![x] = @ \cup {Ev(c)}]
      /\ phase' = [phase EXCEPT ![c] = "waiting"]
      /\ failed' = (failed \/ Ev(c) \in events[x] \/ Ev(c) \in armed[x])
      /\ UNCHANGED <<size, gen, ctx>>
  BY <1>1 DEF AddEvent
<1>5. TableInv'
  BY <1>1, <1>4 DEF TableInv, InTable
<1>6. RegistryInv'
  <2>1. /\ events' \in [Contexts -> SUBSET Event] /\ armed' \in [Contexts -> SUBSET Event]
        /\ \A y \in Contexts : armed'[y] = events'[y]
    BY <1>2, <1>4 DEF RegistryInv
  <2>2. ASSUME NEW y \in Contexts, NEW e \in Event
        PROVE  e \in events'[y] <=> Waits(<<Fd(y), e>>, y)'
    <3>1. e \in events'[y] <=> e \in events[y] \/ (y = x /\ e = Ev(c))
      BY <1>4 DEF RegistryInv
    <3>2. <<Fd(y), e>> = c <=> Fd(y) = Fd(x) /\ e = Ev(c)
      BY <1>2
    <3>3. Waits(<<Fd(y), e>>, y)' <=> Waits(<<Fd(y), e>>, y) \/ (y = x /\ e = Ev(c))
      BY <1>1, <1>4, <3>2 DEF Waits, TableInv
    <3>4. QED
      BY <3>1, <3>3 DEF RegistryInv
  <2>3. QED
    BY <2>1, <2>2 DEF RegistryInv
<1>7. CountInv'
  <2>1. PICK q : q = <<x, Ev(c)>>
    OBVIOUS
  <2>2. RegisteredPairs' = RegisteredPairs \cup {q} /\ q \notin RegisteredPairs
    <3>1. ASSUME NEW r \in Contexts \X Event
          PROVE  r[2] \in events'[r[1]] <=> r[2] \in events[r[1]] \/ r = q
      <4>1. r[1] \in Contexts /\ r[2] \in Event /\ r = <<r[1], r[2]>>
        BY PairParts
      <4>2. r = q <=> r[1] = x /\ r[2] = Ev(c)
        BY <4>1, <2>1
      <4>3. r[2] \in events'[r[1]] <=> r[2] \in events[r[1]] \/ (r[1] = x /\ r[2] = Ev(c))
        BY <4>1, <1>4 DEF RegistryInv
      <4>4. QED
        BY <4>2, <4>3
    <3>2. q \in Contexts \X Event /\ q[1] = x /\ q[2] = Ev(c)
      BY <2>1, <1>2
    <3>3. QED
      BY <3>1, <3>2, <1>3 DEF RegisteredPairs
  <2>3. QED
    BY <2>2, <1>4, FS_AddElement DEF CountInv
<1> QED
  BY <1>1, <1>3, <1>4, <1>5, <1>6, <1>7

\* A step that registers and drops nothing.
LEMMA RegistryKept ==
    ASSUME RegistryInv, CountInv, UNCHANGED <<events, armed, pending>>,
           \A c \in Fibers : (phase[c] = "waiting" <=> phase'[c] = "waiting")
                             /\ (phase[c] = "waiting" => ctx'[c] = ctx[c])
    PROVE  RegistryInv' /\ CountInv'
<1>1. \A c, x : Waits(c, x)' <=> Waits(c, x)
  BY DEF Waits
<1>2. RegistryInv'
  BY <1>1 DEF RegistryInv
<1>3. RegisteredPairs' = RegisteredPairs
  BY DEF RegisteredPairs
<1>4. CountInv'
  BY <1>3 DEF CountInv
<1> QED
  BY <1>2, <1>4

-----------------------------------------------------------------------------
\* What the calls of epoll_ctl leave in the kernel.
Told(x, after) ==
    \/ interest' = [interest EXCEPT ![Fd(x)] = NoInterest]
    \/ interest' = [interest EXCEPT ![Fd(x)] = [ptr |-> x, mask |-> after]]

\* After epoll_ctl the kernel has what is registered of x, or nothing.
LEMMA KernelTold ==
    ASSUME KernelInv, RegistryInv, NEW x \in Contexts, NEW after \in SUBSET Event,
           Told(x, after),
           RegistryInv', after \subseteq events'[x],
           \A y \in Contexts : y # x => events'[y] = events[y]
    PROVE  KernelInv'
<1>1. Fd(x) \in Fds /\ interest \in [Fds -> [ptr : Contexts \cup {NoContext}, mask : SUBSET Event]]
  BY ContextPairs DEF KernelInv
<1>2. \/ interest' = [interest EXCEPT ![Fd(x)] = NoInterest]
      \/ interest' = [interest EXCEPT ![Fd(x)] = [ptr |-> x, mask |-> after]]
  BY DEF Told
<1>3. /\ NoInterest \in [ptr : Contexts \cup {NoContext}, mask : SUBSET Event]
      /\ [ptr |-> x, mask |-> after] \in [ptr : Contexts \cup {NoContext}, mask : SUBSET Event]
  BY DEF NoInterest
<1>4. interest' \in [Fds -> [ptr : Contexts \cup {NoContext}, mask : SUBSET Event]]
  BY <1>1, <1>2, <1>3
<1>5. ASSUME NEW fd \in Fds, interest'[fd] # NoInterest
      PROVE  /\ interest'[fd].ptr \in Contexts /\ Fd(interest'[fd].ptr) = fd
             /\ interest'[fd].mask \subseteq events'[interest'[fd].ptr]
  <2>1. CASE fd = Fd(x)
    <3>1. interest'[fd] = [ptr |-> x, mask |-> after]
      BY <1>1, <1>2, <1>5, <2>1
    <3>2. interest'[fd].ptr = x /\ interest'[fd].mask = after
      BY <3>1
    <3>3. QED
      BY <2>1, <3>2
  <2>2. CASE fd # Fd(x)
    <3>1. interest'[fd] = interest[fd]
      BY <1>1, <1>2, <2>2
    <3>2. interest[fd].ptr \in Contexts /\ Fd(interest[fd].ptr) = fd
          /\ interest[fd].mask \subseteq events[interest[fd].ptr]
      BY <3>1, <1>5 DEF KernelInv
    <3>3. events'[interest[fd].ptr] = events[interest[fd].ptr]
      BY <3>2, <2>2
    <3>4. QED
      BY <3>1, <3>2, <3>3
  <2>3. QED
    BY <2>1, <2>2
<1>6. QED
  BY <1>4, <1>5 DEF KernelInv

\* TriggerAll: what Dropped is about.
LEMMA Triggered ==
    ASSUME TableInv, RegistryInv, CountInv, NEW x \in Contexts, NEW set \in SUBSET events[x],
           TriggerAll(x, set), UNCHANGED <<size, gen, ctx>>
    PROVE  /\ TableInv' /\ RegistryInv' /\ CountInv'
           /\ events' = [events EXCEPT ![x] = @ \ set]
<1>1. \A c \in Fibers : phase[c] = "waiting" /\ ctx[c] = x => Fd(c) = Fd(x)
  BY DEF TableInv
<1>2. phase' = [c \in Fibers |-> IF Waits(c, x) /\ Ev(c) \in set THEN "woken" ELSE phase[c]]
  BY <1>1 DEF TriggerAll, Waits
<1>3. QED
  BY <1>2, Dropped DEF TriggerAll

\* Steps on the registry that tell the kernel what is left of x.
LEMMA DroppedAndTold ==
    ASSUME CountsInv, NEW x \in Contexts, NEW set \in SUBSET events[x],
           EpollShrink(x, events[x] \ set),
           TableInv', RegistryInv', CountInv',
           events' = [events EXCEPT ![x] = @ \ set]
    PROVE  TableInv' /\ RegistryInv' /\ CountInv' /\ KernelInv'
<1>1. events \in [Contexts -> SUBSET Event]
  BY DEF CountsInv, RegistryInv
<1>2. events[x] \ set \in SUBSET Event /\ events'[x] = events[x] \ set
      /\ \A y \in Contexts : y # x => events'[y] = events[y]
  BY <1>1
<1>3. Told(x, events[x] \ set)
  BY DEF EpollShrink, Told
<1>4. QED
  BY <1>2, <1>3, KernelTold DEF CountsInv

-----------------------------------------------------------------------------
\* Steps of add_event().
LEMMA LookupCounts ==
    ASSUME CountsInv, NEW c \in Fibers, AddLookup(c)
    PROVE  CountsInv'
<1>1. TableInv'
  <2>1. CASE InTable(Fd(c))
    <3>1. Current(Fd(c)) \in Contexts /\ Fd(Current(Fd(c))) = Fd(c)
      BY <2>1, CurrentContext, ContextPairs DEF CountsInv
    <3>2. QED
      BY <2>1, <3>1 DEF CountsInv, TableInv, AddLookup, InTable
  <2>2. CASE ~InTable(Fd(c))
    <3>1. Fd(c) >= 2
      BY <2>2, ContextPairs DEF CountsInv, TableInv, InTable
    <3>2. QED
      BY <2>2, <3>1 DEF CountsInv, TableInv, AddLookup, InTable
  <2>3. QED
    BY <2>1, <2>2
<1>2. RegistryInv' /\ CountInv'
  BY RegistryKept DEF CountsInv, TableInv, AddLookup
<1>3. KernelInv' /\ ReportInv'
  BY DEF CountsInv, KernelInv, ReportInv, Reported, AddLookup
<1>4. QED
  BY <1>1, <1>2, <1>3 DEF CountsInv

LEMMA ResizeCounts ==
    ASSUME CountsInv, NEW c \in Fibers, AddResize(c)
    PROVE  CountsInv'
<1> DEFINE n == NewSize(Fd(c))
           fresh == {fd \in Fds : size <= fd /\ fd < n}
<1>1. Fd(c) \in Nat /\ Fd(c) \in Fds /\ Fd(c) >= 2 /\ n \in Nat /\ n > Fd(c)
  BY ContextPairs, NewSizeLarger DEF CountsInv, TableInv, AddResize
<1>2. /\ size' = n /\ gen' = [fd \in Fds |-> IF fd \in fresh THEN gen[fd] + 1 ELSE gen[fd]]
      /\ \A fd \in fresh : gen[fd] < MaxGen
      /\ ctx' = [ctx EXCEPT ![c] = <<Fd(c), gen'[Fd(c)]>>]
      /\ phase' = [phase EXCEPT ![c] = "add"] /\ phase[c] = "resize"
      /\ UNCHANGED <<events, armed, pending, interest, report, failed>>
  BY DEF AddResize
<1> HIDE DEF n
<1>3. gen' \in [Fds -> 0..MaxGen] /\ \A fd \in Fds : fd < n => gen'[fd] >= 1
  BY <1>1, <1>2 DEF CountsInv, TableInv, InTable
<1>4. <<Fd(c), gen'[Fd(c)]>> \in Contexts /\ Fd(<<Fd(c), gen'[Fd(c)]>>) = Fd(c)
  <2>1. gen'[Fd(c)] \in 1..MaxGen
    BY <1>1, <1>3
  <2>2. QED
    BY <2>1, <1>1, ContextPairs
<1>5. TableInv'
  <2>1. PICK y \in Contexts : y = <<Fd(c), gen'[Fd(c)]>> /\ Fd(y) = Fd(c)
    BY <1>4
  <2>2. ctx' = [ctx EXCEPT ![c] = y]
    BY <1>2, <2>1
  <2>3. QED
    BY <1>1, <1>2, <1>3, <2>1, <2>2 DEF CountsInv, TableInv, InTable
<1>6. RegistryInv' /\ CountInv'
  BY <1>2, RegistryKept DEF CountsInv, TableInv
<1>7. KernelInv' /\ ReportInv'
  BY <1>2 DEF CountsInv, KernelInv, ReportInv, Reported
<1>8. QED
  BY <1>5, <1>6, <1>7 DEF CountsInv

LEMMA AddCounts ==
    ASSUME CountsInv, NEW c \in Fibers, AddEvent(c)
    PROVE  CountsInv' /\ failed' = failed
<1>1. /\ TableInv' /\ RegistryInv' /\ CountInv' /\ failed' = failed
  BY Added DEF CountsInv, ReportInv
<1>2. PICK x \in Contexts : x = ctx[c]
  BY DEF CountsInv, TableInv, AddEvent
<1>3. events \in [Contexts -> SUBSET Event] /\ Ev(c) \in Event
  BY ContextPairs DEF CountsInv, RegistryInv
<1>4. /\ EpollAdd(x, events[x], events[x] \cup {Ev(c)})
      /\ events' = [events EXCEPT ![x] = @ \cup {Ev(c)}]
  BY <1>2 DEF AddEvent
<1>5. /\ events'[x] = events[x] \cup {Ev(c)} /\ events[x] \cup {Ev(c)} \in SUBSET Event
      /\ \A y \in Contexts : y # x => events'[y] = events[y]
  BY <1>3, <1>4
<1>6. KernelInv'
  <2>1. Told(x, events[x] \cup {Ev(c)})
    BY <1>4 DEF EpollAdd, Told
  <2>2. QED
    BY <1>1, <1>5, <2>1, KernelTold DEF CountsInv
<1>7. ReportInv'
  BY <1>1 DEF CountsInv, ReportInv, Reported, AddEvent
<1>8. QED
  BY <1>1, <1>6, <1>7 DEF CountsInv

LEMMA FiberCounts ==
    ASSUME CountsInv, NEW c \in Fibers, AddRefused(c) \/ Proceed(c)
    PROVE  CountsInv' /\ failed' = failed
<1>1. TableInv'
  BY DEF CountsInv, TableInv, AddRefused, Proceed, InTable
<1>2. RegistryInv' /\ CountInv'
  BY RegistryKept DEF CountsInv, TableInv, AddRefused, Proceed
<1>3. KernelInv'
  BY DEF CountsInv, KernelInv, AddRefused, Proceed
<1>4. failed' = failed
  <2>1. CASE AddRefused(c)
    <3>1. PICK x \in Contexts : x = ctx[c] /\ Fd(x) = Fd(c)
      BY <2>1 DEF CountsInv, TableInv, AddRefused
    <3>2. Ev(c) \in Event /\ c = <<Fd(x), Ev(c)>> /\ phase[c] # "waiting"
      BY <2>1, <3>1, ContextPairs DEF AddRefused
    <3>3. Ev(c) \notin events[x]
      BY <3>2 DEF CountsInv, RegistryInv, Waits
    <3>4. QED
      BY <2>1, <3>1, <3>3 DEF AddRefused, CountsInv, ReportInv
  <2>2. CASE Proceed(c)
    BY <2>2 DEF Proceed
  <2>3. QED
    BY <2>1, <2>2
<1>5. ReportInv'
  BY <1>4 DEF CountsInv, ReportInv, Reported, AddRefused, Proceed
<1>6. QED
  BY <1>1, <1>2, <1>3, <1>4, <1>5 DEF CountsInv

\* del_event(), cancel_event() and cancel_all().
LEMMA RemoveCounts ==
    ASSUME CountsInv, NEW fd \in Fds,
           CancelAll(fd) \/ \E e \in Event : DelEvent(fd, e) \/ CancelEvent(fd, e)
    PROVE  CountsInv'
<1>1. InTable(fd) /\ UNCHANGED <<size, gen, ctx, report, failed>>
  BY DEF CancelAll, DelEvent, CancelEvent
<1>2. PICK x \in Contexts : x = Current(fd) /\ Fd(x) = fd
  BY <1>1, CurrentContext DEF CountsInv
<1>3. ReportInv'
  BY <1>1 DEF CountsInv, ReportInv, Reported
<1>4. ASSUME NEW set \in SUBSET events[x], EpollShrink(x, events[x] \ set), TriggerAll(x, set)
      PROVE  CountsInv'
  <2>1. TableInv' /\ RegistryInv' /\ CountInv' /\ events' = [events EXCEPT ![x] = @ \ set]
    BY <1>1, <1>4, Triggered DEF CountsInv
  <2>2. QED
    BY <1>3, <1>4, <2>1, DroppedAndTold DEF CountsInv
<1>5. CASE CancelAll(fd)
  <2>1. EpollShrink(x, events[x] \ events[x]) /\ TriggerAll(x, events[x])
    <3>1. events[x] \ events[x] = {}
      OBVIOUS
    <3>2. QED
      BY <1>2, <1>5, <3>1 DEF CancelAll
  <2>2. QED
    BY <1>4, <2>1
<1>6. ASSUME NEW e \in Event, CancelEvent(fd, e) PROVE CountsInv'
  <2>1. /\ {e} \in SUBSET events[x]
        /\ EpollShrink(x, events[x] \ {e}) /\ TriggerAll(x, {e})
    BY <1>2, <1>6 DEF CancelEvent
  <2>2. QED
    BY <1>4, <2>1
<1>7. ASSUME NEW e \in Event, DelEvent(fd, e) PROVE CountsInv'
  <2>1. PICK set : set = {e}
    OBVIOUS
  <2>2. /\ set \in SUBSET events[x]
        /\ EpollShrink(x, events[x] \ set)
        /\ events' = [events EXCEPT ![x] = @ \ set]
        /\ armed' = ContextsLeft(x, set) /\ pending' = PendingLeft(set)
    BY <1>2, <1>7, <2>1 DEF DelEvent
  <2>3. phase' = [c \in Fibers |-> IF Waits(c, x) /\ Ev(c) \in set THEN "idle" ELSE phase[c]]
    <3>1. \A c \in Fibers : Waits(c, x) /\ Ev(c) \in set
                              <=> c = <<fd, e>> /\ ctx[c] = x /\ phase[c] = "waiting"
      <4>1. SUFFICES ASSUME NEW c \in Fibers, phase[c] = "waiting", ctx[c] = x
                     PROVE  Ev(c) \in set <=> c = <<fd, e>>
        BY DEF Waits
      <4>2. Fd(c) = fd /\ c = <<Fd(c), Ev(c)>>
        BY <4>1, <1>2, ContextPairs DEF CountsInv, TableInv
      <4>3. QED
        BY <4>2, <2>1
    <3>2. QED
      BY <3>1, <1>2, <1>7 DEF DelEvent
  <2>4. TableInv' /\ RegistryInv' /\ CountInv'
    BY <1>1, <2>2, <2>3, Dropped DEF CountsInv
  <2>5. QED
    BY <1>3, <2>2, <2>4, DroppedAndTold DEF CountsInv
<1>8. QED
  BY <1>5, <1>6, <1>7

\* epoll_wait() and the dispatch of its reports.
LEMMA ReportCounts ==
    ASSUME CountsInv, NEW d \in Dispatchers, NEW fd \in Fds, EpollWait(d, fd)
    PROVE  CountsInv'
<1>1. /\ interest[fd] # NoInterest /\ interest[fd].ptr \in Contexts
      /\ UNCHANGED <<size, gen, events, armed, pending, interest, phase, ctx, failed>>
  BY DEF CountsInv, KernelInv, EpollWait
<1>2. PICK mask \in SUBSET interest[fd].mask, err \in BOOLEAN :
        report' = [report EXCEPT ![d] = [ptr |-> interest[fd].ptr, mask |-> mask, err |-> err]]
  BY DEF EpollWait
<1>3. mask \in SUBSET Event
  BY DEF CountsInv, KernelInv
<1>4. ReportInv'
  BY <1>1, <1>2, <1>3 DEF CountsInv, ReportInv, Reported
<1>5. TableInv' /\ KernelInv'
  BY <1>1 DEF CountsInv, TableInv, KernelInv, InTable
<1>6. RegistryInv' /\ CountInv'
  BY <1>1, RegistryKept DEF CountsInv
<1>7. QED
  BY <1>4, <1>5, <1>6 DEF CountsInv

LEMMA NothingCounts ==
    ASSUME CountsInv, NEW d \in Dispatchers, DispatchNothing(d)
    PROVE  CountsInv'
<1>1. /\ report' = [report EXCEPT ![d] = NoReport]
      /\ UNCHANGED <<size, gen, events, armed, pending, interest, phase, ctx, failed>>
  BY DEF DispatchNothing, Done
<1>2. ReportInv'
  BY <1>1 DEF CountsInv, ReportInv, Reported, NoReport, NoContext
<1>3. TableInv' /\ KernelInv'
  BY <1>1 DEF CountsInv, TableInv, KernelInv, InTable
<1>4. RegistryInv' /\ CountInv'
  BY <1>1, RegistryKept DEF CountsInv
<1>5. QED
  BY <1>2, <1>3, <1>4 DEF CountsInv

LEMMA DispatchCounts ==
    ASSUME CountsInv, NEW d \in Dispatchers, Dispatch(d)
    PROVE  CountsInv'
<1>1. PICK x \in Contexts : x = report[d].ptr
  BY DEF CountsInv, ReportInv, Dispatch
<1>2. PICK real : real = RealEvents(report[d])
  OBVIOUS
<1>3. /\ EpollShrink(x, events[x] \ real)
      /\ failed' = (failed \/ ~(real \subseteq events[x]))
      /\ IF real \subseteq events[x]
         THEN TriggerAll(x, real)
         ELSE UNCHANGED <<events, armed, pending, phase>>
      /\ report' = [report EXCEPT ![d] = NoReport]
      /\ UNCHANGED <<size, gen, ctx>>
  BY <1>1, <1>2 DEF Dispatch, Done
<1>4. ReportInv'
  BY <1>3 DEF CountsInv, ReportInv, Reported, NoReport, NoContext
<1>5. CASE real \subseteq events[x]
  <2>1. TableInv' /\ RegistryInv' /\ CountInv' /\ events' = [events EXCEPT ![x] = @ \ real]
    BY <1>3, <1>5, Triggered DEF CountsInv
  <2>2. KernelInv'
    BY <1>3, <1>5, <2>1, DroppedAndTold
  <2>3. QED
    BY <1>4, <2>1, <2>2 DEF CountsInv
<1>6. CASE ~(real \subseteq events[x])
  <2>1. UNCHANGED <<events, armed, pending, phase, size, gen, ctx>>
    BY <1>3, <1>6
  <2>2. TableInv' /\ RegistryInv' /\ CountInv'
    BY <2>1, RegistryKept DEF CountsInv, TableInv, InTable
  <2>3. KernelInv'
    <3>1. events[x] \ real \in SUBSET Event
      BY DEF CountsInv, RegistryInv
    <3>2. Told(x, events[x] \ real)
      BY <1>3 DEF EpollShrink, Told
    <3>3. QED
      BY <2>1, <2>2, <3>1, <3>2, KernelTold DEF CountsInv
  <2>4. QED
    BY <1>4, <2>2, <2>3 DEF CountsInv
<1>7. QED
  BY <1>5, <1>6

-----------------------------------------------------------------------------
LEMMA NextCounts == CountsInv /\ [Next]_vars => CountsInv'
<1> SUFFICES ASSUME CountsInv, [Next]_vars PROVE CountsInv'
  OBVIOUS
<1>1. ASSUME NEW c \in Fibers,
             AddLookup(c) \/ AddResize(c) \/ AddEvent(c) \/ AddRefused(c) \/ Proceed(c)
      PROVE  CountsInv'
  BY <1>1, LookupCounts, ResizeCounts, AddCounts, FiberCounts
<1>2. ASSUME NEW fd \in Fds,
             CancelAll(fd) \/ \E e \in Event : DelEvent(fd, e) \/ CancelEvent(fd, e)
      PROVE  CountsInv'
  BY <1>2, RemoveCounts
<1>3. ASSUME NEW d \in Dispatchers,
             DispatchNothing(d) \/ Dispatch(d) \/ \E fd \in Fds : EpollWait(d, fd)
      PROVE  CountsInv'
  BY <1>3, ReportCounts, NothingCounts, DispatchCounts
<1>4. CASE UNCHANGED vars
  <2>1. RegistryInv' /\ CountInv'
    BY <1>4, RegistryKept DEF CountsInv, vars
  <2>2. TableInv' /\ KernelInv' /\ ReportInv'
    BY <1>4 DEF CountsInv, vars, TableInv, KernelInv, ReportInv, Reported, InTable
  <2>3. QED
    BY <2>1, <2>2 DEF CountsInv
<1>5. QED
  BY <1>1, <1>2, <1>3, <1>4 DEF Next

\* m_pending_event_count is the number of registered events, whatever races: no
\* event is counted twice or forgotten, even when an assertion would have failed
\* (IOManager::add_event, del_event, cancel_event, cancel_all, idle).
THEOREM CountsCorrect ==
    ASSUME Zeroed
    PROVE  Spec => []PendingCounts
<1>1. CountsInv => PendingCounts
  BY DEF CountsInv, CountInv, RegisteredPairs, PendingCounts
<1>2. QED
  BY InitCounts, NextCounts, <1>1, PTL DEF Spec

-----------------------------------------------------------------------------
\* Of a descriptor that other fibers cancel, or that several threads get reports
\* of, one event at most is waited for.  With two the assertion of
\* trigger_event() can fail (MCFdCancelRace.cfg).
OneWaiterWhereRacy ==
    \A c, d \in Fibers : Fd(c) = Fd(d) /\ Fd(c) \in Racy => c = d

\* The events a report holds are still registered where nobody else removes
\* them, and in any case are such as fibers wait for.
FreshInv ==
    /\ ~failed
    /\ \A d \in Dispatchers : Reported(d) =>
         /\ \A e \in report[d].mask : <<Fd(report[d].ptr), e>> \in Fibers
         /\ Fd(report[d].ptr) \notin Racy => report[d].mask \subseteq events[report[d].ptr]
    /\ \A b, d \in Dispatchers :
         Reported(b) /\ Reported(d) /\ report[b].ptr = report[d].ptr
         /\ Fd(report[d].ptr) \notin Racy => b = d

\* The inductive invariant of AssertsHold.
AssertsInv == CountsInv /\ FreshInv

LEMMA InitAsserts == Zeroed /\ Init => AssertsInv
BY InitCounts DEF AssertsInv, FreshInv, Init, Reported

\* A step that makes no report and removes nothing from a quiet descriptor.
LEMMA FreshKept ==
    ASSUME FreshInv, ReportInv, report' = report, failed' = failed,
           \A x \in Contexts : Fd(x) \notin Racy => events[x] \subseteq events'[x]
    PROVE  FreshInv'
<1>1. \A d \in Dispatchers : Reported(d)' = Reported(d)
  BY DEF Reported
<1>2. \A d \in Dispatchers : Reported(d) => report[d].ptr \in Contexts
  BY DEF ReportInv
<1>3. QED
  BY <1>1, <1>2 DEF FreshInv

\* What a dispatcher triggers is registered.
LEMMA RealRegistered ==
    ASSUME OneWaiterWhereRacy, AssertsInv, NEW d \in Dispatchers, Reported(d),
           events[report[d].ptr] \cap RealEvents(report[d]) # {}
    PROVE  RealEvents(report[d]) \subseteq events[report[d].ptr]
<1>1. PICK x \in Contexts : x = report[d].ptr /\ Fd(x) \in Fds
  BY ContextPairs DEF AssertsInv, CountsInv, ReportInv
<1>2. report[d].mask \subseteq Event /\ events[x] \subseteq Event
  BY DEF AssertsInv, CountsInv, ReportInv, RegistryInv
<1>3. RealEvents(report[d]) \subseteq report[d].mask \cup events[x]
  BY <1>1 DEF RealEvents
<1>4. CASE Fd(x) \notin Racy
  BY <1>1, <1>3, <1>4 DEF AssertsInv, FreshInv
<1>5. CASE Fd(x) \in Racy
  <2>1. \A e \in RealEvents(report[d]) : e \in Event /\ <<Fd(x), e>> \in Fibers
    BY <1>1, <1>2, <1>3 DEF AssertsInv, CountsInv, FreshInv, RegistryInv, Waits
  <2>2. PICK a \in Event : a \in events[x] /\ a \in RealEvents(report[d])
    BY <1>1, <1>2
  <2>3. ASSUME NEW e \in RealEvents(report[d]) PROVE e = a
    <3>1. <<Fd(x), e>> \in Fibers /\ <<Fd(x), a>> \in Fibers /\ e \in Event
      BY <2>1, <2>2
    <3>2. <<Fd(x), e>> = <<Fd(x), a>>
      BY <3>1, <1>1, <1>5, ContextPairs DEF OneWaiterWhereRacy
    <3>3. QED
      BY <3>2
  <2>4. QED
    BY <1>1, <2>2, <2>3
<1>6. QED
  BY <1>4, <1>5

LEMMA WaitAsserts ==
    ASSUME AssertsInv, NEW d \in Dispatchers, NEW fd \in Fds, EpollWait(d, fd)
    PROVE  FreshInv'
<1>1. PICK x \in Contexts : x = interest[fd].ptr /\ Fd(x) = fd
  BY DEF AssertsInv, CountsInv, KernelInv, EpollWait
<1>2. interest[fd].mask \subseteq events[x]
  BY <1>1 DEF AssertsInv, CountsInv, KernelInv, EpollWait
<1>3. PICK mask \in SUBSET interest[fd].mask, err \in BOOLEAN :
        report' = [report EXCEPT ![d] = [ptr |-> x, mask |-> mask, err |-> err]]
  BY <1>1 DEF EpollWait
<1>4. /\ report' \in [Dispatchers -> [ptr : Contexts \cup {NoContext}, mask : SUBSET Event, err : BOOLEAN]]
      /\ report'[d].ptr = x /\ report'[d].mask = mask
      /\ \A b \in Dispatchers : b # d => report'[b] = report[b]
      /\ UNCHANGED <<events, failed>>
  BY <1>2, <1>3 DEF AssertsInv, CountsInv, ReportInv, RegistryInv, EpollWait
<1>5. \A e \in mask : <<Fd(x), e>> \in Fibers
  BY <1>2 DEF AssertsInv, CountsInv, RegistryInv, Waits
<1>6. Fd(x) \in Racy \/ \A b \in Dispatchers : report[b].ptr # x
  BY <1>1 DEF EpollWait
<1>7. \A b \in Dispatchers : b # d => Reported(b)' = Reported(b)
  BY <1>4 DEF Reported
<1>8. QED
  BY <1>2, <1>4, <1>5, <1>6, <1>7 DEF AssertsInv, FreshInv

LEMMA NothingAsserts ==
    ASSUME AssertsInv, NEW d \in Dispatchers, DispatchNothing(d)
    PROVE  FreshInv'
<1>1. /\ report' = [report EXCEPT ![d] = NoReport] /\ UNCHANGED <<events, failed>>
  BY DEF DispatchNothing, Done
<1>2. ~Reported(d)' /\ \A b \in Dispatchers : b # d => report'[b] = report[b] /\ Reported(b)' = Reported(b)
  BY <1>1 DEF Reported, AssertsInv, CountsInv, ReportInv
<1>3. QED
  BY <1>1, <1>2 DEF AssertsInv, FreshInv

LEMMA DispatchAsserts ==
    ASSUME OneWaiterWhereRacy, AssertsInv, NEW d \in Dispatchers, Dispatch(d)
    PROVE  FreshInv' /\ RealEvents(report[d]) \subseteq events[report[d].ptr]
<1>1. PICK x \in Contexts : x = report[d].ptr
  BY DEF AssertsInv, CountsInv, ReportInv, Dispatch
<1>2. RealEvents(report[d]) \subseteq events[x]
  BY <1>1, RealRegistered DEF Dispatch
<1>3. /\ failed' = failed /\ report' = [report EXCEPT ![d] = NoReport]
      /\ events' = [events EXCEPT ![x] = @ \ RealEvents(report[d])]
  <2>1. PICK real : real = RealEvents(report[d])
    OBVIOUS
  <2>2. /\ failed' = (failed \/ ~(real \subseteq events[x])) /\ report' = [report EXCEPT ![d] = NoReport]
        /\ real \subseteq events[x] => events' = [events EXCEPT ![x] = @ \ real]
    BY <1>1, <2>1 DEF Dispatch, TriggerAll, Done
  <2>3. real \subseteq events[x] /\ failed = FALSE
    BY <1>2, <2>1 DEF AssertsInv, CountsInv, ReportInv, FreshInv
  <2>4. QED
    BY <2>1, <2>2, <2>3
<1>4. ~Reported(d)' /\ \A b \in Dispatchers : b # d => report'[b] = report[b] /\ Reported(b)' = Reported(b)
  BY <1>3 DEF Reported, AssertsInv, CountsInv, ReportInv
<1>5. \A y \in Contexts : y # x => events'[y] = events[y]
  BY <1>3 DEF AssertsInv, CountsInv, RegistryInv
<1>6. \A b \in Dispatchers : b # d /\ Reported(b) =>
        report[b].ptr \in Contexts /\ (report[b].ptr = x => Fd(x) \in Racy)
  BY <1>1 DEF AssertsInv, CountsInv, ReportInv, FreshInv, Dispatch
<1>7. FreshInv'
  BY <1>3, <1>4, <1>5, <1>6 DEF AssertsInv, FreshInv
<1>8. QED
  BY <1>1, <1>2, <1>7

LEMMA NextAsserts == OneWaiterWhereRacy /\ AssertsInv /\ [Next]_vars => AssertsInv'
<1> SUFFICES ASSUME OneWaiterWhereRacy, AssertsInv, [Next]_vars PROVE AssertsInv'
  OBVIOUS
<1>1. CountsInv'
  BY NextCounts DEF AssertsInv
<1>2. FreshInv /\ ReportInv /\ events \in [Contexts -> SUBSET Event]
  BY DEF AssertsInv, CountsInv, RegistryInv
<1>3. ASSUME NEW c \in Fibers, AddLookup(c) \/ AddResize(c) PROVE FreshInv'
  BY <1>2, <1>3, FreshKept DEF AddLookup, AddResize
<1>4. ASSUME NEW c \in Fibers, AddEvent(c) PROVE FreshInv'
  <2>1. failed' = failed
    BY <1>4, AddCounts DEF AssertsInv
  <2>2. /\ report' = report /\ events' = [events EXCEPT ![ctx[c]] = @ \cup {Ev(c)}]
    BY <1>4 DEF AddEvent
  <2>3. \A x \in Contexts : events[x] \subseteq events'[x]
    BY <1>2, <2>2
  <2>4. QED
    BY <1>2, <2>1, <2>2, <2>3, FreshKept
<1>5. ASSUME NEW c \in Fibers, AddRefused(c) \/ Proceed(c) PROVE FreshInv'
  <2>1. failed' = failed
    BY <1>5, FiberCounts DEF AssertsInv
  <2>2. QED
    BY <1>2, <1>5, <2>1, FreshKept DEF AddRefused, Proceed
<1>6. ASSUME NEW fd \in Fds,
             CancelAll(fd) \/ \E e \in Event : DelEvent(fd, e) \/ CancelEvent(fd, e)
      PROVE  FreshInv'
  <2>1. /\ fd \in Racy /\ InTable(fd) /\ report' = report /\ failed' = failed
        /\ \E set : events' = [events EXCEPT ![Current(fd)] = @ \ set]
    BY <1>6 DEF CancelAll, DelEvent, CancelEvent, TriggerAll
  <2>2. Fd(Current(fd)) = fd
    BY <2>1, CurrentContext DEF AssertsInv, CountsInv
  <2>3. \A x \in Contexts : Fd(x) \notin Racy => events'[x] = events[x]
    BY <1>2, <2>1, <2>2
  <2>4. QED
    BY <1>2, <2>1, <2>3, FreshKept
<1>7. ASSUME NEW d \in Dispatchers,
             DispatchNothing(d) \/ Dispatch(d) \/ \E fd \in Fds : EpollWait(d, fd)
      PROVE  FreshInv'
  BY <1>7, WaitAsserts, NothingAsserts, DispatchAsserts
<1>8. ASSUME UNCHANGED vars PROVE FreshInv'
  <2>1. events' = events /\ report' = report /\ failed' = failed
    BY <1>8 DEF vars
  <2>2. QED
    BY <1>2, <2>1, FreshKept
<1>9. FreshInv'
  <2>1. ASSUME NEW c \in Fibers,
               AddLookup(c) \/ AddResize(c) \/ AddEvent(c) \/ AddRefused(c) \/ Proceed(c)
        PROVE  FreshInv'
    BY <2>1, <1>3, <1>4, <1>5
  <2>2. QED
    BY <2>1, <1>6, <1>7, <1>8 DEF Next
<1>10. QED
  BY <1>1, <1>9 DEF AssertsInv

\* The assertions of add_event() and trigger_event() hold: no event is
\* registered twice and only a registered one is triggered, although a thread
\* acts on a report after the registry has changed (IOManager::idle,
\* FdContext::trigger_event).
THEOREM AssertsCorrect ==
    ASSUME Zeroed, OneWaiterWhereRacy
    PROVE  Spec => []AssertsHold
<1>1. AssertsInv => AssertsHold
  BY DEF AssertsInv, FreshInv, AssertsHold
<1>2. QED
  BY InitAsserts, NextAsserts, <1>1, PTL DEF Spec

-----------------------------------------------------------------------------
\* Fibers wait on one descriptor at most beyond the first table: with two, the
\* resize of one may shrink the table the other has grown.
OneFarDescriptor ==
    \A c, d \in Fibers : Fd(c) >= FirstSize /\ Fd(d) >= FirstSize => Fd(c) = Fd(d)

\* The table only grows, so a descriptor has one context for good,
GrowInv ==
    /\ size >= FirstSize
    /\ \A c \in Fibers : Fd(c) >= FirstSize => size \in {FirstSize, NewSize(Fd(c))}
    /\ \A fd \in Fds : gen[fd] = IF InTable(fd) THEN 1 ELSE 0
    /\ \A c \in Fibers : phase[c] = "resize" => Fd(c) >= FirstSize
    /\ \A c \in Fibers : phase[c] \in {"add", "waiting"} =>
         InTable(Fd(c)) /\ ctx[c] = <<Fd(c), 1>>

\* and the kernel has exactly what is registered there.
ExactInv ==
    \A fd \in Fds : LET x == <<fd, 1>>
                    IN  interest[fd] = IF events[x] = {} THEN NoInterest
                                       ELSE [ptr |-> x, mask |-> events[x]]

\* The inductive invariant of WaitersFound.
FoundInv == AssertsInv /\ GrowInv /\ ExactInv

LEMMA FirstContexts ==
    \A fd \in Fds : <<fd, 1>> \in Contexts /\ Fd(<<fd, 1>>) = fd
BY ContextPairs

LEMMA InitFound == Zeroed /\ Init => FoundInv
<1> SUFFICES ASSUME Zeroed, Init PROVE FoundInv
  OBVIOUS
<1>1. AssertsInv
  BY InitAsserts
<1>2. GrowInv
  BY DEF Init, GrowInv, InTable
<1>3. \A x \in Contexts : events[x] = {}
  BY DEF Init, Zeroed
<1>4. ExactInv
  BY <1>3, FirstContexts DEF Init, ExactInv
<1>5. QED
  BY <1>1, <1>2, <1>4 DEF FoundInv

\* Only contexts that are first ones have registered events.
LEMMA FirstOnly ==
    ASSUME FoundInv, NEW x \in Contexts, events[x] # {}
    PROVE  x = <<Fd(x), 1>>
<1>1. PICK e \in Event : Waits(<<Fd(x), e>>, x)
  BY DEF FoundInv, AssertsInv, CountsInv, RegistryInv
<1>2. Fd(<<Fd(x), e>>) = Fd(x)
  BY ContextPairs
<1>3. QED
  BY <1>1, <1>2 DEF FoundInv, GrowInv, Waits

\* Registry and kernel change together.
LEMMA ExactKept ==
    ASSUME FoundInv, NEW fd \in Fds, NEW after \in SUBSET Event,
           events' = [events EXCEPT ![<<fd, 1>>] = after],
           interest' = [interest EXCEPT ![fd] =
                         IF after = {} THEN NoInterest ELSE [ptr |-> <<fd, 1>>, mask |-> after]]
    PROVE  ExactInv'
<1>1. /\ events \in [Contexts -> SUBSET Event]
      /\ interest \in [Fds -> [ptr : Contexts \cup {NoContext}, mask : SUBSET Event]]
  BY DEF FoundInv, AssertsInv, CountsInv, RegistryInv, KernelInv
<1> SUFFICES ASSUME NEW gd \in Fds
             PROVE  interest'[gd] = IF events'[<<gd, 1>>] = {} THEN NoInterest
                                    ELSE [ptr |-> <<gd, 1>>, mask |-> events'[<<gd, 1>>]]
  BY DEF ExactInv
<1>2. CASE gd = fd
  <2>1. events'[<<fd, 1>>] = after
    BY <1>1, FirstContexts
  <2>2. interest'[fd] = IF after = {} THEN NoInterest ELSE [ptr |-> <<fd, 1>>, mask |-> after]
    BY <1>1
  <2>3. QED
    BY <1>2, <2>1, <2>2
<1>3. CASE gd # fd
  <2>1. PICK x \in Contexts, y \in Contexts : x = <<fd, 1>> /\ y = <<gd, 1>> /\ x # y
    BY <1>3, FirstContexts
  <2>2. events'[y] = events[y]
    BY <1>1, <2>1
  <2>3. interest'[gd] = interest[gd]
    BY <1>1, <1>3
  <2>4. interest[gd] = IF events[y] = {} THEN NoInterest ELSE [ptr |-> y, mask |-> events[y]]
    BY <2>1 DEF FoundInv, ExactInv
  <2>5. QED
    BY <2>1, <2>2, <2>3, <2>4
<1>4. QED
  BY <1>2, <1>3

-----------------------------------------------------------------------------
\* The table and the contexts fibers work on.
LEMMA NextGrow ==
    ASSUME Zeroed, OneFarDescriptor, FoundInv, CountsInv', [Next]_vars
    PROVE  GrowInv'
<1> USE DEF FoundInv, AssertsInv, CountsInv
<1>1. ASSUME UNCHANGED <<size, gen, ctx>>,
             \A c \in Fibers : phase'[c] \in {phase[c], "idle", "woken"} \/ (phase[c] = "add" /\ phase'[c] = "waiting")
      PROVE  GrowInv'
  <2>1. \A fd : InTable(fd)' <=> InTable(fd)
    BY <1>1 DEF InTable
  <2>2. QED
    BY <1>1, <2>1 DEF GrowInv
<1>2. ASSUME NEW c \in Fibers, AddLookup(c) PROVE GrowInv'
  <2>1. Fd(c) \in Fds /\ Fd(c) \in Nat
    BY ContextPairs
  <2>2. CASE InTable(Fd(c))
    <3>1. Current(Fd(c)) = <<Fd(c), 1>>
      BY <2>1, <2>2 DEF Current, GrowInv
    <3>2. QED
      BY <1>2, <2>2, <3>1 DEF AddLookup, GrowInv, InTable, TableInv
  <2>3. CASE ~InTable(Fd(c))
    <3>1. Fd(c) >= FirstSize
      BY <2>1, <2>3 DEF InTable, GrowInv, TableInv
    <3>2. QED
      BY <1>2, <2>3, <3>1 DEF AddLookup, GrowInv, InTable, TableInv
  <2>4. QED
    BY <2>2, <2>3
<1>3. ASSUME NEW c \in Fibers, AddResize(c) PROVE GrowInv'
  <2> DEFINE n == NewSize(Fd(c))
             fresh == {fd \in Fds : size <= fd /\ fd < n}
  <2>1. /\ Fd(c) \in Nat /\ Fd(c) \in Fds /\ Fd(c) >= FirstSize /\ n \in Nat /\ n > Fd(c)
        /\ size \in {FirstSize, n} /\ size \in Nat
    BY <1>3, ContextPairs, NewSizeLarger DEF AddResize, GrowInv, TableInv
  <2>2. /\ size' = n /\ gen' = [fd \in Fds |-> IF fd \in fresh THEN gen[fd] + 1 ELSE gen[fd]]
        /\ ctx' = [ctx EXCEPT ![c] = <<Fd(c), gen'[Fd(c)]>>]
        /\ phase' = [phase EXCEPT ![c] = "add"] /\ phase[c] = "resize"
    BY <1>3 DEF AddResize
  <2>3. \A d \in Fibers : Fd(d) \in Nat /\ (Fd(d) >= FirstSize => Fd(d) = Fd(c))
    BY <2>1, ContextPairs DEF OneFarDescriptor
  <2>4. \A d \in Fibers : Fd(d) >= FirstSize => size' = NewSize(Fd(d))
    BY <2>2, <2>3
  <2> HIDE DEF n
  <2>5. \A fd \in Fds : gen'[fd] = IF fd < n THEN 1 ELSE 0
    BY <2>1, <2>2 DEF GrowInv, InTable
  <2>6. n >= FirstSize /\ n >= size
    BY <2>1
  <2>7. \A d \in Fibers : phase'[d] \in {"add", "waiting"} => Fd(d) < n /\ ctx'[d] = <<Fd(d), 1>>
    <3>1. gen'[Fd(c)] = 1
      BY <2>1, <2>5
    <3>2. \A d \in Fibers : d # c /\ phase[d] \in {"add", "waiting"} => Fd(d) < size /\ ctx[d] = <<Fd(d), 1>>
      BY DEF GrowInv, InTable
    <3>3. \A d \in Fibers : d # c => phase'[d] = phase[d] /\ ctx'[d] = ctx[d]
      BY <2>2 DEF TableInv
    <3>4. ctx'[c] = <<Fd(c), 1>>
      BY <2>2, <3>1 DEF TableInv
    <3>5. QED
      BY <2>1, <2>3, <2>6, <3>2, <3>3, <3>4
  <2>8. \A d \in Fibers : phase'[d] = "resize" => Fd(d) >= FirstSize
    BY <2>2 DEF TableInv, GrowInv
  <2>9. QED
    BY <2>2, <2>4, <2>5, <2>6, <2>7, <2>8 DEF GrowInv, InTable
<1>4. ASSUME NEW c \in Fibers, AddEvent(c) PROVE GrowInv'
  BY <1>1, <1>4 DEF AddEvent, TableInv
<1>5. ASSUME NEW c \in Fibers, AddRefused(c) \/ Proceed(c) PROVE GrowInv'
  BY <1>5 DEF AddRefused, Proceed, TableInv, GrowInv, InTable
<1>6. ASSUME NEW fd \in Fds,
             CancelAll(fd) \/ \E e \in Event : DelEvent(fd, e) \/ CancelEvent(fd, e)
      PROVE  GrowInv'
  BY <1>1, <1>6 DEF CancelAll, DelEvent, CancelEvent, TriggerAll
<1>7. ASSUME NEW d \in Dispatchers,
             DispatchNothing(d) \/ Dispatch(d) \/ \E fd \in Fds : EpollWait(d, fd)
      PROVE  GrowInv'
  BY <1>1, <1>7 DEF DispatchNothing, Dispatch, EpollWait, TriggerAll
<1>8. CASE UNCHANGED vars
  BY <1>1, <1>8 DEF vars
<1>9. QED
  <2>1. ASSUME NEW c \in Fibers,
               AddLookup(c) \/ AddResize(c) \/ AddEvent(c) \/ AddRefused(c) \/ Proceed(c)
        PROVE  GrowInv'
    BY <2>1, <1>2, <1>3, <1>4, <1>5
  <2>2. QED
    BY <2>1, <1>6, <1>7, <1>8 DEF Next

\* epoll_ctl is told what has changed in the registry.
LEMMA NextExact ==
    ASSUME OneWaiterWhereRacy, FoundInv, [Next]_vars
    PROVE  ExactInv'
<1>1. events \in [Contexts -> SUBSET Event]
  BY DEF FoundInv, AssertsInv, CountsInv, RegistryInv
<1>2. ASSUME UNCHANGED <<events, interest>> PROVE ExactInv'
  BY <1>2 DEF FoundInv, ExactInv
<1>3. ASSUME NEW x \in Contexts, NEW set \in SUBSET events[x], events[x] # {},
             EpollShrink(x, events[x] \ set), events' = [events EXCEPT ![x] = @ \ set]
      PROVE  ExactInv'
  <2>1. x = <<Fd(x), 1>> /\ Fd(x) \in Fds /\ events[x] \ set \in SUBSET Event
    BY <1>1, <1>3, FirstOnly, ContextPairs
  <2>2. PICK after \in SUBSET Event : after = events[x] \ set
    BY <2>1
  <2>3. PICK fd \in Fds : fd = Fd(x)
    BY <2>1
  <2>4. /\ events' = [events EXCEPT ![<<fd, 1>>] = after]
        /\ interest' = [interest EXCEPT ![fd] =
                         IF after = {} THEN NoInterest ELSE [ptr |-> <<fd, 1>>, mask |-> after]]
    BY <1>3, <2>1, <2>2, <2>3 DEF EpollShrink
  <2>5. QED
    BY <2>4, ExactKept
<1>4. ASSUME NEW c \in Fibers, AddEvent(c) PROVE ExactInv'
  <2>1. Fd(c) \in Fds /\ Ev(c) \in Event /\ ctx[c] = <<Fd(c), 1>>
    BY <1>4, ContextPairs DEF AddEvent, FoundInv, GrowInv
  <2>2. PICK fd \in Fds, x \in Contexts : fd = Fd(c) /\ x = <<fd, 1>> /\ Fd(x) = fd
    BY <2>1, FirstContexts
  <2>3. PICK after \in SUBSET Event : after = events[x] \cup {Ev(c)} /\ after # {}
    <3>1. events[x] \cup {Ev(c)} \in SUBSET Event /\ events[x] \cup {Ev(c)} # {}
      BY <1>1, <2>1
    <3>2. QED
      BY <3>1
  <2>4. /\ events' = [events EXCEPT ![x] = after]
        /\ interest' = [interest EXCEPT ![fd] = [ptr |-> x, mask |-> after]]
    BY <1>4, <2>1, <2>2, <2>3 DEF AddEvent, EpollAdd
  <2>5. QED
    BY <2>2, <2>3, <2>4, ExactKept
<1>5. ASSUME NEW fd \in Fds,
             CancelAll(fd) \/ \E e \in Event : DelEvent(fd, e) \/ CancelEvent(fd, e)
      PROVE  ExactInv'
  <2>1. PICK x \in Contexts : x = Current(fd)
    BY <1>5, CurrentContext DEF CancelAll, DelEvent, CancelEvent, FoundInv, AssertsInv, CountsInv
  <2>2. CASE CancelAll(fd)
    <3>1. events[x] \ events[x] = {} /\ events[x] # {}
      BY <2>1, <2>2 DEF CancelAll
    <3>2. EpollShrink(x, events[x] \ events[x]) /\ events' = [events EXCEPT ![x] = @ \ events[x]]
      BY <2>1, <2>2, <3>1 DEF CancelAll, TriggerAll
    <3>3. QED
      BY <3>1, <3>2, <1>3
  <2>3. ASSUME NEW e \in Event, DelEvent(fd, e) \/ CancelEvent(fd, e) PROVE ExactInv'
    <3>1. /\ {e} \in SUBSET events[x] /\ events[x] # {}
          /\ EpollShrink(x, events[x] \ {e}) /\ events' = [events EXCEPT ![x] = @ \ {e}]
      BY <2>1, <2>3 DEF DelEvent, CancelEvent, TriggerAll
    <3>2. QED
      BY <3>1, <1>3
  <2>4. QED
    BY <1>5, <2>2, <2>3
<1>6. ASSUME NEW d \in Dispatchers, Dispatch(d) PROVE ExactInv'
  <2>1. PICK x \in Contexts : x = report[d].ptr
    BY <1>6 DEF Dispatch, FoundInv, AssertsInv, CountsInv, ReportInv
  <2>2. PICK real \in SUBSET events[x] : real = RealEvents(report[d])
    BY <1>6, <2>1, DispatchAsserts DEF FoundInv
  <2>3. EpollShrink(x, events[x] \ real) /\ events' = [events EXCEPT ![x] = @ \ real] /\ events[x] # {}
    BY <1>6, <2>1, <2>2 DEF Dispatch, TriggerAll
  <2>4. QED
    BY <2>3, <1>3
<1>7. ASSUME NEW c \in Fibers, AddLookup(c) \/ AddResize(c) \/ AddRefused(c) \/ Proceed(c)
      PROVE  ExactInv'
  BY <1>2, <1>7 DEF AddLookup, AddResize, AddRefused, Proceed
<1>8. ASSUME NEW d \in Dispatchers, DispatchNothing(d) \/ \E fd \in Fds : EpollWait(d, fd)
      PROVE  ExactInv'
  BY <1>2, <1>8 DEF DispatchNothing, EpollWait
<1>9. CASE UNCHANGED vars
  BY <1>2, <1>9 DEF vars
<1>10. QED
  <2>1. ASSUME NEW c \in Fibers,
               AddLookup(c) \/ AddResize(c) \/ AddEvent(c) \/ AddRefused(c) \/ Proceed(c)
        PROVE  ExactInv'
    BY <2>1, <1>4, <1>7
  <2>2. ASSUME NEW d \in Dispatchers,
               DispatchNothing(d) \/ Dispatch(d) \/ \E fd \in Fds : EpollWait(d, fd)
        PROVE  ExactInv'
    BY <2>2, <1>6, <1>8
  <2>3. QED
    BY <2>1, <2>2, <1>5, <1>9 DEF Next

LEMMA NextFound ==
    ASSUME Zeroed, OneWaiterWhereRacy, OneFarDescriptor
    PROVE  FoundInv /\ [Next]_vars => FoundInv'
<1> SUFFICES ASSUME FoundInv, [Next]_vars PROVE FoundInv'
  OBVIOUS
<1>1. AssertsInv'
  BY NextAsserts DEF FoundInv
<1>2. GrowInv'
  BY <1>1, NextGrow DEF AssertsInv
<1>3. ExactInv'
  BY NextExact
<1>4. QED
  BY <1>1, <1>2, <1>3 DEF FoundInv

\* Kernel, context and table agree on the fiber that waits: a report reaches it, a
\* cancel finds it, and nobody is registered who does not wait
\* (IOManager::add_event, context_resize, del_event, cancel_event, cancel_all, idle).
THEOREM FoundCorrect ==
    ASSUME Zeroed, OneWaiterWhereRacy, OneFarDescriptor
    PROVE  Spec => []WaitersFound
<1>1. FoundInv => WaitersFound
  <2> SUFFICES ASSUME FoundInv PROVE WaitersFound
    OBVIOUS
  <2> USE DEF FoundInv, AssertsInv, CountsInv
  <2>1. pending \in Nat
    BY FS_CardinalityType DEF CountInv
  <2>2. TypeOK
    BY <2>1 DEF TypeOK, TableInv, RegistryInv, KernelInv, ReportInv
  <2>3. ASSUME NEW c \in Fibers, phase[c] = "waiting"
        PROVE  /\ Ev(c) \in events[ctx[c]] /\ Ev(c) \in armed[ctx[c]]
               /\ interest[Fd(c)] = [ptr |-> ctx[c], mask |-> events[ctx[c]]]
               /\ InTable(Fd(c)) /\ ctx[c] = Current(Fd(c))
    <3>1. PICK fd \in Fds, x \in Contexts :
            fd = Fd(c) /\ x = <<fd, 1>> /\ Fd(x) = fd /\ x = ctx[c] /\ InTable(fd)
      BY <2>3, ContextPairs, FirstContexts DEF GrowInv
    <3>2. Ev(c) \in Event /\ Waits(<<Fd(x), Ev(c)>>, x)
      BY <2>3, <3>1, ContextPairs DEF Waits
    <3>3. Ev(c) \in events[x] /\ Ev(c) \in armed[x]
      BY <3>2 DEF RegistryInv
    <3>4. interest[fd] = [ptr |-> x, mask |-> events[x]]
      BY <3>1, <3>3 DEF ExactInv
    <3>5. x = Current(fd)
      BY <3>1 DEF GrowInv, Current
    <3>6. QED
      BY <3>1, <3>3, <3>4, <3>5
  <2>4. NoStaleWaiter
    BY DEF NoStaleWaiter, RegistryInv, Waits
  <2>5. QED
    BY <2>2, <2>3, <2>4 DEF WaitersFound, WaiterReachable, CancelFindsWaiter
<1>2. QED
  BY InitFound, NextFound, <1>1, PTL DEF Spec

-----------------------------------------------------------------------------
USE TimerAssumption DEF TimerAssumption

ClientLabels == {"ready", "insert", "reset", "front"}
WorkerLabels == {"busy", "loop", "wait", "expire", "check", "collect", "schedule"}
Labels == ClientLabels \cup WorkerLabels
Call == [timer : Timers \cup {NoTimer}, ms : Time, from_now : BOOLEAN]

\* Sums and differences of timestamps are timestamps (uint64_t).
LEMMA TimeClosed ==
    ASSUME NEW a \in Time, NEW b \in Time
    PROVE  Plus(a, b) \in Time /\ Minus(a, b) \in Time
  BY DEF Plus, Minus, Time

\* The cast to int gives an integer (idle()).
LEMMA CastType == \A n \in Int : CastToInt(n) \in Int
  BY DEF CastToInt

\* A timer nobody has seen a callback of, nor cancelled.
Fresh(t) == /\ ran[t] = 0 /\ t \notin cancelled
            /\ \A w \in Workers : t \notin callbacks[w]

\* Where a client's pending call has its timer: the one of add_timer() is being
\* made by this client alone and is not queued yet, the one of reset() has
\* been returned to somebody.
PendingCalls ==
    /\ \A c \in Clients : pc[c] \in ClientLabels
    /\ \A c \in Clients : pc[c] # "ready" => arg[c].timer \in Timers
    /\ \A c \in Clients : pc[c] = "insert" =>
         LET t == arg[c].timer
         IN  life[t] = "made" /\ m_callback[t] /\ t \notin m_timers /\ Fresh(t)
    /\ \A c \in Clients : pc[c] = "front" =>
         LET t == arg[c].timer IN life[t] # "free" /\ (m_callback[t] <=> t \in m_timers)
    /\ \A c \in Clients : pc[c] = "reset" => life[arg[c].timer] = "known"
    /\ \A c, d \in Clients :
         pc[c] = "insert" /\ pc[d] # "ready" /\ arg[c].timer = arg[d].timer => c = d

\* Timers that can still expire for the first time have not been heard of.
Unheard ==
    /\ \A t \in Timers : life[t] = "free" => t \notin m_timers /\ Fresh(t)
    /\ \A t \in m_timers : ~m_recurring[t] => Fresh(t)

QueueInv == TimersSound /\ PendingCalls /\ Unheard

\* There are no timers and no calls at first.
LEMMA InitQueue == TimerInit => QueueInv
<1> SUFFICES ASSUME TimerInit PROVE QueueInv
  OBVIOUS
<1>1. 0 \in Time /\ Start \in Start..MaxTime /\ Start \in Int
  BY DEF Time
<1>2. NoCall \in [timer : Timers \cup {NoTimer}, ms : Time, from_now : BOOLEAN]
  BY <1>1 DEF NoCall
<1>3. pc \in [Threads -> {"ready", "busy"}] /\ \A c \in Clients : pc[c] = "ready"
  BY DEF TimerInit, Threads
<1>4. TimerTypeOK
  <2>1. pc \in [Threads -> {"ready", "insert", "reset", "front",
                          "busy", "loop", "wait", "expire", "check", "collect", "schedule"}]
    BY <1>3
  <2>2. /\ m_ms \in [Timers -> Time] /\ m_next \in [Timers -> Time]
        /\ m_recurring \in [Timers -> BOOLEAN] /\ m_callback \in [Timers -> BOOLEAN]
        /\ life \in [Timers -> {"free", "made", "known"}] /\ ran \in [Timers -> 0..2]
    BY <1>1 DEF TimerInit
  <2>3. /\ now_ms \in [Workers -> Start..MaxTime] /\ wake \in [Workers -> Int]
        /\ callbacks \in [Workers -> SUBSET Timers] /\ reported \in [Workers -> BOOLEAN]
        /\ arg \in [Clients -> [timer : Timers \cup {NoTimer}, ms : Time, from_now : BOOLEAN]]
    BY <1>1, <1>2 DEF TimerInit
  <2>4. QED
    BY <1>1, <2>1, <2>2, <2>3 DEF TimerInit, TimerTypeOK
<1>5. QED
  BY <1>3, <1>4
     DEF TimerInit, QueueInv, TimersSound, CallbackIffQueued, OneShotOnce, PendingCalls, Unheard,
         Fresh, ClientLabels, Threads

USE DEF TimerTypeOK, Goto, timerVars, managerVars, workerVars

\* What InsertLocked() writes has its type.
LEMMA InsertType ==
    ASSUME TimerTypeOK, NEW c \in Clients, NEW t \in Timers, NEW next, InsertLocked(c, t, next)
    PROVE  /\ m_timers' \in SUBSET Timers /\ m_ticked' \in BOOLEAN
           /\ pc' \in [Threads -> Labels]
           /\ arg' \in [Clients -> Call]
           /\ life' \in [Timers -> {"free", "made", "known"}]
<1>1. NoCall \in Call
  BY DEF NoCall, Call, Time
<1>2. m_timers' = m_timers \cup {t} /\ m_ticked' \in BOOLEAN
  BY DEF InsertLocked
<1>3. \/ Goto(c, "front") /\ UNCHANGED <<arg, life>>
      \/ /\ Goto(c, "ready") /\ arg' = [arg EXCEPT ![c] = NoCall]
         /\ life' = [life EXCEPT ![t] = "known"]
  BY DEF InsertLocked
<1>4. pc' \in [Threads -> Labels]
  BY <1>3 DEF Threads, Labels, ClientLabels, WorkerLabels
<1>5. arg \in [Clients -> Call]
  BY DEF Call
<1>6. arg' \in [Clients -> Call] /\ life' \in [Timers -> {"free", "made", "known"}]
  BY SMTT(30), <1>1, <1>3, <1>5
<1>7. QED
  BY <1>2, <1>4, <1>6

\* The steps of a client keep the types.
LEMMA ClientType ==
    ASSUME QueueInv, NEW c \in Clients, ClientStarts(c) \/ ClientContinues(c)
    PROVE  TimerTypeOK'
<1>0. 0 \in Time /\ Start \in Start..MaxTime /\ Start..MaxTime \subseteq Time /\ Ms \subseteq Time
  BY DEF Time
<1>1. NoCall \in Call /\ TimerTypeOK
  BY <1>0 DEF NoCall, Call, QueueInv, TimersSound
<1>2. ASSUME NEW t \in Timers, NEW ms \in Ms, NEW r \in BOOLEAN, NewTimer(c, t, ms, r)
      PROVE  TimerTypeOK'
  <2>1. Plus(clock, ms) \in Time
    BY <1>0, <1>1, TimeClosed
  <2>2. QED
    BY <1>0, <1>1, <1>2, <2>1 DEF NewTimer, Threads
<1>3. ASSUME NEW t \in Timers, Cancel(c, t) PROVE TimerTypeOK'
  BY <1>1, <1>3 DEF Cancel
<1>4. ASSUME NEW t \in Timers, Refresh(c, t) PROVE TimerTypeOK'
  <2>1. Plus(clock, m_ms[t]) \in Time
    BY <1>0, <1>1, TimeClosed
  <2>2. QED
    BY <1>1, <1>4, <2>1 DEF Refresh
<1>5. ASSUME NEW t \in Timers, NEW ms \in Ms, NEW fn \in BOOLEAN, ResetCheck(c, t, ms, fn)
      PROVE  TimerTypeOK'
  BY <1>0, <1>1, <1>5 DEF ResetCheck, Threads
<1>6. CASE InsertTimer(c)
  <2>1. arg[c].timer \in Timers
    BY <1>6 DEF QueueInv, PendingCalls, InsertTimer
  <2>2. QED
    BY <1>1, <1>6, <2>1, InsertType
       DEF InsertTimer, Labels, ClientLabels, WorkerLabels, Call
<1>7. CASE InsertedAtFront(c)
  BY <1>1, <1>7 DEF InsertedAtFront, tickle, Threads, Call
<1>8. CASE ResetRefused(c)
  BY <1>1, <1>8 DEF ResetRefused, Threads, Call
<1>9. CASE ResetLocked(c)
  <2>1. arg[c].timer \in Timers
    BY <1>9 DEF QueueInv, PendingCalls, ResetLocked
  <2> DEFINE t == arg[c].timer
             n == Plus(ResetStart(t, arg[c].from_now), arg[c].ms)
  <2>2. n \in Time /\ arg[c].ms \in Time
    BY <1>0, <1>1, <2>1, TimeClosed DEF ResetStart
  <2>3. InsertLocked(c, t, [m_next EXCEPT ![t] = n])
    BY <1>9 DEF ResetLocked
  <2>4. /\ m_timers' \in SUBSET Timers /\ m_ticked' \in BOOLEAN
        /\ pc' \in [Threads -> Labels]
        /\ arg' \in [Clients -> Call]
        /\ life' \in [Timers -> {"free", "made", "known"}]
    BY <1>1, <2>1, <2>3, InsertType
  <2>5. m_ms' \in [Timers -> Time] /\ m_next' \in [Timers -> Time]
    BY <1>1, <1>9, <2>1, <2>2 DEF ResetLocked
  <2>6. QED
    BY <1>1, <1>9, <2>4, <2>5 DEF ResetLocked, Labels, ClientLabels, WorkerLabels, Call
<1>10. QED
  BY <1>2, <1>3, <1>4, <1>5, <1>6, <1>7, <1>8, <1>9 DEF ClientStarts, ClientContinues

\* The steps of a worker and of the clock keep the types.
LEMMA WorkerType ==
    ASSUME TimerTypeOK, NEW w \in Workers, WorkerStep(w)
    PROVE  TimerTypeOK'
<1>0. Start \in Start..MaxTime /\ Start..MaxTime \subseteq Time /\ Start \in Int
  BY DEF Time
<1>1. CASE EnterIdle(w)
  BY <1>1 DEF EnterIdle, Threads
<1>2. CASE Sleep(w)
  <2>1. \A n \in Int : WakeAt(n) \in Int
    BY DEF WakeAt, Forever
  <2>2. \A n \in Int : EpollTimeout(n) \in Int
    BY CastType DEF EpollTimeout
  <2>3. \A t \in Timers : UntilDeadline(t) \in Int
    BY DEF UntilDeadline, Time
  <2>4. wake' \in [Workers -> Int]
    BY <1>2, <2>1, <2>2, <2>3 DEF Sleep, SetWake
  <2>5. QED
    BY <1>2, <2>4 DEF Sleep, Threads
<1>3. CASE WokenByTickle(w)
  BY <1>3 DEF WokenByTickle, Threads
<1>4. CASE WokenByTimeout(w)
  BY <1>4 DEF WokenByTimeout, Threads
<1>5. CASE ReadClock(w)
  BY <1>5 DEF ReadClock, Threads
<1>6. CASE CheckEmpty(w)
  BY <1>6 DEF CheckEmpty, Threads
<1>7. CASE Collect(w)
  <2> DEFINE now == now_ms[w]
             expired == Expired(now)
             once == {t \in expired : ~m_recurring[t]}
  <2>1. now \in Time /\ expired \subseteq Timers
    BY <1>0 DEF Expired
  <2>2. \A t \in Timers : Plus(now, m_ms[t]) \in Time
    BY <2>1, TimeClosed
  <2>3. /\ m_next' = [t \in Timers |->
                        IF t \in expired \ once THEN Plus(now, m_ms[t]) ELSE m_next[t]]
        /\ m_callback' = [t \in Timers |-> m_callback[t] /\ t \notin once]
        /\ m_timers' = m_timers \ once
        /\ m_previous_time' \in {now, m_previous_time}
        /\ callbacks' = [callbacks EXCEPT ![w] = expired]
        /\ pc' = [pc EXCEPT ![w] = "schedule"]
        /\ UNCHANGED <<clock, m_ms, m_recurring, life, m_ticked, arg, now_ms, wake,
                       reported, pipe, ran, cancelled>>
    BY <1>7 DEF Collect, Remaining, CallbacksLeft, PreviousTime
  <2> HIDE DEF expired, once
  <2>4. m_next' \in [Timers -> Time] /\ m_callback' \in [Timers -> BOOLEAN]
    BY <2>2, <2>3
  <2>5. QED
    BY <2>1, <2>3, <2>4 DEF Threads
<1>8. CASE Schedule(w)
  <2>1. ran' \in [Timers -> 0..2]
    BY <1>8 DEF Schedule
  <2>2. QED
    BY <1>0, <1>8, <2>1 DEF Schedule, Threads
<1>9. QED
  BY <1>1, <1>2, <1>3, <1>4, <1>5, <1>6, <1>7, <1>8 DEF WorkerStep


\* QueueInv beside the types.
Agrees == CallbackIffQueued /\ OneShotOnce /\ PendingCalls /\ Unheard

USE DEF Agrees, CallbackIffQueued, OneShotOnce, PendingCalls, Unheard, Fresh, ClientLabels

\* An insertion, of a timer that is new or queued anyhow.
LEMMA InsertAgrees ==
    ASSUME TimerTypeOK, Agrees, NEW c \in Clients, NEW next,
           pc[c] \in {"insert", "reset"}, InsertLocked(c, arg[c].timer, next),
           m_callback[arg[c].timer], pc[c] = "reset" => arg[c].timer \in m_timers,
           UNCHANGED <<m_recurring, m_callback, callbacks, ran, cancelled>>
    PROVE  Agrees'
<1> DEFINE t == arg[c].timer
<1>1. t \in Timers /\ m_timers' = m_timers \cup {t} /\ Threads = Clients \cup Workers
  BY DEF InsertLocked, Threads
<1>2. \/ Goto(c, "front") /\ UNCHANGED <<arg, life>>
      \/ /\ Goto(c, "ready") /\ arg' = [arg EXCEPT ![c] = NoCall]
         /\ life' = [life EXCEPT ![t] = "known"]
  BY DEF InsertLocked
<1>3. life[t] # "free" /\ (~m_recurring[t] => Fresh(t))
  OBVIOUS
<1>4. CASE Goto(c, "front") /\ UNCHANGED <<arg, life>>
  <2>1. CallbackIffQueued' /\ OneShotOnce' /\ Unheard'
    BY <1>1, <1>3, <1>4
  <2>2. PendingCalls'
    BY <1>1, <1>3, <1>4
  <2>3. QED
    BY <2>1, <2>2
<1>5. CASE /\ Goto(c, "ready") /\ arg' = [arg EXCEPT ![c] = NoCall]
           /\ life' = [life EXCEPT ![t] = "known"]
  <2>1. CallbackIffQueued' /\ OneShotOnce' /\ Unheard'
    BY <1>1, <1>3, <1>5
  <2>2. PendingCalls'
    BY <1>1, <1>3, <1>5
  <2>3. QED
    BY <2>1, <2>2
<1>6. QED
  BY <1>2, <1>4, <1>5

\* The steps of a client keep it.
LEMMA ClientAgrees ==
    ASSUME QueueInv, NEW c \in Clients, ClientStarts(c) \/ ClientContinues(c)
    PROVE  Agrees'
<1>1. TimerTypeOK /\ Agrees
  BY DEF QueueInv, TimersSound
<1>2. ASSUME NEW t \in Timers, NEW ms \in Ms, NEW r \in BOOLEAN, NewTimer(c, t, ms, r)
      PROVE  Agrees'
  BY <1>1, <1>2 DEF NewTimer, Threads
<1>3. ASSUME NEW t \in Timers, Cancel(c, t) PROVE Agrees'
  BY <1>1, <1>3 DEF Cancel
<1>4. ASSUME NEW t \in Timers, Refresh(c, t) PROVE Agrees'
  BY <1>1, <1>4 DEF Refresh
<1>5. ASSUME NEW t \in Timers, NEW ms \in Ms, NEW fn \in BOOLEAN, ResetCheck(c, t, ms, fn)
      PROVE  Agrees'
  BY <1>1, <1>5 DEF ResetCheck, Threads
<1>6. CASE InsertTimer(c)
  <2>1. /\ pc[c] \in {"insert", "reset"} /\ InsertLocked(c, arg[c].timer, m_next)
        /\ UNCHANGED <<m_recurring, m_callback, callbacks, ran, cancelled>>
    BY <1>6 DEF InsertTimer
  <2>2. m_callback[arg[c].timer] /\ (pc[c] = "reset" => arg[c].timer \in m_timers)
    BY <1>1, <1>6 DEF InsertTimer
  <2> HIDE DEF Agrees, TimerTypeOK
  <2>3. QED
    BY <1>1, <2>1, <2>2, InsertAgrees
<1>7. CASE InsertedAtFront(c)
  BY <1>1, <1>7 DEF InsertedAtFront, Threads
<1>8. CASE ResetRefused(c)
  BY <1>1, <1>8 DEF ResetRefused, Threads
<1>9. CASE ResetLocked(c)
  <2>1. /\ pc[c] = "reset" /\ m_callback[arg[c].timer] /\ arg[c].timer \in m_timers
        /\ UNCHANGED <<m_recurring, m_callback, callbacks, ran, cancelled>>
        /\ \E next : InsertLocked(c, arg[c].timer, next)
    BY <1>9 DEF ResetLocked
  <2> HIDE DEF Agrees, TimerTypeOK
  <2>2. QED
    BY <1>1, <2>1, InsertAgrees
<1>10. QED
  BY <1>2, <1>3, <1>4, <1>5, <1>6, <1>7, <1>8, <1>9 DEF ClientStarts, ClientContinues

\* And so do the steps of a worker.
LEMMA WorkerAgrees ==
    ASSUME QueueInv, NEW w \in Workers, WorkerStep(w)
    PROVE  Agrees'
<1>1. TimerTypeOK /\ Agrees
  BY DEF QueueInv, TimersSound
<1>2. CASE EnterIdle(w) \/ Sleep(w) \/ WokenByTickle(w) \/ WokenByTimeout(w)
           \/ ReadClock(w) \/ CheckEmpty(w)
  BY <1>1, <1>2 DEF EnterIdle, Sleep, WokenByTickle, WokenByTimeout, ReadClock, CheckEmpty, Threads
<1>3. CASE Collect(w)
  BY <1>1, <1>3 DEF Collect, Remaining, CallbacksLeft, Expired, Threads
<1>4. CASE Schedule(w)
  BY <1>1, <1>4 DEF Schedule, Threads
<1>5. QED
  BY <1>2, <1>3, <1>4 DEF WorkerStep

\* Every step keeps QueueInv.
LEMMA NextQueue == QueueInv /\ [TimerNext]_timerManagerVars => QueueInv'
<1> SUFFICES ASSUME QueueInv, [TimerNext]_timerManagerVars PROVE QueueInv'
  OBVIOUS
<1>1. TimerTypeOK /\ Agrees
  BY DEF QueueInv, TimersSound
<1>2. TimerTypeOK' /\ Agrees' => QueueInv'
  BY DEF QueueInv, TimersSound
<1>3. CASE Tick
  BY <1>1, <1>2, <1>3 DEF Tick
<1>4. CASE UNCHANGED timerManagerVars
  BY <1>1, <1>2, <1>4 DEF timerManagerVars
<1>5. QED
  BY <1>1, <1>2, <1>3, <1>4, ClientType, ClientAgrees, WorkerType, WorkerAgrees DEF TimerNext

\* TimersSound: cancel(), reset() and the workers that collect expired timers
\* never disagree about the queue, and no one-shot callback is handed over twice
\* or after a successful cancel().
THEOREM TimersCorrect == TimerSpec => []TimersSound
<1>1. QueueInv => TimersSound
  BY DEF QueueInv
<1>2. QED
  BY <1>1, InitQueue, NextQueue, PTL DEF TimerSpec

-----------------------------------------------------------------------------
\* The hypothesis of what follows about sleeping: no interval reaches 2^31 ms,
\* and no deadline the end of the clock's range.
ShortIntervals ==
    /\ Workers # {}
    /\ \A ms \in Ms : MaxTime + ms < Width /\ ms < IntRange \div 2

\* A deadline lies one interval after a moment of the past.
Deadlines ==
    /\ \A c \in Clients : pc[c] \in {"insert", "reset"} => arg[c].ms \in Ms
    /\ \A t \in Timers : life[t] # "free" =>
         /\ m_ms[t] \in Ms /\ m_ms[t] <= m_next[t] /\ m_next[t] <= clock + m_ms[t]
    /\ \A w \in Workers : now_ms[w] <= clock

\* The worker's epoll_wait ends in time for the first timer.
WakesInTime(w) ==
    \A t \in m_timers : wake[w] # Forever /\ (wake[w] <= clock \/ wake[w] <= m_next[t])

\* While all workers sleep and no tickle is on its way, the last one to ask for
\* the next deadline is in time, and an earlier deadline will tickle.
SleepersTold ==
    (\A w \in Workers : pc[w] = "wait") =>
        \/ pipe = "edge"
        \/ \E c \in Clients : pc[c] = "front"
        \/ ~m_ticked /\ \E w \in Workers : WakesInTime(w)

SleepInv == QueueInv /\ Deadlines /\ SleepersTold

\* The deadline of an interval that begins now or began before.
LEMMA DeadlineOf ==
    ASSUME TimerTypeOK, ShortIntervals, NEW start \in 0..clock, NEW ms \in Ms
    PROVE  Plus(start, ms) = start + ms /\ ms \in Nat
  BY DEF ShortIntervals, Plus

\* The steps of a client keep the deadlines in order.
LEMMA ClientDeadlines ==
    ASSUME QueueInv, ShortIntervals, Deadlines,
           NEW c \in Clients, ClientStarts(c) \/ ClientContinues(c)
    PROVE  Deadlines'
<1>1. TimerTypeOK /\ PendingCalls /\ clock \in 0..clock /\ Threads = Clients \cup Workers
  BY DEF QueueInv, TimersSound, Threads
<1> HIDE DEF CallbackIffQueued, OneShotOnce, Unheard
<1> USE DEF Deadlines
<1>2. ASSUME NEW t \in Timers, NEW ms \in Ms, NEW r \in BOOLEAN, NewTimer(c, t, ms, r)
      PROVE  Deadlines'
  BY <1>1, <1>2, DeadlineOf DEF NewTimer
<1>3. ASSUME NEW t \in Timers, Cancel(c, t) PROVE Deadlines'
  BY <1>1, <1>3 DEF Cancel
<1>4. ASSUME NEW t \in Timers, Refresh(c, t) PROVE Deadlines'
  <2>1. m_ms[t] \in Ms
    BY <1>4 DEF Refresh
  <2>2. Plus(clock, m_ms[t]) = clock + m_ms[t] /\ m_ms[t] \in Nat
    BY <1>1, <2>1, DeadlineOf
  <2>3. /\ m_next' = [m_next EXCEPT ![t] = clock + m_ms[t]]
        /\ UNCHANGED <<clock, m_ms, life, pc, arg, now_ms>>
    BY <1>4, <2>2 DEF Refresh
  <2>4. QED
    BY <1>1, <2>1, <2>2, <2>3
<1>5. ASSUME NEW t \in Timers, NEW ms \in Ms, NEW fn \in BOOLEAN, ResetCheck(c, t, ms, fn)
      PROVE  Deadlines'
  BY <1>1, <1>5 DEF ResetCheck
<1>6. CASE InsertTimer(c)
  BY <1>1, <1>6 DEF InsertTimer, InsertLocked
<1>7. CASE InsertedAtFront(c)
  BY <1>1, <1>7 DEF InsertedAtFront
<1>8. CASE ResetRefused(c)
  BY <1>1, <1>8 DEF ResetRefused
<1>9. CASE ResetLocked(c)
  <2> DEFINE t == arg[c].timer
             start == ResetStart(t, arg[c].from_now)
             n == Plus(start, arg[c].ms)
  <2>1. t \in Timers /\ arg[c].ms \in Ms /\ life[t] = "known"
    BY <1>1, <1>9 DEF ResetLocked
  <2>2. start \in 0..clock
    BY <1>1, <2>1 DEF ResetStart, Minus, Time
  <2>3. n = start + arg[c].ms /\ arg[c].ms \in Nat
    BY ZenonT(40), <1>1, <2>1, <2>2, DeadlineOf
  <2>4. /\ m_ms' = [m_ms EXCEPT ![t] = arg[c].ms] /\ m_next' = [m_next EXCEPT ![t] = n]
        /\ UNCHANGED <<clock, now_ms>>
        /\ InsertLocked(c, t, [m_next EXCEPT ![t] = n])
    BY <1>9 DEF ResetLocked
  <2>5. \A u \in Timers : life'[u] # "free" => life[u] # "free"
    BY <1>1, <2>1, <2>4 DEF InsertLocked
  <2>6. \A d \in Clients : pc'[d] \in {"insert", "reset"} => d # c /\ pc'[d] = pc[d] /\ arg'[d] = arg[d]
    BY <1>1, <2>4 DEF InsertLocked
  <2> HIDE DEF n, start
  <2>7. \A u \in Timers : life'[u] # "free" =>
          m_ms'[u] \in Ms /\ m_ms'[u] <= m_next'[u] /\ m_next'[u] <= clock' + m_ms'[u]
    BY <1>1, <2>1, <2>2, <2>3, <2>4, <2>5
  <2>8. QED
    BY <1>1, <2>4, <2>6, <2>7
<1>10. QED
  BY <1>2, <1>3, <1>4, <1>5, <1>6, <1>7, <1>8, <1>9 DEF ClientStarts, ClientContinues

\* So do the steps of a worker: a recurring timer starts again from now.
LEMMA WorkerDeadlines ==
    ASSUME QueueInv, ShortIntervals, Deadlines, NEW w \in Workers, WorkerStep(w)
    PROVE  Deadlines'
<1>1. TimerTypeOK /\ Unheard /\ Threads = Clients \cup Workers
  BY DEF QueueInv, TimersSound, Threads
<1> HIDE DEF CallbackIffQueued, OneShotOnce, PendingCalls
<1> USE DEF Deadlines
<1>2. CASE EnterIdle(w) \/ Sleep(w) \/ WokenByTickle(w) \/ WokenByTimeout(w)
           \/ ReadClock(w) \/ CheckEmpty(w)
  BY <1>1, <1>2 DEF EnterIdle, Sleep, WokenByTickle, WokenByTimeout, ReadClock, CheckEmpty
<1>3. CASE Collect(w)
  <2> DEFINE now == now_ms[w]
             expired == Expired(now)
             once == {t \in expired : ~m_recurring[t]}
  <2>1. now \in 0..clock /\ expired \subseteq m_timers
    BY <1>1 DEF Expired
  <2>2. \A t \in expired : m_ms[t] \in Ms
    BY <1>1, <2>1
  <2>3. \A t \in expired : Plus(now, m_ms[t]) = now + m_ms[t] /\ m_ms[t] \in Nat
    BY <1>1, <2>1, <2>2, DeadlineOf
  <2>4. /\ m_next' = [t \in Timers |->
                        IF t \in expired \ once THEN Plus(now, m_ms[t]) ELSE m_next[t]]
        /\ pc' = [pc EXCEPT ![w] = "schedule"]
        /\ UNCHANGED <<clock, m_ms, life, arg, now_ms>>
    BY <1>3 DEF Collect
  <2> HIDE DEF expired, once
  <2>5. \A t \in Timers : life'[t] # "free" =>
          m_ms'[t] \in Ms /\ m_ms'[t] <= m_next'[t] /\ m_next'[t] <= clock' + m_ms'[t]
    BY <1>1, <2>1, <2>3, <2>4
  <2>6. QED
    BY <1>1, <2>4, <2>5
<1>4. CASE Schedule(w)
  BY <1>1, <1>4 DEF Schedule
<1>5. QED
  BY <1>2, <1>3, <1>4 DEF WorkerStep

\* Every step keeps the deadlines in order.
LEMMA NextDeadlines ==
    ASSUME ShortIntervals, QueueInv, Deadlines, [TimerNext]_timerManagerVars
    PROVE  Deadlines'
<1>1. TimerTypeOK
  BY DEF QueueInv, TimersSound
<1>2. CASE Tick
  <2>1. clock' = clock + 1 /\ UNCHANGED <<pc, arg, life, m_ms, m_next, now_ms>> /\ clock \in Nat
    BY <1>1, <1>2 DEF Tick
  <2>2. m_ms \in [Timers -> Nat] /\ m_next \in [Timers -> Nat] /\ now_ms \in [Workers -> Nat]
    BY <1>1 DEF Time
  <2> HIDE DEF TimerTypeOK
  <2>3. QED
    BY <2>1, <2>2 DEF Deadlines
<1>3. CASE UNCHANGED timerManagerVars
  BY <1>3 DEF timerManagerVars, Deadlines
<1>4. QED
  BY <1>2, <1>3, ClientDeadlines, WorkerDeadlines DEF TimerNext

\* An insertion that does not come first leaves the first deadline where it was;
\* one that does will tickle, unless a tickle is due already.
LEMMA InsertTold ==
    ASSUME TimerTypeOK, TimerTypeOK', SleepersTold, NEW c \in Clients, pc[c] \in {"insert", "reset"},
           NEW t \in Timers, NEW next, InsertLocked(c, t, next), m_next' = next,
           \A u \in m_timers \ {t} : next[u] = m_next[u],
           UNCHANGED <<clock, pipe, wake>>
    PROVE  SleepersTold'
<1> SUFFICES ASSUME \A w \in Workers : pc'[w] = "wait"
             PROVE  \/ pipe' = "edge"
                    \/ \E d \in Clients : pc'[d] = "front"
                    \/ ~m_ticked' /\ \E w \in Workers : WakesInTime(w)'
  BY DEF SleepersTold
<1>1. \A p \in Threads : p # c => pc'[p] = pc[p]
  BY DEF InsertLocked
<1>2. \A w \in Workers : pc[w] = "wait"
  BY <1>1 DEF Threads
<1>3. CASE pipe = "edge" \/ \E d \in Clients : pc[d] = "front"
  BY <1>1, <1>3 DEF Threads
<1>4. CASE ~m_ticked /\ \E w \in Workers : WakesInTime(w)
  <2>1. CASE pc'[c] = "front"
    BY <2>1
  <2>2. CASE pc'[c] # "front"
    <3>1. /\ m_timers' = m_timers \cup {t} /\ ~m_ticked'
          /\ \E u \in m_timers \ {t} : next[u] <= next[t]
      BY <1>4, <2>2 DEF InsertLocked, Threads
    <3>2. PICK w \in Workers : WakesInTime(w)
      BY <1>4
    <3>3. \A v \in m_timers \ {t} : wake[w] # Forever /\ (wake[w] <= clock \/ wake[w] <= next[v])
      BY <3>2 DEF WakesInTime
    <3>4. wake[w] # Forever /\ (wake[w] <= clock \/ wake[w] <= next[t])
      <4>1. PICK u \in m_timers \ {t} : next[u] <= next[t]
        BY <3>1
      <4>2. wake[w] \in Int /\ next[u] \in Int /\ next[t] \in Int
        BY DEF Time
      <4>3. QED
        BY <3>3, <4>1, <4>2
    <3>5. WakesInTime(w)'
      BY <3>1, <3>3, <3>4 DEF WakesInTime
    <3>6. QED
      BY <3>1, <3>5
  <2>3. QED
    BY <2>1, <2>2
<1>5. QED
  BY <1>2, <1>3, <1>4 DEF SleepersTold

\* The steps of a client keep SleepersTold.
LEMMA ClientTold ==
    ASSUME ShortIntervals, QueueInv, Deadlines, SleepersTold,
           NEW c \in Clients, ClientStarts(c) \/ ClientContinues(c)
    PROVE  SleepersTold'
<1>1. TimerTypeOK /\ PendingCalls /\ Unheard /\ Threads = Clients \cup Workers
  BY DEF QueueInv, TimersSound, Threads
<1>11. TimerTypeOK'
  BY ClientType
<1> HIDE DEF CallbackIffQueued, OneShotOnce, PendingCalls
<1>2. ASSUME NEW t \in Timers, NEW ms \in Ms, NEW r \in BOOLEAN, NewTimer(c, t, ms, r)
      PROVE  SleepersTold'
  BY <1>1, <1>2 DEF NewTimer, SleepersTold, WakesInTime
<1>3. ASSUME NEW t \in Timers, Cancel(c, t) PROVE SleepersTold'
  BY <1>1, <1>3 DEF Cancel, SleepersTold, WakesInTime
<1>4. ASSUME NEW t \in Timers, Refresh(c, t) PROVE SleepersTold'
  <2>0. m_ms[t] \in Ms /\ m_next[t] <= clock + m_ms[t] /\ clock \in 0..clock
    BY <1>1, <1>4 DEF Refresh, Deadlines
  <2>1. Plus(clock, m_ms[t]) = clock + m_ms[t] /\ m_next[t] <= clock + m_ms[t]
    BY <1>1, <2>0, DeadlineOf
  <2>2. /\ m_next' = [m_next EXCEPT ![t] = clock + m_ms[t]]
        /\ UNCHANGED <<clock, pc, m_timers, m_ticked, wake, pipe>>
    BY <1>4, <2>1 DEF Refresh
  <2>3. clock \in Int /\ m_next \in [Timers -> Int] /\ m_ms[t] \in Int /\ wake \in [Workers -> Int]
    BY <1>1 DEF Time
  <2>4. \A w \in Workers : WakesInTime(w) => WakesInTime(w)'
    BY <1>1, <2>1, <2>2, <2>3 DEF WakesInTime
  <2>5. QED
    BY <2>2, <2>4 DEF SleepersTold
<1>5. ASSUME NEW t \in Timers, NEW ms \in Ms, NEW fn \in BOOLEAN, ResetCheck(c, t, ms, fn)
      PROVE  SleepersTold'
  BY <1>1, <1>5 DEF ResetCheck, SleepersTold, WakesInTime
<1>6. CASE InsertTimer(c)
  BY <1>1, <1>6, <1>11, InsertTold DEF InsertTimer, PendingCalls
<1>7. CASE InsertedAtFront(c)
  BY <1>1, <1>7 DEF InsertedAtFront, tickle, InIdle, SleepersTold, ShortIntervals
<1>8. CASE ResetRefused(c)
  BY <1>1, <1>8 DEF ResetRefused, SleepersTold, WakesInTime
<1>9. CASE ResetLocked(c)
  <2> DEFINE t == arg[c].timer
             n == [m_next EXCEPT ![t] = Plus(ResetStart(t, arg[c].from_now), arg[c].ms)]
  <2>1. /\ pc[c] = "reset" /\ t \in Timers /\ InsertLocked(c, t, n)
        /\ m_next' = n /\ UNCHANGED <<clock, pipe, wake>>
    BY <1>1, <1>9 DEF ResetLocked
  <2>2. \A u \in m_timers \ {t} : n[u] = m_next[u]
    BY <1>1
  <2> HIDE DEF t, n, TimerTypeOK, SleepersTold
  <2>3. QED
    BY <1>1, <1>11, <2>1, <2>2, InsertTold
<1>10. QED
  BY <1>2, <1>3, <1>4, <1>5, <1>6, <1>7, <1>8, <1>9 DEF ClientStarts, ClientContinues

\* The cast to int leaves a small time-out alone.
LEMMA SmallInt ==
    ASSUME NEW n \in Nat, n < IntRange \div 2
    PROVE  CastToInt(n) = n
<1>1. IntRange \in Nat \ {0}
  OBVIOUS
<1>2. IntRange \div 2 \in Nat /\ IntRange \div 2 <= IntRange
  BY <1>1
<1>3. n % IntRange = n
  BY <1>1, <1>2
<1>4. QED
  BY <1>3 DEF CastToInt

\* The time-out that idle() computes ends at the first deadline, if not before.
LEMMA SleepInTime ==
    ASSUME ShortIntervals, QueueInv, Deadlines, NEW w \in Workers, SetWake(w)
    PROVE  \A t \in m_timers : wake'[w] # Forever /\ (wake'[w] <= clock \/ wake'[w] <= m_next[t])
<1>1. TimerTypeOK /\ Unheard /\ Workers # {} /\ IntRange \in Nat /\ MaxTimeout \in Nat
  BY DEF QueueInv, TimersSound, ShortIntervals
<1> SUFFICES ASSUME NEW u \in m_timers
             PROVE  wake'[w] # Forever /\ (wake'[w] <= clock \/ wake'[w] <= m_next[u])
  OBVIOUS
<1>2. PICK t \in m_timers : /\ m_next[t] <= m_next[u]
                            /\ wake'[w] = WakeAt(EpollTimeout(UntilDeadline(t)))
  BY <1>1 DEF SetWake, IsFirst
<1> DEFINE d == UntilDeadline(t)
<1>3. clock \in Nat /\ m_next[t] \in Nat /\ m_next[u] \in Nat
  BY <1>1 DEF Time
<1>4. d \in Nat /\ d < IntRange \div 2 /\ (clock + d <= m_next[t] \/ d = 0)
  <2>1. m_ms[t] \in Ms /\ m_next[t] <= clock + m_ms[t]
    BY <1>1 DEF Deadlines
  <2>2. m_ms[t] \in Nat
    <3>1. \A ms \in Ms : ms \in Nat
      OBVIOUS
    <3> HIDE DEF TimerTypeOK, TimerAssumption
    <3>2. QED
      BY <2>1, <3>1
  <2>3. m_ms[t] < IntRange \div 2
    BY ShortIntervals, <2>1 DEF ShortIntervals
  <2>4. QED
    BY <1>1, <1>3, <2>1, <2>2, <2>3 DEF UntilDeadline
<1>5. CastToInt(d) = d
  <2> HIDE DEF d, TimerTypeOK
  <2>1. QED
    BY <1>4, SmallInt
<1>6. EpollTimeout(d) \in 0..d
  BY <1>1, <1>4, <1>5 DEF EpollTimeout
<1>7. wake'[w] = clock + EpollTimeout(d)
  BY <1>2, <1>6 DEF WakeAt
<1> HIDE DEF d
<1>8. QED
  BY <1>2, <1>3, <1>4, <1>6, <1>7 DEF Forever

\* The steps of a worker keep SleepersTold: only the last worker to fall asleep
\* matters, and it has just looked at the queue.
LEMMA WorkerTold ==
    ASSUME ShortIntervals, QueueInv, Deadlines, NEW w \in Workers, WorkerStep(w)
    PROVE  SleepersTold'
<1>1. TimerTypeOK /\ Threads = Clients \cup Workers
  BY DEF QueueInv, TimersSound, Threads
<1>2. CASE Sleep(w)
  <2>1. /\ \A t \in m_timers : wake'[w] # Forever /\ (wake'[w] <= clock \/ wake'[w] <= m_next[t])
        /\ ~m_ticked' /\ UNCHANGED <<clock, m_timers, m_next>>
    BY <1>2, SleepInTime DEF Sleep
  <2>2. WakesInTime(w)'
    BY <2>1 DEF WakesInTime
  <2>3. QED
    BY <2>1, <2>2 DEF SleepersTold
<1>3. CASE ~Sleep(w)
  <2>1. pc'[w] # "wait"
    BY <1>1, <1>3 DEF WorkerStep, EnterIdle, WokenByTickle, WokenByTimeout, ReadClock,
                      CheckEmpty, Collect, Schedule
  <2>2. QED
    BY <2>1 DEF SleepersTold
<1>4. QED
  BY <1>2, <1>3

\* Every step keeps SleepersTold.
LEMMA NextTold ==
    ASSUME ShortIntervals, QueueInv, Deadlines, SleepersTold, [TimerNext]_timerManagerVars
    PROVE  SleepersTold'
<1>1. CASE Tick
  <2>1. clock \in Nat /\ m_next \in [Timers -> Nat] /\ wake \in [Workers -> Int]
    BY DEF QueueInv, TimersSound, TimerTypeOK, Time
  <2>2. clock' = clock + 1 /\ UNCHANGED <<pc, pipe, m_timers, m_ticked, m_next, wake>>
    BY <1>1 DEF Tick, timerVars, managerVars, workerVars
  <2> HIDE DEF TimerTypeOK
  <2>3. ASSUME NEW w \in Workers, WakesInTime(w) PROVE WakesInTime(w)'
    BY <2>1, <2>2, <2>3 DEF WakesInTime
  <2>4. QED
    BY <2>2, <2>3 DEF SleepersTold
<1>2. CASE UNCHANGED timerManagerVars
  BY <1>2 DEF timerManagerVars, timerVars, managerVars, workerVars, SleepersTold, WakesInTime
<1>3. QED
  BY <1>1, <1>2, ClientTold, WorkerTold DEF TimerNext

\* SleepInv holds at the start and in every later state.
LEMMA SleepInvariant ==
    ASSUME ShortIntervals PROVE TimerSpec => []SleepInv
<1>1. TimerInit => SleepInv
  <2> SUFFICES ASSUME TimerInit PROVE SleepInv
    OBVIOUS
  <2>1. QueueInv
    BY InitQueue
  <2>2. Deadlines /\ SleepersTold
    BY ShortIntervals DEF TimerInit, Deadlines, SleepersTold, ShortIntervals, Threads
  <2>3. QED
    BY <2>1, <2>2 DEF SleepInv
<1>2. SleepInv /\ [TimerNext]_timerManagerVars => SleepInv'
  BY ShortIntervals, NextQueue, NextDeadlines, NextTold DEF SleepInv
<1>3. QED
  BY <1>1, <1>2, PTL DEF TimerSpec

\* SleeperWakesInTime: when every worker is in epoll_wait, a tickle is pending or
\* due or some worker's time-out ends no later than the first deadline, however
\* add_timer(), cancel(), refresh() and reset() interleave with idle().
THEOREM SleeperCorrect ==
    ASSUME ShortIntervals PROVE TimerSpec => []SleeperWakesInTime
<1>1. SleepInv => SleeperWakesInTime
  BY DEF SleepInv, SleepersTold, SleeperWakesInTime, WakesInTime
<1>2. QED
  BY <1>1, SleepInvariant, PTL

-----------------------------------------------------------------------------
\* No worker holds on to the time it read for more than an hour before it gets
\* the write lock of list_expired_callback().
Prompt == \A w \in Workers : pc[w] = "collect" => clock - now_ms[w] <= Hour

\* The times that list_expired_callback() compares were read from the clock.
TimesRead ==
    /\ m_previous_time <= clock
    /\ \A w \in Workers : now_ms[w] <= clock

ClockInv == QueueInv /\ TimesRead

\* ClockInv is inductive.
LEMMA NextClock == ClockInv /\ [TimerNext]_timerManagerVars => ClockInv'
<1> SUFFICES ASSUME ClockInv, [TimerNext]_timerManagerVars PROVE ClockInv'
  OBVIOUS
<1>1. QueueInv /\ QueueInv' /\ TimesRead
  BY NextQueue DEF ClockInv
<1>2. TimerTypeOK
  BY <1>1 DEF QueueInv, TimersSound
<1> HIDE DEF CallbackIffQueued, OneShotOnce, PendingCalls, Unheard
<1>3. CASE Tick
  <2>1. clock' = clock + 1 /\ UNCHANGED <<m_previous_time, now_ms>>
    BY <1>3 DEF Tick, managerVars, workerVars
  <2>2. clock \in Int /\ m_previous_time \in Int /\ now_ms \in [Workers -> Int]
    BY <1>2 DEF TimerTypeOK
  <2>3. TimesRead'
    BY <1>1, <2>1, <2>2 DEF TimesRead
  <2>4. QED
    BY <1>1, <2>3 DEF ClockInv
<1>4. CASE UNCHANGED timerManagerVars
  BY <1>1, <1>4 DEF ClockInv, TimesRead, timerManagerVars, managerVars, workerVars
<1>5. ASSUME NEW c \in Clients, ClientStarts(c) \/ ClientContinues(c) PROVE TimesRead'
  <2>1. UNCHANGED <<clock, m_previous_time, now_ms>>
    BY <1>5 DEF ClientStarts, ClientContinues, NewTimer, Cancel, Refresh, ResetCheck,
                InsertTimer, InsertedAtFront, ResetRefused, ResetLocked, managerVars, workerVars
  <2>2. QED
    BY <1>1, <2>1 DEF TimesRead
<1>6. ASSUME NEW w \in Workers, WorkerStep(w) PROVE TimesRead'
  <2>1. CASE EnterIdle(w) \/ Sleep(w) \/ WokenByTickle(w) \/ WokenByTimeout(w) \/ CheckEmpty(w)
    BY <1>1, <2>1 DEF EnterIdle, Sleep, WokenByTickle, WokenByTimeout, CheckEmpty, TimesRead,
                      managerVars, workerVars
  <2>2. CASE ReadClock(w)
    BY <1>1, <1>2, <2>2 DEF ReadClock, TimesRead, TimerTypeOK, managerVars
  <2>3. CASE Collect(w)
    BY <1>1, <1>2, <2>3 DEF Collect, PreviousTime, TimesRead
  <2>4. CASE Schedule(w)
    BY <1>1, <1>2, <2>4 DEF Schedule, TimesRead, TimerTypeOK, managerVars
  <2>5. QED
    BY <1>6, <2>1, <2>2, <2>3, <2>4 DEF WorkerStep
<1>7. QED
  BY <1>1, <1>3, <1>4, <1>5, <1>6 DEF ClockInv, TimerNext

\* One step: only Collect fills a worker's callbacks, and without a rollover it
\* takes the timers whose deadline is not after the time it read.
LEMMA StepNotEarly ==
    ASSUME ClockInv, Prompt, Hour <= Start, TimerNext,
           NEW w \in Workers, NEW t \in callbacks'[w] \ callbacks[w]
    PROVE  m_next[t] <= clock
<1>1. TimerTypeOK /\ TimesRead
  BY DEF ClockInv, QueueInv, TimersSound
<1> HIDE DEF CallbackIffQueued, OneShotOnce, PendingCalls, Unheard
<1>2. PICK v \in Workers : Collect(v)
  <2>1. CASE Tick
    BY <2>1 DEF Tick, workerVars
  <2>2. ASSUME NEW c \in Clients, ClientStarts(c) \/ ClientContinues(c) PROVE callbacks' = callbacks
    BY <2>2 DEF ClientStarts, ClientContinues, NewTimer, Cancel, Refresh, ResetCheck,
                InsertTimer, InsertedAtFront, ResetRefused, ResetLocked, workerVars
  <2>3. ASSUME NEW v \in Workers, WorkerStep(v), ~Collect(v) PROVE callbacks'[w] \subseteq callbacks[w]
    BY <1>1, <2>3 DEF WorkerStep, EnterIdle, Sleep, WokenByTickle, WokenByTimeout, ReadClock,
                      CheckEmpty, Schedule, TimerTypeOK, workerVars
  <2>4. QED
    BY <2>1, <2>2, <2>3 DEF TimerNext
<1>3. v = w /\ pc[w] = "collect" /\ t \in Expired(now_ms[w])
  BY <1>1, <1>2 DEF Collect, TimerTypeOK
<1>4. /\ clock \in Nat /\ now_ms[w] \in Nat /\ m_previous_time \in Nat
      /\ Hour \in Nat /\ Hour <= m_previous_time /\ m_next \in [Timers -> Nat]
  BY <1>1 DEF TimerTypeOK, Time
<1>5. clock - now_ms[w] <= Hour /\ m_previous_time <= clock /\ now_ms[w] <= clock
  BY <1>1, <1>3 DEF Prompt, TimesRead
<1>6. ~detect_clock_rollover(now_ms[w])
  BY <1>4, <1>5 DEF detect_clock_rollover, Minus
<1>7. t \in Timers /\ m_next[t] <= now_ms[w]
  BY <1>1, <1>3, <1>6 DEF Expired, TimerTypeOK
<1> HIDE DEF TimerTypeOK
<1>8. QED
  BY <1>4, <1>5, <1>7

\* NeverEarly: no callback is handed over before its deadline, by a worker that
\* is not held up for an hour and on a machine that has been up for one; before
\* that, detect_clock_rollover() subtracts below zero and takes every timer.
THEOREM TimersNeverEarly ==
    ASSUME Hour <= Start PROVE TimerSpec /\ []Prompt => NeverEarly
<1>1. TimerInit => ClockInv
  <2> SUFFICES ASSUME TimerInit PROVE ClockInv
    OBVIOUS
  <2>1. QueueInv
    BY InitQueue
  <2>2. TimesRead
    BY DEF TimerInit, TimesRead
  <2>3. QED
    BY <2>1, <2>2 DEF ClockInv
<1>2. ClockInv /\ Prompt /\ [TimerNext]_timerManagerVars =>
        [\A w \in Workers : \A t \in callbacks'[w] \ callbacks[w] : m_next[t] <= clock]_timerManagerVars
  BY StepNotEarly
<1>3. QED
  BY <1>1, <1>2, NextClock, PTL DEF TimerSpec, NeverEarly
===============================================================================
