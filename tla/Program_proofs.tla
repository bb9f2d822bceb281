---------------------------- MODULE Program_proofs ----------------------------
(***************************************************************************)
(* Proofs about the two concurrent parts of a Program: Config, for any     *)
(* variables, types, values and threads, and AsyncLogger, for any threads, *)
(* any number of buffers of any size and any number of lines and restarts. *)
(* Of the logger also what its file has when the program has ended.        *)
(***************************************************************************)
EXTENDS Config, AsyncLogger, FiniteSetTheorems, WellFoundedInduction, TLAPS

USE ConfigAssumption, LoggerAssumption

Var  == [type : Types \cup {"none"}, val : Values, listened : BOOLEAN]
Disk == [content : Values \cup {Odd, Bad}, mtime : Nat \ {0}]
Act  == [at : {"idle", "next"}] \cup [at : {"parse"}, name : Names]
          \cup [at : {"set", "notify", "write"}, name : Names, value : Values]

\* What setters and loaders are about to do, and the files and their times.
ConfigTypes ==
  /\ datas \in [Names -> Var] /\ copy \in [Names -> Values]
  /\ act \in [Actors -> Act]
  /\ disk \in [Names -> Disk] /\ now \in Nat
  /\ s_file_modify_time \in [Names -> Nat]
  /\ overlapped \in [Names -> BOOLEAN] /\ touched \in [Names -> BOOLEAN]
  /\ again \in [Names -> BOOLEAN] /\ late \in [Names -> BOOLEAN]
  /\ \A n \in Names : s_file_modify_time[n] <= disk[n].mtime /\ disk[n].mtime <= now

\* Thread t is at variable n, from the check of its file to the store.
Works(t, n) == At(t, n, {"parse", "set", "notify", "write"})

Alone(n) == ~overlapped[n] => \A t, u \in Actors : Works(t, n) /\ Works(u, n) => t = u

\* The listener has the value, or what the thread about to store will store.
Told(n) ==
  datas[n].listened /\ ~overlapped[n] =>
    /\ \A t \in Actors : At(t, n, {"write"}) => copy[n] = act[t].value
    /\ (\A t \in Actors : ~At(t, n, {"write"})) => copy[n] = datas[n].val

\* The file of n would be skipped, and nothing excuses the variable.
Skipped(n) ==
  /\ Exists(n) /\ disk[n].content \in Values
  /\ s_file_modify_time[n] = disk[n].mtime
  /\ ~(overlapped[n] \/ touched[n] \/ again[n] \/ late[n])

\* The variable has the file's value, or the thread that loads it carries it.
InForce(n) ==
  Skipped(n) =>
    /\ ~Busy(n) => datas[n].val = disk[n].content
    /\ \A t \in Actors : At(t, n, {"set", "notify", "write"}) => act[t].value = disk[n].content

ConfigInv == ConfigTypes /\ \A n \in Names : Alone(n) /\ Told(n) /\ InForce(n)

-----------------------------------------------------------------------------
Bufs == 1 .. BufferNum

\* Of n free and m full buffers each is in one place, and the free ones but for
\* the current one are empty.
Placed(bs, c, fr, n, fl, m) ==
  /\ n \in Nat /\ m \in Nat /\ n + m = BufferNum
  /\ \A i \in 1 .. n : fr[i] \in Bufs
  /\ \A i \in 1 .. m : fl[i] \in Bufs
  /\ \A i, j \in 1 .. n : fr[i] = fr[j] => i = j
  /\ \A i, j \in 1 .. m : fl[i] = fl[j] => i = j
  /\ \A i \in 1 .. n, j \in 1 .. m : fr[i] # fl[j]
  /\ \A b \in Bufs : (\E i \in 1 .. n : fr[i] = b) \/ (\E i \in 1 .. m : fl[i] = b)
  /\ \A i \in 1 .. n : fr[i] # c => bs[fr[i]] = <<>>

\* A process's buffers and its two queues of them.
Queued(bs, c, fr, fl) ==
  /\ bs \in [Bufs -> Seq(Nat)] /\ c \in Bufs /\ fr \in Seq(Bufs) /\ fl \in Seq(Bufs)
  /\ \A b \in Bufs : Len(bs[b]) <= Capacity
  /\ Placed(bs, c, fr, Len(fr), fl, Len(fl))

\* Where a line can be.
InFile(l) == \E i \in 1 .. Len(file) : file[i] = l
InBuffers(bs, l) == \E b \in Bufs : \E i \in 1 .. Len(bs[b]) : bs[b][i] = l
InHand(l) == \E t \in Threads : line[t].id = l

\* The lines of buffers are lines that were logged.
Logged(bs, ls) == ls \subseteq 1 .. lines /\ \A b \in Bufs : \A i \in 1 .. Len(bs[b]) : bs[b][i] \in 1 .. lines

\* The thread with the spinlock waits for a buffer, the others are at rest.
ThreadsInv ==
  /\ spin \in Threads \cup {Nobody} /\ pc \in [Threads -> {"idle", "waits", "woken"}]
  /\ line \in [Threads -> [id : Nat, big : BOOLEAN]]
  /\ \A t \in Threads : t # spin => pc[t] = "idle" /\ line[t] = NoLine
  /\ spin = Nobody => free # <<>> /\ cur = free[1]
  /\ spin # Nobody => /\ pc[spin] # "idle" /\ line[spin].id \in 1 .. lines
                      /\ line[spin].big => line[spin].id \notin mine
                      /\ \A i \in 1 .. Len(free) : buffers[free[i]] = <<>>

KeptInv == \A l \in mine : InFile(l) \/ InBuffers(buffers, l) \/ InHand(l)

\* What the daemon left its children.
ImageInv ==
  /\ image # <<>> /\ Queued(image.buffers, image.cur, image.free, image.flush)
  /\ image.free # <<>> /\ image.cur = image.free[1]
  /\ Logged(image.buffers, image.mine)
  /\ \A l \in image.mine : InFile(l) \/ InBuffers(image.buffers, l)

\* In a program that is no daemon no line is twice in the file, in the buffers
\* and in hand.
OnceInv ==
  /\ \A i \in 1 .. Len(file) : file[i] \in 1 .. lines
  /\ \A i, j \in 1 .. Len(file) : file[i] = file[j] => i = j
  /\ \A b, d \in Bufs : \A i \in 1 .. Len(buffers[b]), j \in 1 .. Len(buffers[d]) :
       buffers[b][i] = buffers[d][j] => b = d /\ i = j
  /\ \A i \in 1 .. Len(file) : ~InBuffers(buffers, file[i]) /\ ~InHand(file[i])
  /\ \A t \in Threads : ~InBuffers(buffers, line[t].id)

LoggerInv ==
  /\ process \in {"boot", "direct", "forking", "child", "finished", "ended"}
  /\ restart_count \in 0 .. MaxRestarts /\ lines \in 0 .. MaxLines
  /\ process \in {"boot", "direct", "forking", "child"} => file \in Seq(Nat)
  /\ Running => Queued(buffers, cur, free, flush) /\ ThreadsInv /\ Logged(buffers, mine) /\ KeptInv
  /\ process \in {"boot", "direct"} => image = <<>> /\ OnceInv
  /\ process \in {"forking", "child"} => ImageInv /\ flusher \in {"gone", "gone_holding"}

-----------------------------------------------------------------------------
LEMMA InvGivesSound == ConfigInv => ConfigSound
<1> SUFFICES ASSUME ConfigInv PROVE ConfigSound
  OBVIOUS
<1>1. ListenersAgree
  <2> SUFFICES ASSUME NEW n \in Names, datas[n].listened, ~overlapped[n], ~Busy(n)
               PROVE  copy[n] = datas[n].val
    BY DEF ListenersAgree
  <2>1. \A t \in Actors : ~At(t, n, {"write"})
    BY DEF Busy, At
  <2>2. QED
    BY <2>1 DEF ConfigInv, Told
<1>2. LoadedFresh
  BY DEF ConfigInv, InForce, Skipped, LoadedFresh
<1>3. QED
  BY <1>1, <1>2 DEF ConfigSound

LEMMA ConfigInitInv == ConfigInit => ConfigInv
<1> SUFFICES ASSUME ConfigInit PROVE ConfigInv
  OBVIOUS
<1>1. ConfigTypes
  <2>1. datas \in [Names -> Var]
    <3> DEFINE First == {NoVar} \cup { [type |-> T, val |-> Default, listened |-> TRUE] : T \in Types }
    <3>1. NoVar \in Var
      BY DEF NoVar, Var
    <3>2. \A T \in Types : [type |-> T, val |-> Default, listened |-> TRUE] \in Var
      BY DEF Var
    <3>3. First \subseteq Var
      BY <3>1, <3>2
    <3>4. datas \in [Names -> First]
      BY DEF ConfigInit
    <3> HIDE DEF First
    <3>5. QED
      BY <3>3, <3>4
  <2>2. act \in [Actors -> Act]
    BY DEF ConfigInit, Idle, Act
  <2>3. QED
    BY <2>1, <2>2 DEF ConfigInit, ConfigTypes, Disk
<1>2. ASSUME NEW n \in Names PROVE Alone(n) /\ Told(n) /\ InForce(n)
  <2>1. \A t \in Actors : act[t].at = "idle"
    BY DEF ConfigInit, Idle
  <2>2. datas[n].val = Default /\ copy[n] = Default /\ disk[n].content = Default
    BY DEF ConfigInit, NoVar
  <2>3. QED
    BY <2>1, <2>2 DEF Alone, Told, InForce, Works, At
<1>3. QED
  BY <1>1, <1>2 DEF ConfigInv

\* What a thread carries, by where it is.
LEMMA Carries ==
    ASSUME NEW a \in Act
    PROVE  /\ a.at \in {"idle", "next", "parse", "set", "notify", "write"}
           /\ a.at \in {"parse", "set", "notify", "write"} => a.name \in Names
           /\ a.at \in {"set", "notify", "write"} =>
                /\ a.value \in Values
                /\ \A x \in {"set", "notify", "write"} :
                     /\ [a EXCEPT !.at = x] \in Act
                     /\ [a EXCEPT !.at = x].at = x
                     /\ [a EXCEPT !.at = x].name = a.name
                     /\ [a EXCEPT !.at = x].value = a.value
  BY DEF Act

LEMMA Returns == \A t : Return(t) \in Act /\ Return(t).at \in {"idle", "next"}
  BY DEF Return, Idle, Act

\* A thread goes from one place to another, and the others stay.
LEMMA GoesOn ==
    ASSUME ConfigTypes, NEW t \in Actors, NEW a \in Act, Goes2(t, a)
    PROVE  act' \in [Actors -> Act] /\ act'[t] = a /\ \A u \in Actors \ {t} : act'[u] = act[u]
  BY DEF ConfigTypes, Goes2

\* A variable that a step leaves alone.
LEMMA Untouched ==
    ASSUME ConfigInv, NEW n \in Names,
           datas'[n] = datas[n], copy'[n] = copy[n], disk'[n] = disk[n],
           s_file_modify_time'[n] = s_file_modify_time[n],
           overlapped'[n] = overlapped[n], touched'[n] = touched[n], again'[n] = again[n], late'[n] = late[n],
           \A t \in Actors : act'[t] = act[t] \/ (~Works(t, n) /\ ~Works(t, n)')
    PROVE  (Alone(n) /\ Told(n) /\ InForce(n))'
<1>1. \A t \in Actors :
        /\ Works(t, n)' = Works(t, n)
        /\ \A s \in {"parse", "set", "notify", "write"} : At(t, n, {s})' = At(t, n, {s})
        /\ At(t, n, {"set", "notify", "write"})' = At(t, n, {"set", "notify", "write"})
        /\ Works(t, n) => act'[t] = act[t]
  BY DEF Works, At
<1>2. Busy(n)' = Busy(n)
  BY <1>1 DEF Busy, Works
<1>3. Alone(n)'
  BY <1>1 DEF ConfigInv, Alone
<1>4. Told(n)'
  BY <1>1 DEF ConfigInv, Told, Works, At
<1>5. InForce(n)'
  <2>1. Skipped(n)' = Skipped(n)
    BY DEF Skipped, Exists
  <2>2. QED
    BY <1>1, <1>2, <2>1, ZenonT(40) DEF ConfigInv, InForce, Works, At
<1>6. QED
  BY <1>3, <1>4, <1>5

-----------------------------------------------------------------------------
\* The steps of threads and of an operator.
LEMMA LookUpKeeps ==
    ASSUME ConfigInv, NEW m \in Names, NEW T \in Types, LookUp(m, T)
    PROVE  ConfigInv'
<1>1. ConfigTypes
  BY DEF ConfigInv
<1>2. /\ datas' \in [Names -> Var] /\ \A n \in Names \ {m} : datas'[n] = datas[n]
      /\ datas'[m].listened = FALSE
  BY <1>1 DEF LookUp, ConfigTypes, Var
<1>3. /\ late' \in [Names -> BOOLEAN] /\ \A n \in Names \ {m} : late'[n] = late[n]
      /\ s_file_modify_time[m] # 0 => late'[m]
  BY <1>1 DEF LookUp, ConfigTypes
<1>4. /\ act' \in [Actors -> Act]
      /\ \A t \in Actors : \/ act'[t] = act[t] /\ ~At(t, m, {"set", "notify", "write"})
                           \/ act'[t] = Return(t) /\ At(t, m, {"set", "notify", "write"})
  <2>1. act' = [t \in Actors |-> IF At(t, m, {"set", "notify", "write"}) THEN Return(t) ELSE act[t]]
    BY DEF LookUp
  <2>2. \A t \in Actors : act[t] \in Act /\ Return(t) \in Act
    BY <1>1, Returns DEF ConfigTypes
  <2>3. QED
    BY <2>1, <2>2
<1>5. UNCHANGED <<copy, disk, now, s_file_modify_time, overlapped, touched, again>>
  BY DEF LookUp, diskVars
<1>6. ConfigTypes'
  BY <1>1, <1>2, <1>3, <1>4, <1>5 DEF ConfigTypes
<1>7. \A t \in Actors : Return(t).at \notin {"parse", "set", "notify", "write"}
  BY Returns
<1>8. ASSUME NEW n \in Names \ {m} PROVE (Alone(n) /\ Told(n) /\ InForce(n))'
  <2>1. \A t \in Actors : act'[t] = act[t] \/ (~Works(t, n) /\ ~Works(t, n)')
    BY <1>4, <1>7 DEF Works, At
  <2>2. QED
    BY <1>2, <1>3, <1>5, <2>1, Untouched
<1>9. Alone(m)'
  BY <1>4, <1>5, <1>7 DEF ConfigInv, Alone, Works, At
<1>10. Told(m)'
  BY <1>2 DEF Told
<1>11. ~Skipped(m)'
  BY <1>1, <1>3, <1>5 DEF Skipped, ConfigTypes, Disk
<1>12. QED
  BY <1>6, <1>8, <1>9, <1>10, <1>11 DEF ConfigInv, InForce

\* A thread is about to set m to a value, as a program or a file asks.
LEMMA CallsSetKeeps ==
    ASSUME ConfigInv, NEW t \in Actors, NEW m \in Names, NEW v \in Values, CallsSet(t, m, v),
           act[t].at \in {"idle", "parse"}, At(t, m, {"parse"}) \/ act[t].at = "idle",
           touched' \in [Names -> BOOLEAN], \A n \in Names \ {m} : touched'[n] = touched[n],
           touched'[m] \/ v = disk[m].content,
           UNCHANGED <<varVars, diskVars, s_file_modify_time, again, late>>
    PROVE  ConfigInv'
<1>1. ConfigTypes /\ [at |-> "set", name |-> m, value |-> v] \in Act
  BY DEF ConfigInv, Act
<1>2. /\ act' \in [Actors -> Act] /\ \A u \in Actors \ {t} : act'[u] = act[u]
      /\ act'[t].at = "set" /\ act'[t].name = m /\ act'[t].value = v
  BY <1>1, GoesOn DEF CallsSet
<1>3. /\ overlapped' \in [Names -> BOOLEAN] /\ \A n \in Names \ {m} : overlapped'[n] = overlapped[n]
      /\ ~overlapped'[m] => ~overlapped[m] /\ \A u \in Actors \ {t} : ~Works(u, m)
  BY <1>1 DEF CallsSet, ConfigTypes, Works
<1>4. UNCHANGED <<datas, copy, disk, now, s_file_modify_time, again, late>>
  BY DEF varVars, diskVars
<1>5. ConfigTypes'
  BY <1>1, <1>2, <1>3, <1>4 DEF ConfigTypes
<1>6. \A n \in Names \ {m} : ~Works(t, n) /\ ~Works(t, n)'
  BY <1>2 DEF Works, At
<1>7. ASSUME NEW n \in Names \ {m} PROVE (Alone(n) /\ Told(n) /\ InForce(n))'
  <2>1. \A u \in Actors : act'[u] = act[u] \/ (~Works(u, n) /\ ~Works(u, n)')
    BY <1>2, <1>6
  <2>2. QED
    BY <1>3, <1>4, <2>1, Untouched
<1>8. Alone(m)'
  BY <1>2, <1>3 DEF Alone, Works, At
<1>9. Told(m)'
  BY <1>2, <1>3, <1>4 DEF ConfigInv, Told, Works, At
<1>10. InForce(m)'
  <2> SUFFICES ASSUME Skipped(m)' PROVE InForce(m)'
    BY DEF InForce
  <2>1. Busy(m)'
    BY <1>2 DEF Busy, At
  <2>2. v = disk'[m].content
    BY <1>4 DEF Skipped
  <2>3. \A u \in Actors \ {t} : ~Works(u, m)'
    BY <1>2, <1>3 DEF Skipped, Works, At
  <2>4. QED
    BY <1>2, <2>1, <2>2, <2>3 DEF InForce, Works, At
<1>11. QED
  BY <1>5, <1>7, <1>8, <1>9, <1>10 DEF ConfigInv

LEMMA SetValueKeeps ==
    ASSUME ConfigInv, NEW t \in Setters, NEW m \in Names, NEW v \in Values, SetValue(t, m, v)
    PROVE  ConfigInv'
<1>1. ConfigTypes /\ t \in Actors
  BY DEF ConfigInv, Actors
<1>2. act[t].at = "idle"
  BY DEF SetValue, Idle
<1>3. touched' \in [Names -> BOOLEAN] /\ touched'[m] /\ \A n \in Names \ {m} : touched'[n] = touched[n]
  BY <1>1 DEF SetValue, ConfigTypes
<1>4. QED
  BY <1>1, <1>2, <1>3, CallsSetKeeps DEF SetValue

\* A thread that works at a variable stays at it, or leaves it; what it carries
\* is the same.
LEMMA Moves ==
    ASSUME ConfigInv, NEW t \in Actors, NEW m \in Names, Works(t, m), NEW a \in Act, Goes2(t, a),
           a.at \in {"idle", "next"} \/ (a.at \in {"notify", "write"} /\ a.name = m /\ a.value = act[t].value),
           NEW n \in Names \ {m},
           datas'[n] = datas[n], copy'[n] = copy[n],
           UNCHANGED <<disk, s_file_modify_time, pastVars>>
    PROVE  (Alone(n) /\ Told(n) /\ InForce(n))'
<1>1. act'[t] = a /\ \A u \in Actors \ {t} : act'[u] = act[u]
  BY GoesOn DEF ConfigInv
<1>2. ~Works(t, n) /\ ~Works(t, n)'
  BY <1>1 DEF Works, At
<1>3. \A u \in Actors : act'[u] = act[u] \/ (~Works(u, n) /\ ~Works(u, n)')
  BY <1>1, <1>2
<1>4. UNCHANGED <<overlapped, touched, again, late>>
  BY DEF pastVars
<1>5. QED
  BY <1>3, <1>4, Untouched

\* Where a thread that sets a variable is, and what it carries.
LEMMA Setting ==
    ASSUME ConfigInv, NEW t \in Actors, act[t].at \in {"set", "notify", "write"}
    PROVE  /\ ConfigTypes /\ act[t] \in Act
           /\ \E m \in Names, v \in Values : act[t].name = m /\ act[t].value = v /\ Works(t, m)
<1>1. ConfigTypes /\ act[t] \in Act
  BY DEF ConfigInv, ConfigTypes
<1>2. act[t].name \in Names /\ act[t].value \in Values
  BY <1>1, Carries
<1>3. QED
  BY <1>1, <1>2 DEF Works, At

LEMMA CompareKeeps ==
    ASSUME ConfigInv, NEW t \in Actors, Compare(t)
    PROVE  ConfigInv'
<1>0. act[t].at = "set"
  BY DEF Compare
<1>1. ConfigTypes /\ act[t] \in Act
  BY <1>0, Setting
<1>2. PICK m \in Names, v \in Values : act[t].name = m /\ act[t].value = v /\ Works(t, m)
  BY <1>0, Setting
<1>3. PICK a \in Act : /\ Goes2(t, a)
                       /\ \/ a.at \in {"idle", "next"} /\ datas[m].val = v
                          \/ a.at = "notify" /\ a.name = m /\ a.value = v
  <2>1. CASE datas[m].val = v
    BY <1>2, <2>1, Returns DEF Compare
  <2>2. CASE datas[m].val # v
    <3>1. Goes2(t, [act[t] EXCEPT !.at = "notify"])
      BY <1>2, <2>2 DEF Compare
    <3>2. /\ [act[t] EXCEPT !.at = "notify"] \in Act /\ [act[t] EXCEPT !.at = "notify"].at = "notify"
          /\ [act[t] EXCEPT !.at = "notify"].name = m /\ [act[t] EXCEPT !.at = "notify"].value = v
      BY <1>0, <1>1, <1>2, Carries
    <3>3. QED
      BY <3>1, <3>2
  <2>3. QED
    BY <2>1, <2>2
<1>4. act' \in [Actors -> Act] /\ act'[t] = a /\ \A u \in Actors \ {t} : act'[u] = act[u]
  BY <1>1, <1>3, GoesOn
<1>5. /\ UNCHANGED <<datas, copy, disk, now, s_file_modify_time, overlapped, touched, again, late>>
      /\ UNCHANGED <<disk, s_file_modify_time, pastVars>>
  BY DEF Compare, diskVars, pastVars
<1>6. ConfigTypes'
  BY <1>1, <1>4, <1>5 DEF ConfigTypes
<1>7. ASSUME NEW n \in Names \ {m} PROVE (Alone(n) /\ Told(n) /\ InForce(n))'
  <2>1. datas'[n] = datas[n] /\ copy'[n] = copy[n]
    BY <1>5
  <2>2. QED
    BY <1>2, <1>3, <1>5, <2>1, Moves
<1>8. \A u \in Actors : Works(u, m)' => Works(u, m)
  BY <1>2, <1>4 DEF Works, At
<1>9. Alone(m)'
  BY <1>5, <1>8 DEF ConfigInv, Alone
<1>10. \A u \in Actors : At(u, m, {"write"})' = At(u, m, {"write"}) /\ (At(u, m, {"write"}) => act'[u] = act[u])
  BY <1>0, <1>3, <1>4 DEF At
<1>11. Told(m)'
  BY <1>5, <1>10 DEF ConfigInv, Told
<1>12. ASSUME Skipped(m)'
       PROVE  /\ ~Busy(m)' => datas'[m].val = disk'[m].content
              /\ \A u \in Actors : At(u, m, {"set", "notify", "write"})' => act'[u].value = disk'[m].content
  <2>1. Skipped(m) /\ disk'[m] = disk[m] /\ datas'[m] = datas[m]
    BY <1>5, <1>12 DEF Skipped, Exists
  <2>2. v = disk[m].content
    BY <1>0, <1>2, <2>1 DEF ConfigInv, InForce, At
  <2>3. \A u \in Actors : At(u, m, {"set", "notify", "write"})' => act'[u].value = disk[m].content
    BY <1>3, <1>4, <2>1, <2>2 DEF ConfigInv, InForce, At
  <2>4. ASSUME ~Busy(m)' PROVE datas[m].val = disk[m].content
    <3>1. a.at # "notify" \/ a.name # m
      BY <1>4, <2>4 DEF Busy, At
    <3>2. QED
      BY <1>3, <2>2, <3>1
  <2>5. QED
    BY <2>1, <2>3, <2>4
<1>13. QED
  BY <1>6, <1>7, <1>9, <1>11, <1>12 DEF ConfigInv, InForce

LEMMA NotifyKeeps ==
    ASSUME ConfigInv, NEW t \in Actors, Notify(t)
    PROVE  ConfigInv'
<1>0. act[t].at = "notify"
  BY DEF Notify
<1>1. ConfigTypes /\ act[t] \in Act
  BY <1>0, Setting
<1>2. PICK m \in Names, v \in Values : act[t].name = m /\ act[t].value = v /\ Works(t, m)
  BY <1>0, Setting
<1>3. PICK a \in Act : Goes2(t, a) /\ a.at = "write" /\ a.name = m /\ a.value = v
  <2>1. Goes2(t, [act[t] EXCEPT !.at = "write"])
    BY DEF Notify
  <2>2. /\ [act[t] EXCEPT !.at = "write"] \in Act /\ [act[t] EXCEPT !.at = "write"].at = "write"
        /\ [act[t] EXCEPT !.at = "write"].name = m /\ [act[t] EXCEPT !.at = "write"].value = v
    BY <1>0, <1>1, <1>2, Carries
  <2>3. QED
    BY <2>1, <2>2
<1>4. act' \in [Actors -> Act] /\ act'[t] = a /\ \A u \in Actors \ {t} : act'[u] = act[u]
  BY <1>1, <1>3, GoesOn
<1>5. /\ UNCHANGED <<datas, disk, now, s_file_modify_time, overlapped, touched, again, late>>
      /\ UNCHANGED <<disk, s_file_modify_time, pastVars>>
  BY DEF Notify, diskVars, pastVars
<1>6. /\ copy' \in [Names -> Values] /\ \A n \in Names \ {m} : copy'[n] = copy[n]
      /\ datas[m].listened => copy'[m] = v
  BY <1>1, <1>2 DEF Notify, ConfigTypes
<1>7. ConfigTypes'
  BY <1>1, <1>4, <1>5, <1>6 DEF ConfigTypes
<1>8. ASSUME NEW n \in Names \ {m} PROVE (Alone(n) /\ Told(n) /\ InForce(n))'
  <2>1. datas'[n] = datas[n] /\ copy'[n] = copy[n]
    BY <1>5, <1>6
  <2>2. QED
    BY <1>2, <1>3, <1>5, <2>1, Moves
<1>9. \A u \in Actors : Works(u, m)' <=> Works(u, m)
  BY <1>2, <1>3, <1>4 DEF Works, At
<1>10. Alone(m)'
  BY <1>5, <1>9 DEF ConfigInv, Alone
<1>11. Told(m)'
  <2> SUFFICES ASSUME datas'[m].listened, ~overlapped'[m]
               PROVE  /\ \A u \in Actors : At(u, m, {"write"})' => copy'[m] = act'[u].value
                      /\ (\A u \in Actors : ~At(u, m, {"write"})') => copy'[m] = datas'[m].val
    BY DEF Told
  <2>1. copy'[m] = v /\ At(t, m, {"write"})' /\ act'[t].value = v
    BY <1>3, <1>4, <1>5, <1>6 DEF At
  <2>2. \A u \in Actors : Works(u, m)' => u = t
    BY <1>2, <1>5, <1>9 DEF ConfigInv, Alone
  <2>3. QED
    BY <2>1, <2>2 DEF Works, At
<1>12. ASSUME Skipped(m)'
       PROVE  /\ Busy(m)'
              /\ \A u \in Actors : At(u, m, {"set", "notify", "write"})' => act'[u].value = disk'[m].content
  <2>1. Skipped(m) /\ disk'[m] = disk[m]
    BY <1>5, <1>12 DEF Skipped, Exists
  <2>2. v = disk[m].content
    BY <1>0, <1>2, <2>1 DEF ConfigInv, InForce, At
  <2>3. QED
    BY <1>3, <1>4, <2>1, <2>2 DEF ConfigInv, InForce, At, Busy
<1>13. QED
  BY <1>7, <1>8, <1>10, <1>11, <1>12 DEF ConfigInv, InForce

LEMMA WriteKeeps ==
    ASSUME ConfigInv, NEW t \in Actors, Store(t)
    PROVE  ConfigInv'
<1>0. act[t].at = "write"
  BY DEF Store
<1>1. ConfigTypes /\ act[t] \in Act
  BY <1>0, Setting
<1>2. PICK m \in Names, v \in Values : act[t].name = m /\ act[t].value = v /\ Works(t, m)
  BY <1>0, Setting
<1>3. PICK a \in Act : Goes2(t, a) /\ a.at \in {"idle", "next"}
  BY Returns DEF Store
<1>4. act' \in [Actors -> Act] /\ act'[t] = a /\ \A u \in Actors \ {t} : act'[u] = act[u]
  BY <1>1, <1>3, GoesOn
<1>5. /\ UNCHANGED <<copy, disk, now, s_file_modify_time, overlapped, touched, again, late>>
      /\ UNCHANGED <<disk, s_file_modify_time, pastVars>>
  BY DEF Store, diskVars, pastVars
<1>6. /\ datas' \in [Names -> Var] /\ \A n \in Names \ {m} : datas'[n] = datas[n]
      /\ datas'[m].val = v /\ datas'[m].listened = datas[m].listened /\ datas'[m].type = datas[m].type
  <2> DEFINE x == [datas[m] EXCEPT !.val = v]
  <2>1. x \in Var /\ x.val = v /\ x.listened = datas[m].listened /\ x.type = datas[m].type
    BY <1>1 DEF ConfigTypes, Var
  <2>2. datas' = [datas EXCEPT ![m] = x]
    BY <1>2 DEF Store
  <2> HIDE DEF x
  <2>3. QED
    BY <1>1, <2>1, <2>2 DEF ConfigTypes
<1>7. ConfigTypes'
  BY <1>1, <1>4, <1>5, <1>6 DEF ConfigTypes
<1>8. ASSUME NEW n \in Names \ {m} PROVE (Alone(n) /\ Told(n) /\ InForce(n))'
  <2>1. datas'[n] = datas[n] /\ copy'[n] = copy[n]
    BY <1>5, <1>6
  <2>2. QED
    BY <1>2, <1>3, <1>5, <2>1, Moves
<1>9. \A u \in Actors : Works(u, m)' => Works(u, m) /\ u # t
  BY <1>3, <1>4 DEF Works, At
<1>10. Alone(m)'
  BY <1>5, <1>9 DEF ConfigInv, Alone
<1>11. ASSUME ~overlapped'[m] PROVE \A u \in Actors : ~Works(u, m)'
  BY <1>2, <1>5, <1>9, <1>11 DEF ConfigInv, Alone
<1>12. Told(m)'
  <2> SUFFICES ASSUME datas'[m].listened, ~overlapped'[m]
               PROVE  /\ \A u \in Actors : At(u, m, {"write"})' => copy'[m] = act'[u].value
                      /\ (\A u \in Actors : ~At(u, m, {"write"})') => copy'[m] = datas'[m].val
    BY DEF Told
  <2>1. copy'[m] = v
    BY <1>0, <1>2, <1>5, <1>6 DEF ConfigInv, Told, At
  <2>2. QED
    BY <1>6, <1>11, <2>1 DEF Works, At
<1>13. ASSUME Skipped(m)'
       PROVE  /\ datas'[m].val = disk'[m].content
              /\ \A u \in Actors : ~At(u, m, {"set", "notify", "write"})'
  <2>1. Skipped(m) /\ disk'[m] = disk[m]
    BY <1>5, <1>6, <1>13 DEF Skipped, Exists
  <2>2. v = disk[m].content
    BY <1>0, <1>2, <2>1 DEF ConfigInv, InForce, At
  <2>3. QED
    BY <1>6, <1>11, <1>13, <2>1, <2>2 DEF Skipped, Works, At
<1>14. QED
  BY <1>7, <1>8, <1>10, <1>12, <1>13 DEF ConfigInv, InForce

\* A step that moves t, which works at nothing, to where it works at nothing.
LEMMA RestsKeeps ==
    ASSUME ConfigInv, NEW t \in Actors, NEW a \in Act, Goes2(t, a), a.at \in {"idle", "next"},
           act[t].at \in {"idle", "next", "parse"},
           act[t].at = "parse" => ~Skipped(act[t].name),
           UNCHANGED <<varVars, diskVars, s_file_modify_time, pastVars>>
    PROVE  ConfigInv'
<1>1. act' \in [Actors -> Act] /\ act'[t] = a /\ \A u \in Actors \ {t} : act'[u] = act[u]
  BY GoesOn DEF ConfigInv
<1>2. UNCHANGED <<datas, copy, disk, now, s_file_modify_time, overlapped, touched, again, late>>
  BY DEF varVars, diskVars, pastVars
<1>3. ConfigTypes'
  BY <1>1, <1>2 DEF ConfigInv, ConfigTypes
<1>4. ASSUME NEW n \in Names PROVE (Alone(n) /\ Told(n) /\ InForce(n))'
  <2>1. CASE ~Works(t, n)
    <3>1. \A u \in Actors : act'[u] = act[u] \/ (~Works(u, n) /\ ~Works(u, n)')
      BY <1>1, <2>1 DEF Works, At
    <3>2. QED
      BY <1>2, <3>1, Untouched
  <2>2. CASE Works(t, n)
    <3>1. act[t].at = "parse" /\ act[t].name = n
      BY <2>2 DEF Works, At
    <3>2. \A u \in Actors : Works(u, n)' => Works(u, n)
      BY <1>1 DEF Works, At
    <3>3. Alone(n)'
      BY <1>2, <3>2 DEF ConfigInv, Alone
    <3>4. \A u \in Actors : At(u, n, {"write"})' = At(u, n, {"write"}) /\ (At(u, n, {"write"}) => act'[u] = act[u])
      BY <1>1, <3>1 DEF At
    <3>5. Told(n)'
      BY <1>2, <3>4 DEF ConfigInv, Told
    <3>6. ~Skipped(n)'
      BY <1>2, <3>1 DEF Skipped, Exists
    <3>7. QED
      BY <3>3, <3>5, <3>6 DEF InForce
  <2>3. QED
    BY <2>1, <2>2
<1>5. QED
  BY <1>3, <1>4 DEF ConfigInv

LEMMA StatKeeps ==
    ASSUME ConfigInv, NEW t \in Loaders, NEW m \in Names, NEW force \in BOOLEAN, Stat(t, m, force)
    PROVE  ConfigInv'
<1>1. ConfigTypes /\ t \in Actors /\ act[t].at = "next"
  BY DEF ConfigInv, Actors, Stat
<1>2. UNCHANGED <<datas, copy, disk, now, touched, again, late>>
  BY DEF Stat, varVars, diskVars
<1>3. CASE UNCHANGED <<act, s_file_modify_time, overlapped>>
  <2>1. ConfigTypes'
    BY <1>1, <1>2, <1>3 DEF ConfigTypes
  <2>2. ASSUME NEW n \in Names PROVE (Alone(n) /\ Told(n) /\ InForce(n))'
    BY <1>2, <1>3, Untouched
  <2>3. QED
    BY <2>1, <2>2 DEF ConfigInv
<1>4. CASE /\ s_file_modify_time' = [s_file_modify_time EXCEPT ![m] = disk[m].mtime]
           /\ overlapped' = [overlapped EXCEPT ![m] = @ \/ Busy(m)]
           /\ Goes2(t, [at |-> "parse", name |-> m])
  <2>1. [at |-> "parse", name |-> m] \in Act
    BY DEF Act
  <2>2. /\ act' \in [Actors -> Act] /\ act'[t].at = "parse" /\ act'[t].name = m
        /\ \A u \in Actors \ {t} : act'[u] = act[u]
    BY <1>1, <1>4, <2>1, GoesOn
  <2>3. /\ overlapped' \in [Names -> BOOLEAN] /\ \A n \in Names \ {m} : overlapped'[n] = overlapped[n]
        /\ ~overlapped'[m] => ~overlapped[m] /\ \A u \in Actors : ~Works(u, m)
    BY <1>1, <1>4 DEF ConfigTypes, Busy, Works
  <2>4. /\ s_file_modify_time' \in [Names -> Nat] /\ s_file_modify_time'[m] = disk[m].mtime
        /\ \A n \in Names \ {m} : s_file_modify_time'[n] = s_file_modify_time[n]
    BY <1>1, <1>4 DEF ConfigTypes, Disk
  <2>5. ConfigTypes'
    BY <1>1, <1>2, <2>2, <2>3, <2>4 DEF ConfigTypes, Disk
  <2>6. ASSUME NEW n \in Names \ {m} PROVE (Alone(n) /\ Told(n) /\ InForce(n))'
    <3>1. \A u \in Actors : act'[u] = act[u] \/ (~Works(u, n) /\ ~Works(u, n)')
      BY <1>1, <2>2 DEF Works, At
    <3>2. QED
      BY <1>2, <2>3, <2>4, <3>1, Untouched
  <2>7. ~overlapped'[m] => \A u \in Actors : (Works(u, m)' => u = t) /\ ~At(u, m, {"set", "notify", "write"})'
    BY <2>2, <2>3 DEF Works, At
  <2>8. Alone(m)'
    BY <2>7 DEF Alone
  <2>9. \A u \in Actors : At(u, m, {"write"})' = At(u, m, {"write"}) /\ (At(u, m, {"write"}) => act'[u] = act[u])
    BY <1>1, <2>2 DEF At
  <2>10. Told(m)'
    BY <1>2, <2>3, <2>9 DEF ConfigInv, Told
  <2>11. Busy(m)'
    BY <1>1, <2>2 DEF Busy, At
  <2>12. InForce(m)'
    BY <2>7, <2>11 DEF InForce, Skipped
  <2>13. QED
    BY <2>5, <2>6, <2>8, <2>10, <2>12 DEF ConfigInv
<1>5. QED
  BY <1>3, <1>4 DEF Stat

LEMMA ParseKeeps ==
    ASSUME ConfigInv, NEW t \in Loaders, Parse(t)
    PROVE  ConfigInv'
<1>1. ConfigTypes /\ t \in Actors /\ act[t] \in Act /\ act[t].at = "parse"
  BY DEF ConfigInv, ConfigTypes, Actors, Parse
<1>2. PICK m \in Names : act[t].name = m
  BY <1>1, Carries
<1>3. UNCHANGED <<varVars, diskVars, s_file_modify_time, again, late>>
  BY DEF Parse
<1>4. CASE Exists(m) /\ disk[m].content \in Values
  <2>1. CallsSet(t, m, disk[m].content) /\ touched' = [touched EXCEPT ![m] = FALSE]
    BY <1>2, <1>4 DEF Parse
  <2>2. touched' \in [Names -> BOOLEAN] /\ \A n \in Names \ {m} : touched'[n] = touched[n]
    BY <1>1, <2>1 DEF ConfigTypes
  <2>3. At(t, m, {"parse"})
    BY <1>1, <1>2 DEF At
  <2>4. QED
    BY <1>1, <1>3, <1>4, <2>1, <2>2, <2>3, CallsSetKeeps
<1>5. CASE ~(Exists(m) /\ disk[m].content \in Values)
  <2>1. /\ Goes2(t, [at |-> "next"]) /\ UNCHANGED <<overlapped, touched>>
        /\ [at |-> "next"] \in Act
    BY <1>2, <1>5 DEF Parse, Act
  <2>2. UNCHANGED <<varVars, diskVars, s_file_modify_time, pastVars>>
    BY <1>3, <2>1 DEF pastVars
  <2>3. ~Skipped(act[t].name)
    BY <1>2, <1>5 DEF Skipped
  <2>4. QED
    BY <1>1, <2>1, <2>2, <2>3, RestsKeeps
<1>6. QED
  BY <1>4, <1>5

LEMMA EditKeeps ==
    ASSUME ConfigInv, NEW m \in Names, NEW c \in Values \cup {Odd, Bad}, Edit(m, c)
    PROVE  ConfigInv'
<1>1. ConfigTypes
  BY DEF ConfigInv
<1>2. UNCHANGED <<datas, copy, act, now, s_file_modify_time, overlapped, touched, late>>
  BY DEF Edit, varVars
<1>3. /\ disk' = [disk EXCEPT ![m] = [content |-> c, mtime |-> now]]
      /\ again' = [again EXCEPT ![m] = @ \/ disk[m].mtime = now]
  BY DEF Edit
<1>4. disk[m].mtime \in Nat \ {0} /\ s_file_modify_time[m] \in Nat /\ now \in Nat \ {0}
      /\ s_file_modify_time[m] <= disk[m].mtime /\ disk[m].mtime <= now
  BY <1>1 DEF ConfigTypes, Disk
<1>5. /\ disk' \in [Names -> Disk] /\ disk'[m].mtime = now
      /\ \A n \in Names \ {m} : disk'[n] = disk[n]
  BY <1>1, <1>3, <1>4 DEF ConfigTypes, Disk
<1>6. /\ again' \in [Names -> BOOLEAN]
      /\ disk[m].mtime = now => again'[m]
      /\ \A n \in Names \ {m} : again'[n] = again[n]
  BY <1>1, <1>3 DEF ConfigTypes
<1>7. ConfigTypes'
  BY <1>1, <1>2, <1>4, <1>5, <1>6 DEF ConfigTypes
<1>8. ASSUME NEW n \in Names \ {m} PROVE (Alone(n) /\ Told(n) /\ InForce(n))'
  BY <1>2, <1>5, <1>6, Untouched
<1>9. Alone(m)'
  BY <1>2 DEF ConfigInv, Alone, Works, At
<1>10. Told(m)'
  BY <1>2 DEF ConfigInv, Told, At
<1>11. ~Skipped(m)'
  BY <1>2, <1>4, <1>5, <1>6 DEF Skipped
<1>12. QED
  BY <1>7, <1>8, <1>9, <1>10, <1>11 DEF ConfigInv, InForce

LEMMA ConfigStep == ConfigInv /\ [ConfigNext]_configVars => ConfigInv'
<1> SUFFICES ASSUME ConfigInv, [ConfigNext]_configVars PROVE ConfigInv'
  OBVIOUS
<1>1. ASSUME NEW n \in Names, NEW T \in Types, LookUp(n, T) PROVE ConfigInv'
  BY <1>1, LookUpKeeps
<1>2. ASSUME NEW t \in Setters, NEW n \in Names, NEW v \in Values, SetValue(t, n, v) PROVE ConfigInv'
  BY <1>2, SetValueKeeps
<1>3. ASSUME NEW t \in Actors, SetStep(t) PROVE ConfigInv'
  BY <1>3, CompareKeeps, NotifyKeeps, WriteKeeps DEF SetStep
<1>4. ASSUME NEW t \in Loaders, Load(t) PROVE ConfigInv'
  <2>1. t \in Actors /\ act[t].at = "idle" /\ [at |-> "next"] \in Act /\ Goes2(t, [at |-> "next"])
    BY <1>4 DEF Load, Actors, Act, Idle
  <2>2. UNCHANGED <<varVars, diskVars, s_file_modify_time, pastVars>>
    BY <1>4 DEF Load
  <2>3. QED
    BY <2>1, <2>2, RestsKeeps
<1>5. ASSUME NEW t \in Loaders, LoaderStep(t) PROVE ConfigInv'
  <2>1. ASSUME LoadEnds(t) PROVE ConfigInv'
    <3>1. t \in Actors /\ act[t].at = "next" /\ Idle \in Act /\ Idle.at = "idle" /\ Goes2(t, Idle)
      BY <2>1 DEF LoadEnds, Actors, Act, Idle
    <3>2. UNCHANGED <<varVars, diskVars, s_file_modify_time, pastVars>>
      BY <2>1 DEF LoadEnds
    <3>3. QED
      BY <3>1, <3>2, RestsKeeps
  <2>2. QED
    BY <1>5, <2>1, StatKeeps, ParseKeeps DEF LoaderStep
<1>6. ASSUME NEW n \in Names, NEW c \in Values \cup {Odd, Bad}, Edit(n, c) PROVE ConfigInv'
  BY <1>6, EditKeeps
<1>7. CASE Tick \/ UNCHANGED configVars
  <2>1. /\ UNCHANGED <<datas, copy, act, disk, s_file_modify_time, overlapped, touched, again, late>>
        /\ now' = now \/ now' = now + 1
    BY <1>7 DEF Tick, configVars, varVars, diskVars, pastVars
  <2>2. ConfigTypes'
    BY <2>1 DEF ConfigInv, ConfigTypes, Disk
  <2>3. ASSUME NEW n \in Names PROVE (Alone(n) /\ Told(n) /\ InForce(n))'
    BY <2>1, Untouched
  <2>4. QED
    BY <2>2, <2>3 DEF ConfigInv
<1>8. QED
  BY <1>1, <1>2, <1>3, <1>4, <1>5, <1>6, <1>7 DEF ConfigNext

\* Variables, listeners and files agree, for any number of threads that set,
\* load and look up variables (ConfigVar::set_value, Config::look_up,
\* load_from_conf_dir).
THEOREM ConfigIsSound == ConfigSpec => []ConfigSound
<1>1. ConfigSpec => []ConfigInv
  BY ConfigInitInv, ConfigStep, PTL DEF ConfigSpec
<1>2. QED
  BY <1>1, InvGivesSound, PTL

-----------------------------------------------------------------------------
\* Sequences, element by element.
LEMMA Appending ==
    ASSUME NEW S, NEW s \in Seq(S), NEW e \in S
    PROVE  /\ Append(s, e) \in Seq(S) /\ Len(Append(s, e)) = Len(s) + 1
           /\ \A i \in 1 .. Len(s) : Append(s, e)[i] = s[i]
           /\ Append(s, e)[Len(s) + 1] = e
  OBVIOUS

LEMMA TailOf ==
    ASSUME NEW S, NEW s \in Seq(S), s # <<>>
    PROVE  /\ Len(s) \in Nat /\ Len(s) >= 1 /\ Head(s) = s[1] /\ Head(s) \in S
           /\ Tail(s) \in Seq(S) /\ Len(Tail(s)) = Len(s) - 1
           /\ \A i \in 1 .. Len(s) - 1 : Tail(s)[i] = s[i + 1]
  OBVIOUS

LEMMA Joining ==
    ASSUME NEW S, NEW f \in Seq(S), NEW g \in Seq(S)
    PROVE  /\ f \o g \in Seq(S) /\ Len(f \o g) = Len(f) + Len(g)
           /\ \A i \in 1 .. Len(f) : (f \o g)[i] = f[i]
           /\ \A i \in 1 .. Len(g) : (f \o g)[Len(f) + i] = g[i]
  OBVIOUS

LEMMA NonEmpty ==
    ASSUME NEW S, NEW s \in Seq(S)
    PROVE  Len(s) \in Nat /\ (s = <<>> <=> Len(s) = 0) /\ DOMAIN s = 1 .. Len(s)
  OBVIOUS

\* The queues of buffers when a line is stored, ...
LEMMA QueuedStore ==
    ASSUME NEW bs, NEW c, NEW fr, NEW fl, Queued(bs, c, fr, fl), NEW e \in Nat, Len(bs[c]) < Capacity
    PROVE  Queued([bs EXCEPT ![c] = Append(@, e)], c, fr, fl)
<1> DEFINE nb == [bs EXCEPT ![c] = Append(@, e)]
<1>1. bs \in [Bufs -> Seq(Nat)] /\ c \in Bufs
  BY DEF Queued
<1>2. Append(bs[c], e) \in Seq(Nat) /\ Len(Append(bs[c], e)) = Len(bs[c]) + 1 /\ Len(bs[c]) \in Nat
  BY <1>1, Appending, NonEmpty
<1>3. /\ nb \in [Bufs -> Seq(Nat)] /\ Len(nb[c]) <= Capacity
      /\ \A b \in Bufs \ {c} : nb[b] = bs[b]
  BY <1>1, <1>2
<1> HIDE DEF nb
<1>4. Placed(nb, c, fr, Len(fr), fl, Len(fl))
  BY <1>3 DEF Queued, Placed
<1>5. Queued(nb, c, fr, fl)
  BY <1>3, <1>4 DEF Queued
<1>6. QED
  BY <1>5 DEF nb

\* A queue without its head, and with one more at its end.
Without(tr, fr, n) == \A i \in 1 .. n - 1 : tr[i] = fr[i + 1]
With(al, fl, m, e) == (\A i \in 1 .. m : al[i] = fl[i]) /\ al[m + 1] = e

\* A buffer is reset.
Cleared(nb, bs, b) == \A d \in Bufs : nb[d] = IF d = b THEN <<>> ELSE bs[d]

\* ... when the current buffer is full and another is free, ...
LEMMA PlacedNext ==
    ASSUME NEW bs, NEW c \in Bufs, NEW fr, NEW n, NEW fl, NEW m, Placed(bs, c, fr, n, fl, m), n > 0, c = fr[1],
           NEW tr, Without(tr, fr, n), NEW al, With(al, fl, m, c),
           NEW d, n > 1 => d = tr[1]
    PROVE  Placed(bs, d, tr, n - 1, al, m + 1) /\ (n > 1 => bs[tr[1]] = <<>> /\ tr[1] \in Bufs)
<1>1. n \in Nat /\ m \in Nat /\ n - 1 \in Nat /\ m + 1 \in Nat /\ (n - 1) + (m + 1) = BufferNum
  BY DEF Placed
<1>2. \A i \in 1 .. n - 1 : i + 1 \in 1 .. n /\ i + 1 # 1 /\ tr[i] = fr[i + 1]
  BY <1>1 DEF Without
<1>3. \A i \in 1 .. n - 1 : tr[i] \in Bufs /\ tr[i] # c /\ bs[tr[i]] = <<>>
  BY <1>1, <1>2 DEF Placed
<1>4. al[m + 1] = c /\ \A i \in 1 .. m + 1 : (i \in 1 .. m /\ al[i] = fl[i]) \/ (i = m + 1 /\ al[i] = c)
  BY <1>1 DEF With
<1>5. \A i \in 1 .. m + 1 : al[i] \in Bufs
  BY <1>4 DEF Placed
<1>6. \A i, j \in 1 .. n - 1 : tr[i] = tr[j] => i = j
  <2> SUFFICES ASSUME NEW i \in 1 .. n - 1, NEW j \in 1 .. n - 1, tr[i] = tr[j] PROVE i = j
    OBVIOUS
  <2>1. i + 1 = j + 1
    BY <1>2 DEF Placed
  <2>2. QED
    BY <1>1, <2>1
<1>7. \A i \in 1 .. m : fl[i] # c
  BY <1>1 DEF Placed
<1>8. \A i, j \in 1 .. m + 1 : al[i] = al[j] => i = j
  BY <1>4, <1>7 DEF Placed
<1>9. \A i \in 1 .. n - 1, j \in 1 .. m + 1 : tr[i] # al[j]
  BY <1>2, <1>3, <1>4 DEF Placed
<1>10. ASSUME NEW b \in Bufs PROVE (\E i \in 1 .. n - 1 : tr[i] = b) \/ (\E i \in 1 .. m + 1 : al[i] = b)
  <2>1. CASE \E i \in 1 .. n : fr[i] = b
    <3>1. PICK i \in 1 .. n : fr[i] = b
      BY <2>1
    <3>2. CASE i = 1
      <4>1. m + 1 \in 1 .. m + 1 /\ al[m + 1] = b
        BY <1>1, <1>4, <3>1, <3>2
      <4>2. QED
        BY <4>1
    <3>3. CASE i # 1
      <4>1. i - 1 \in 1 .. n - 1 /\ (i - 1) + 1 = i
        BY <1>1, <3>3
      <4>2. tr[i - 1] = b
        BY <1>2, <3>1, <4>1
      <4>3. QED
        BY <4>1, <4>2
    <3>4. QED
      BY <3>2, <3>3
  <2>2. CASE \E i \in 1 .. m : fl[i] = b
    <3>1. PICK i \in 1 .. m : fl[i] = b
      BY <2>2
    <3>2. i \in 1 .. m + 1 /\ al[i] = b
      BY <1>1, <3>1 DEF With
    <3>3. QED
      BY <3>2
  <2>3. QED
    BY <2>1, <2>2 DEF Placed
<1>11. n > 1 => bs[tr[1]] = <<>> /\ tr[1] \in Bufs
  <2>1. n > 1 => 1 \in 1 .. n - 1
    BY <1>1
  <2>2. QED
    BY <1>3, <2>1
<1>12. Placed(bs, d, tr, n - 1, al, m + 1)
  BY <1>1, <1>3, <1>5, <1>6, <1>8, <1>9, <1>10 DEF Placed
<1>13. QED
  BY <1>11, <1>12

LEMMA QueuedNext ==
    ASSUME NEW bs, NEW c, NEW fr, NEW fl, Queued(bs, c, fr, fl), Len(fr) > 1, c = fr[1]
    PROVE  /\ Queued(bs, Head(Tail(fr)), Tail(fr), Append(fl, c)) /\ bs[Head(Tail(fr))] = <<>>
           /\ Tail(fr) # <<>> /\ Head(Tail(fr)) = Tail(fr)[1]
<1>1. fr \in Seq(Bufs) /\ fl \in Seq(Bufs) /\ c \in Bufs /\ Placed(bs, c, fr, Len(fr), fl, Len(fl))
  BY DEF Queued
<1>2. fr # <<>> /\ Len(fr) \in Nat
  BY <1>1, NonEmpty
<1>3. Tail(fr) \in Seq(Bufs) /\ Len(Tail(fr)) = Len(fr) - 1 /\ Without(Tail(fr), fr, Len(fr))
  BY <1>1, <1>2, TailOf DEF Without
<1>4. /\ Append(fl, c) \in Seq(Bufs) /\ Len(Append(fl, c)) = Len(fl) + 1
      /\ With(Append(fl, c), fl, Len(fl), c)
  BY <1>1, Appending DEF With
<1>5. Len(fr) > 0 /\ Len(Tail(fr)) # 0
  BY <1>2, <1>3
<1>6. Tail(fr) # <<>>
  BY <1>3, <1>5, NonEmpty
<1>7. Head(Tail(fr)) = Tail(fr)[1]
  BY <1>3, <1>6, TailOf
<1>8. /\ Placed(bs, Tail(fr)[1], Tail(fr), Len(fr) - 1, Append(fl, c), Len(fl) + 1)
      /\ bs[Tail(fr)[1]] = <<>> /\ Tail(fr)[1] \in Bufs
  <2>1. PICK d : d = Tail(fr)[1]
    OBVIOUS
  <2>2. Placed(bs, d, Tail(fr), Len(fr) - 1, Append(fl, c), Len(fl) + 1)
    BY <1>1, <1>3, <1>4, <1>5, <2>1, PlacedNext
  <2>3. bs[Tail(fr)[1]] = <<>> /\ Tail(fr)[1] \in Bufs
    BY <1>1, <1>3, <1>4, <1>5, <2>1, PlacedNext
  <2>4. QED
    BY <2>1, <2>2, <2>3
<1>9. QED
  BY <1>3, <1>4, <1>6, <1>7, <1>8 DEF Queued

\* ... when it is full and was the last, ...
LEMMA QueuedLast ==
    ASSUME NEW bs, NEW c, NEW fr, NEW fl, Queued(bs, c, fr, fl), Len(fr) = 1, c = fr[1]
    PROVE  Queued(bs, c, <<>>, Append(fl, c))
<1>1. fr \in Seq(Bufs) /\ fl \in Seq(Bufs) /\ c \in Bufs /\ Placed(bs, c, fr, Len(fr), fl, Len(fl))
  BY DEF Queued
<1>2. /\ Append(fl, c) \in Seq(Bufs) /\ Len(Append(fl, c)) = Len(fl) + 1
      /\ With(Append(fl, c), fl, Len(fl), c)
  BY <1>1, Appending DEF With
<1>3. <<>> \in Seq(Bufs) /\ Len(<<>>) = 0 /\ Len(fr) - 1 = 0 /\ Len(fr) > 0 /\ ~(Len(fr) > 1)
  OBVIOUS
<1>4. Without(<<>>, fr, Len(fr))
  BY <1>3 DEF Without
<1>5. Placed(bs, c, <<>>, Len(fr) - 1, Append(fl, c), Len(fl) + 1)
  BY <1>1, <1>2, <1>3, <1>4, PlacedNext
<1>6. QED
  BY <1>1, <1>2, <1>3, <1>5 DEF Queued

\* ... when a waiting thread takes the first free one, ...
LEMMA QueuedTake ==
    ASSUME NEW bs, NEW c, NEW fr, NEW fl, Queued(bs, c, fr, fl), fr # <<>>,
           \A i \in 1 .. Len(fr) : bs[fr[i]] = <<>>
    PROVE  Queued(bs, Head(fr), fr, fl) /\ Head(fr) = fr[1] /\ bs[Head(fr)] = <<>>
<1>1. fr \in Seq(Bufs) /\ Placed(bs, c, fr, Len(fr), fl, Len(fl))
  BY DEF Queued
<1>2. Head(fr) = fr[1] /\ Head(fr) \in Bufs /\ 1 \in 1 .. Len(fr)
  BY <1>1, TailOf
<1>3. Placed(bs, Head(fr), fr, Len(fr), fl, Len(fl))
  BY <1>1 DEF Placed
<1>4. QED
  BY <1>2, <1>3 DEF Queued

\* ... when the oldest full one is written, ...
LEMMA PlacedDrain ==
    ASSUME NEW bs, NEW c, NEW fr, NEW n, NEW fl, NEW m, Placed(bs, c, fr, n, fl, m), m > 0,
           NEW tl, Without(tl, fl, m), NEW al, With(al, fr, n, fl[1]),
           NEW nb, Cleared(nb, bs, fl[1])
    PROVE  Placed(nb, c, al, n + 1, tl, m - 1)
<1>1. n \in Nat /\ m \in Nat /\ m - 1 \in Nat /\ n + 1 \in Nat /\ (n + 1) + (m - 1) = BufferNum /\ 1 \in 1 .. m
  BY DEF Placed
<1>2. fl[1] \in Bufs /\ \A j \in 1 .. m : fl[j] = fl[1] => j = 1
  BY <1>1 DEF Placed
<1>3. \A i \in 1 .. m - 1 : i + 1 \in 1 .. m /\ i + 1 # 1 /\ tl[i] = fl[i + 1]
  BY <1>1 DEF Without
<1>4. \A i \in 1 .. m - 1 : tl[i] \in Bufs /\ tl[i] # fl[1]
  BY <1>2, <1>3 DEF Placed
<1>5. al[n + 1] = fl[1] /\ \A i \in 1 .. n + 1 : (i \in 1 .. n /\ al[i] = fr[i]) \/ (i = n + 1 /\ al[i] = fl[1])
  BY <1>1 DEF With
<1>6. \A i \in 1 .. n : fr[i] # fl[1] /\ fr[i] \in Bufs
  BY <1>1 DEF Placed
<1>7. \A i \in 1 .. n + 1 : al[i] \in Bufs /\ (al[i] # c => nb[al[i]] = <<>>)
  BY <1>2, <1>5, <1>6 DEF Placed, Cleared
<1>8. \A i, j \in 1 .. m - 1 : tl[i] = tl[j] => i = j
  <2> SUFFICES ASSUME NEW i \in 1 .. m - 1, NEW j \in 1 .. m - 1, tl[i] = tl[j] PROVE i = j
    OBVIOUS
  <2>1. i + 1 = j + 1
    BY <1>3 DEF Placed
  <2>2. QED
    BY <1>1, <2>1
<1>9. \A i, j \in 1 .. n + 1 : al[i] = al[j] => i = j
  BY <1>5, <1>6 DEF Placed
<1>10. \A i \in 1 .. n + 1, j \in 1 .. m - 1 : al[i] # tl[j]
  BY <1>3, <1>4, <1>5 DEF Placed
<1>11. ASSUME NEW b \in Bufs PROVE (\E i \in 1 .. n + 1 : al[i] = b) \/ (\E i \in 1 .. m - 1 : tl[i] = b)
  <2>1. CASE \E i \in 1 .. m : fl[i] = b
    <3>1. PICK i \in 1 .. m : fl[i] = b
      BY <2>1
    <3>2. CASE i = 1
      <4>1. n + 1 \in 1 .. n + 1 /\ al[n + 1] = b
        BY <1>1, <1>5, <3>1, <3>2
      <4>2. QED
        BY <4>1
    <3>3. CASE i # 1
      <4>1. i - 1 \in 1 .. m - 1 /\ (i - 1) + 1 = i
        BY <1>1, <3>3
      <4>2. tl[i - 1] = b
        BY <1>3, <3>1, <4>1
      <4>3. QED
        BY <4>1, <4>2
    <3>4. QED
      BY <3>2, <3>3
  <2>2. CASE \E i \in 1 .. n : fr[i] = b
    <3>1. PICK i \in 1 .. n : fr[i] = b
      BY <2>2
    <3>2. i \in 1 .. n + 1 /\ al[i] = b
      BY <1>1, <3>1 DEF With
    <3>3. QED
      BY <3>2
  <2>3. QED
    BY <2>1, <2>2 DEF Placed
<1>12. QED
  BY <1>1, <1>4, <1>7, <1>8, <1>9, <1>10, <1>11 DEF Placed

\* The buffers in a queue are empty.
Blank(bs, q) == \A i \in 1 .. Len(q) : bs[q[i]] = <<>>

\* A buffer that was written.
LEMMA Emptied ==
    ASSUME NEW bs \in [Bufs -> Seq(Nat)], NEW b \in Bufs, \A d \in Bufs : Len(bs[d]) <= Capacity
    PROVE  /\ [bs EXCEPT ![b] = <<>>] \in [Bufs -> Seq(Nat)]
           /\ \A d \in Bufs : /\ [bs EXCEPT ![b] = <<>>][d] = IF d = b THEN <<>> ELSE bs[d]
                              /\ Len([bs EXCEPT ![b] = <<>>][d]) <= Capacity
  OBVIOUS

LEMMA QueuedDrain ==
    ASSUME NEW bs, NEW c, NEW fr, NEW fl, Queued(bs, c, fr, fl), fl # <<>>
    PROVE  /\ Queued([bs EXCEPT ![Head(fl)] = <<>>], c, Append(fr, Head(fl)), Tail(fl))
           /\ Head(fl) \in Bufs /\ Append(fr, Head(fl)) # <<>>
           /\ fr # <<>> => Append(fr, Head(fl))[1] = fr[1]
           /\ Blank(bs, fr) => Blank([bs EXCEPT ![Head(fl)] = <<>>], Append(fr, Head(fl)))
<1>1. /\ fr \in Seq(Bufs) /\ fl \in Seq(Bufs) /\ Placed(bs, c, fr, Len(fr), fl, Len(fl))
      /\ bs \in [Bufs -> Seq(Nat)] /\ \A d \in Bufs : Len(bs[d]) <= Capacity
  BY DEF Queued
<1>2. PICK h \in Bufs : h = Head(fl) /\ h = fl[1]
  <2>1. Head(fl) \in Bufs /\ Head(fl) = fl[1]
    BY <1>1, TailOf
  <2>2. QED
    BY <2>1
<1>3. Tail(fl) \in Seq(Bufs) /\ Len(Tail(fl)) = Len(fl) - 1 /\ Len(fl) > 0 /\ Without(Tail(fl), fl, Len(fl))
  <2>1. Len(fl) \in Nat /\ Len(fl) >= 1
    BY <1>1, TailOf
  <2>2. QED
    BY <1>1, <2>1, TailOf DEF Without
<1>4. PICK al \in Seq(Bufs) : al = Append(fr, h) /\ Len(al) = Len(fr) + 1 /\ With(al, fr, Len(fr), h)
  <2>1. Append(fr, h) \in Seq(Bufs) /\ Len(Append(fr, h)) = Len(fr) + 1 /\ With(Append(fr, h), fr, Len(fr), h)
    BY <1>1, Appending DEF With
  <2>2. QED
    BY <2>1
<1>5. PICK nb \in [Bufs -> Seq(Nat)] :
        /\ nb = [bs EXCEPT ![h] = <<>>]
        /\ \A d \in Bufs : nb[d] = (IF d = h THEN <<>> ELSE bs[d]) /\ Len(nb[d]) <= Capacity
  <2>1. /\ [bs EXCEPT ![h] = <<>>] \in [Bufs -> Seq(Nat)]
        /\ \A d \in Bufs : /\ [bs EXCEPT ![h] = <<>>][d] = IF d = h THEN <<>> ELSE bs[d]
                           /\ Len([bs EXCEPT ![h] = <<>>][d]) <= Capacity
    BY <1>1, Emptied
  <2>2. QED
    BY <2>1
<1>6. Placed(nb, c, al, Len(fr) + 1, Tail(fl), Len(fl) - 1)
  <2>1. Cleared(nb, bs, fl[1])
    BY <1>2, <1>5 DEF Cleared
  <2>2. With(al, fr, Len(fr), fl[1])
    BY <1>2, <1>4
  <2>3. Placed(bs, c, fr, Len(fr), fl, Len(fl)) /\ Len(fl) > 0 /\ Without(Tail(fl), fl, Len(fl))
    BY <1>1, <1>3
  <2>4. QED
    BY <2>1, <2>2, <2>3, PlacedDrain
<1>7. Queued(nb, c, al, Tail(fl))
  BY <1>3, <1>4, <1>5, <1>6 DEF Queued
<1>8. Len(fr) \in Nat
  BY <1>1, NonEmpty
<1>9. al # <<>>
  <2>1. Len(al) # 0
    BY <1>4, <1>8
  <2>2. QED
    BY <2>1, NonEmpty
<1>10. ASSUME fr # <<>> PROVE al[1] = fr[1]
  <2>1. 1 \in 1 .. Len(fr)
    BY <1>1, <1>10, TailOf
  <2>2. QED
    BY <1>4, <2>1 DEF With
<1>11. ASSUME Blank(bs, fr), NEW i \in 1 .. Len(al) PROVE nb[al[i]] = <<>>
  <2>1. CASE i \in 1 .. Len(fr)
    <3>1. al[i] = fr[i] /\ fr[i] \in Bufs
      BY <1>1, <1>4, <2>1 DEF With, Placed
    <3>2. QED
      BY <1>5, <1>11, <2>1, <3>1 DEF Blank
  <2>2. CASE i = Len(fr) + 1
    BY <1>4, <1>5, <2>2 DEF With
  <2>3. QED
    BY <1>4, <1>8, <2>1, <2>2
<1>12. Blank(bs, fr) => Blank(nb, al)
  BY <1>11 DEF Blank
<1>13. QED
  BY <1>2, <1>4, <1>5, <1>7, <1>9, <1>10, <1>12

\* ... and when the current one is.
LEMMA QueuedWrite ==
    ASSUME NEW bs, NEW c, NEW fr, NEW fl, Queued(bs, c, fr, fl)
    PROVE  /\ Queued([bs EXCEPT ![c] = <<>>], c, fr, fl) /\ c \in Bufs
           /\ Blank(bs, fr) => Blank([bs EXCEPT ![c] = <<>>], fr)
<1>1. /\ c \in Bufs /\ Placed(bs, c, fr, Len(fr), fl, Len(fl))
      /\ bs \in [Bufs -> Seq(Nat)] /\ \A d \in Bufs : Len(bs[d]) <= Capacity
  BY DEF Queued
<1>2. PICK nb \in [Bufs -> Seq(Nat)] :
        /\ nb = [bs EXCEPT ![c] = <<>>]
        /\ \A d \in Bufs : nb[d] = (IF d = c THEN <<>> ELSE bs[d]) /\ Len(nb[d]) <= Capacity
  <2>1. /\ [bs EXCEPT ![c] = <<>>] \in [Bufs -> Seq(Nat)]
        /\ \A d \in Bufs : /\ [bs EXCEPT ![c] = <<>>][d] = IF d = c THEN <<>> ELSE bs[d]
                           /\ Len([bs EXCEPT ![c] = <<>>][d]) <= Capacity
    BY <1>1, Emptied
  <2>2. QED
    BY <2>1
<1>3. Placed(nb, c, fr, Len(fr), fl, Len(fl))
  BY <1>1, <1>2 DEF Placed
<1>4. Queued(nb, c, fr, fl)
  BY <1>2, <1>3 DEF Queued
<1>5. ASSUME Blank(bs, fr) PROVE Blank(nb, fr)
  BY <1>1, <1>2, <1>5 DEF Placed, Blank
<1>6. QED
  BY <1>1, <1>2, <1>4, <1>5

-----------------------------------------------------------------------------
\* What is in the buffers after a line was added to one.
Stores(nb, bs, b, e) == nb = [bs EXCEPT ![b] = Append(@, e)]

\* The lines of nb are those of bs, and e at the end of buffer b.
Grown(nb, bs, b, e) ==
  /\ \A d \in Bufs : \A i \in 1 .. Len(bs[d]) : i \in 1 .. Len(nb[d]) /\ nb[d][i] = bs[d][i]
  /\ \A d \in Bufs : \A i \in 1 .. Len(nb[d]) :
       \/ i \in 1 .. Len(bs[d]) /\ nb[d][i] = bs[d][i]
       \/ d = b /\ i = Len(bs[b]) + 1 /\ nb[d][i] = e

LEMMA InStored ==
    ASSUME NEW bs \in [Bufs -> Seq(Nat)], NEW nb, NEW b \in Bufs, NEW e \in Nat, Stores(nb, bs, b, e)
    PROVE  /\ nb \in [Bufs -> Seq(Nat)] /\ Grown(nb, bs, b, e)
           /\ \A l : InBuffers(nb, l) <=> l = e \/ InBuffers(bs, l)
<1>1. bs[b] \in Seq(Nat) /\ Len(bs[b]) \in Nat
  BY NonEmpty
<1>2. /\ nb \in [Bufs -> Seq(Nat)] /\ Len(nb[b]) = Len(bs[b]) + 1
      /\ nb[b][Len(bs[b]) + 1] = e
      /\ \A i \in 1 .. Len(bs[b]) : nb[b][i] = bs[b][i]
      /\ \A d \in Bufs \ {b} : nb[d] = bs[d]
  <2>1. nb[b] = Append(bs[b], e) /\ \A d \in Bufs \ {b} : nb[d] = bs[d]
    BY DEF Stores
  <2>2. Append(bs[b], e) \in Seq(Nat)
    BY <1>1, Appending
  <2>3. nb \in [Bufs -> Seq(Nat)]
    BY <2>2 DEF Stores
  <2>4. QED
    BY <1>1, <2>1, <2>3, Appending
<1>3. ASSUME NEW d \in Bufs, NEW i \in 1 .. Len(bs[d]) PROVE i \in 1 .. Len(nb[d]) /\ nb[d][i] = bs[d][i]
  <2>1. CASE d = b
    BY <1>1, <1>2, <2>1
  <2>2. CASE d # b
    BY <1>2, <2>2
  <2>3. QED
    BY <2>1, <2>2
<1>4. ASSUME NEW d \in Bufs, NEW i \in 1 .. Len(nb[d])
      PROVE  \/ i \in 1 .. Len(bs[d]) /\ nb[d][i] = bs[d][i]
             \/ d = b /\ i = Len(bs[b]) + 1 /\ nb[d][i] = e
  <2>1. CASE d = b
    <3>1. i \in 1 .. Len(bs[b]) \/ i = Len(bs[b]) + 1
      BY <1>1, <1>2, <2>1
    <3>2. QED
      BY <1>2, <2>1, <3>1
  <2>2. CASE d # b
    BY <1>2, <2>2
  <2>3. QED
    BY <2>1, <2>2
<1>5. Grown(nb, bs, b, e)
  BY <1>3, <1>4 DEF Grown
<1>6. ASSUME NEW l, InBuffers(nb, l), l # e PROVE InBuffers(bs, l)
  <2>1. PICK d \in Bufs : \E i \in 1 .. Len(nb[d]) : nb[d][i] = l
    BY <1>6 DEF InBuffers
  <2>2. PICK i \in 1 .. Len(nb[d]) : nb[d][i] = l
    BY <2>1
  <2>3. i \in 1 .. Len(bs[d]) /\ bs[d][i] = l
    BY <1>4, <1>6, <2>2
  <2>4. QED
    BY <2>3 DEF InBuffers
<1>7. InBuffers(nb, e)
  <2>1. Len(bs[b]) + 1 \in 1 .. Len(nb[b])
    BY <1>1, <1>2
  <2>2. QED
    BY <1>2, <2>1 DEF InBuffers
<1>8. ASSUME NEW l, InBuffers(bs, l) PROVE InBuffers(nb, l)
  <2>1. PICK d \in Bufs : \E i \in 1 .. Len(bs[d]) : bs[d][i] = l
    BY <1>8 DEF InBuffers
  <2>2. PICK i \in 1 .. Len(bs[d]) : bs[d][i] = l
    BY <2>1
  <2>3. i \in 1 .. Len(nb[d]) /\ nb[d][i] = l
    BY <1>3, <2>2
  <2>4. QED
    BY <2>3 DEF InBuffers
<1>9. QED
  BY <1>2, <1>5, <1>6, <1>7, <1>8

\* The lines after one was stored, that came from a caller or from the hand of
\* the thread that waited, ...
LEMMA StoredKept ==
    ASSUME buffers \in [Bufs -> Seq(Nat)], lines \in Nat, lines' \in Nat, lines <= lines',
           NEW b \in Bufs, NEW e \in 1 .. lines', Stores(buffers', buffers, b, e),
           file' = file, mine' \subseteq mine \cup {e}, Logged(buffers, mine), KeptInv,
           \A t \in Threads : line'[t] = line[t] \/ line[t].id = e
    PROVE  Logged(buffers, mine)' /\ KeptInv'
<1>1. e \in Nat
  OBVIOUS
<1>2. /\ buffers' \in [Bufs -> Seq(Nat)] /\ Grown(buffers', buffers, b, e)
      /\ \A l : InBuffers(buffers', l) <=> l = e \/ InBuffers(buffers, l)
  BY <1>1, InStored
<1>3. ASSUME NEW d \in Bufs, NEW i \in 1 .. Len(buffers'[d]) PROVE buffers'[d][i] \in 1 .. lines'
  <2>1. CASE i \in 1 .. Len(buffers[d]) /\ buffers'[d][i] = buffers[d][i]
    <3>1. buffers[d][i] \in 1 .. lines
      BY <2>1 DEF Logged
    <3>2. QED
      BY <2>1, <3>1
  <2>2. CASE buffers'[d][i] = e
    BY <2>2
  <2>3. QED
    BY <1>2, <1>3, <2>1, <2>2 DEF Grown
<1>4. mine' \subseteq 1 .. lines'
  <2>1. mine \subseteq 1 .. lines
    BY DEF Logged
  <2>2. 1 .. lines \subseteq 1 .. lines'
    OBVIOUS
  <2>3. QED
    BY <2>1, <2>2
<1>5. ASSUME NEW l \in mine' PROVE InFile(l)' \/ InBuffers(buffers', l) \/ InHand(l)'
  <2>1. CASE l = e
    BY <1>2, <2>1
  <2>2. CASE l # e
    <3>1. InFile(l) \/ InBuffers(buffers, l) \/ InHand(l)
      BY <2>2 DEF KeptInv
    <3>2. InFile(l)' = InFile(l) /\ (InHand(l) => InHand(l)')
      BY <2>2 DEF InFile, InHand
    <3>3. QED
      BY <1>2, <3>1, <3>2
  <2>3. QED
    BY <2>1, <2>2
<1>6. KeptInv'
  BY <1>5 DEF KeptInv, InBuffers
<1>7. QED
  BY <1>3, <1>4, <1>6 DEF Logged

LEMMA StoredOnce ==
    ASSUME buffers \in [Bufs -> Seq(Nat)], lines \in Nat, lines' \in Nat, lines <= lines',
           NEW b \in Bufs, NEW e \in 1 .. lines', Stores(buffers', buffers, b, e),
           file' = file, Logged(buffers, mine), OnceInv,
           ~InFile(e), ~InBuffers(buffers, e),
           \A t \in Threads : (line'[t] = line[t] \/ line'[t].id = 0) /\ line'[t].id # e
    PROVE  OnceInv'
<1>1. e \in Nat
  OBVIOUS
<1>2. /\ buffers' \in [Bufs -> Seq(Nat)] /\ Grown(buffers', buffers, b, e)
      /\ \A l : InBuffers(buffers', l) <=> l = e \/ InBuffers(buffers, l)
  BY <1>1, InStored
<1>3. \A i \in 1 .. Len(file) : file[i] \in 1 .. lines' /\ file[i] # e
  BY DEF OnceInv, InFile
<1>4. ~InBuffers(buffers, 0) /\ e # 0
  BY DEF Logged, InBuffers
<1>5. \A t \in Threads : ~InBuffers(buffers', line'[t].id)
  BY <1>2, <1>4, ZenonT(40) DEF OnceInv
<1>6. \A i \in 1 .. Len(file) : ~InBuffers(buffers', file[i]) /\ ~InHand(file[i])'
  <2>1. \A i \in 1 .. Len(file) : file[i] # 0
    BY DEF OnceInv
  <2>2. QED
    BY <1>2, <1>3, <2>1 DEF OnceInv, InHand
<1>7. ASSUME NEW c \in Bufs, NEW d \in Bufs, NEW i \in 1 .. Len(buffers'[c]), NEW j \in 1 .. Len(buffers'[d]),
             buffers'[c][i] = buffers'[d][j]
      PROVE  c = d /\ i = j
  <2>1. \A x \in Bufs : \A k \in 1 .. Len(buffers[x]) : buffers[x][k] # e
    BY DEF InBuffers
  <2>2. CASE i \in 1 .. Len(buffers[c]) /\ buffers'[c][i] = buffers[c][i]
    <3>1. buffers'[d][j] # e
      BY <1>7, <2>1, <2>2
    <3>2. j \in 1 .. Len(buffers[d]) /\ buffers'[d][j] = buffers[d][j]
      BY <1>2, <3>1 DEF Grown
    <3>3. buffers[c][i] = buffers[d][j]
      BY <1>7, <2>2, <3>2
    <3>4. QED
      BY <2>2, <3>2, <3>3, SMTT(30) DEF OnceInv
  <2>3. CASE c = b /\ i = Len(buffers[b]) + 1 /\ buffers'[c][i] = e
    <3>1. buffers'[d][j] = e
      BY <1>7, <2>3
    <3>2. ~(j \in 1 .. Len(buffers[d]) /\ buffers'[d][j] = buffers[d][j])
      BY <2>1, <3>1
    <3>3. d = b /\ j = Len(buffers[b]) + 1
      BY <1>2, <3>2 DEF Grown
    <3>4. QED
      BY <2>3, <3>3
  <2>4. QED
    BY <1>2, <2>2, <2>3 DEF Grown
<1>8. QED
  BY <1>3, <1>5, <1>6, <1>7 DEF OnceInv, InBuffers

\* ... when none was, ...
LEMMA NoneStored ==
    ASSUME lines \in Nat, lines' \in Nat, lines <= lines', UNCHANGED <<buffers, file, mine>>,
           Logged(buffers, mine),
           \A t \in Threads : line'[t] = line[t] \/ (line'[t].id = 0 /\ line[t].id \notin mine)
    PROVE  Logged(buffers, mine)' /\ (KeptInv => KeptInv') /\ (OnceInv => OnceInv')
<1>1. 1 .. lines \subseteq 1 .. lines'
  OBVIOUS
<1>2. Logged(buffers, mine)'
  BY <1>1 DEF Logged
<1>3. ASSUME KeptInv PROVE KeptInv'
  BY <1>3 DEF KeptInv, InFile, InBuffers, InHand
<1>4. ASSUME OnceInv PROVE OnceInv'
  <2>1. ~InBuffers(buffers, 0) /\ \A i \in 1 .. Len(file) : file[i] # 0 /\ file[i] \in 1 .. lines'
    BY <1>1, <1>4 DEF Logged, InBuffers, OnceInv
  <2>2. \A t \in Threads : ~InBuffers(buffers, line'[t].id)
    BY <1>4, <2>1 DEF OnceInv
  <2>3. \A i \in 1 .. Len(file) : ~InBuffers(buffers, file[i]) /\ ~InHand(file[i])'
    BY <1>4, <2>1 DEF OnceInv, InHand
  <2>4. QED
    BY <1>4, <2>1, <2>2, <2>3 DEF OnceInv, InBuffers
<1>5. QED
  BY <1>2, <1>3, <1>4

\* ... and when one is in the hands of a thread that begins to wait.
LEMMA HandKept ==
    ASSUME lines \in Nat, lines' = lines + 1, UNCHANGED <<buffers, file>>, mine' \subseteq mine \cup {lines + 1},
           Logged(buffers, mine), KeptInv,
           NEW t \in Threads, line'[t].id = lines + 1, line[t].id = 0,
           \A u \in Threads \ {t} : line'[u] = line[u]
    PROVE  Logged(buffers, mine)' /\ KeptInv' /\ (OnceInv => OnceInv')
<1>1. 1 .. lines \subseteq 1 .. lines' /\ lines + 1 \in 1 .. lines' /\ lines + 1 \notin 1 .. lines
  OBVIOUS
<1>2. Logged(buffers, mine)' /\ 0 \notin mine /\ lines + 1 \notin mine
  BY <1>1 DEF Logged
<1>3. ASSUME NEW l \in mine' PROVE InFile(l)' \/ InBuffers(buffers, l) \/ InHand(l)'
  <2>1. CASE l = lines + 1
    BY <2>1 DEF InHand
  <2>2. CASE l \in mine
    BY <1>2, <2>2 DEF KeptInv, InFile, InHand
  <2>3. QED
    BY <2>1, <2>2
<1>4. KeptInv'
  BY <1>3 DEF KeptInv, InBuffers
<1>5. ASSUME OnceInv PROVE OnceInv'
  <2>1. \A i \in 1 .. Len(file) : file[i] \in 1 .. lines' /\ file[i] # lines + 1
    BY <1>1, <1>5 DEF OnceInv
  <2>2. ~InBuffers(buffers, lines + 1)
    BY <1>1 DEF Logged, InBuffers
  <2>3. \A u \in Threads : ~InBuffers(buffers, line'[u].id)
    BY <1>5, <2>2 DEF OnceInv
  <2>4. \A i \in 1 .. Len(file) : ~InBuffers(buffers, file[i]) /\ ~InHand(file[i])'
    BY <1>5, <2>1 DEF OnceInv, InHand
  <2>5. QED
    BY <1>5, <2>1, <2>3, <2>4 DEF OnceInv, InBuffers
<1>6. QED
  BY <1>2, <1>4, <1>5
-----------------------------------------------------------------------------
\* A buffer is written: file nf is f with g at its end.
Longer(nf, f, g) ==
  /\ \A i \in 1 .. Len(f) : i \in 1 .. Len(nf) /\ nf[i] = f[i]
  /\ \A i \in 1 .. Len(g) : Len(f) + i \in 1 .. Len(nf) /\ nf[Len(f) + i] = g[i]
  /\ \A i \in 1 .. Len(nf) :
       \/ i \in 1 .. Len(f) /\ nf[i] = f[i]
       \/ i - Len(f) \in 1 .. Len(g) /\ nf[i] = g[i - Len(f)]

LEMMA FileWritten ==
    ASSUME NEW f \in Seq(Nat), NEW g \in Seq(Nat), NEW nf, nf = f \o g
    PROVE  nf \in Seq(Nat) /\ Longer(nf, f, g)
<1>1. Len(f) \in Nat /\ Len(g) \in Nat
  BY NonEmpty
<1>2. /\ nf \in Seq(Nat) /\ Len(nf) = Len(f) + Len(g)
      /\ \A i \in 1 .. Len(f) : nf[i] = f[i]
      /\ \A i \in 1 .. Len(g) : nf[Len(f) + i] = g[i]
  BY Joining
<1>3. \A i \in 1 .. Len(f) : i \in 1 .. Len(nf)
  BY <1>1, <1>2
<1>4. \A i \in 1 .. Len(g) : Len(f) + i \in 1 .. Len(nf)
  BY <1>1, <1>2
<1>5. ASSUME NEW i \in 1 .. Len(nf)
      PROVE  \/ i \in 1 .. Len(f) /\ nf[i] = f[i]
             \/ i - Len(f) \in 1 .. Len(g) /\ nf[i] = g[i - Len(f)]
  <2>1. i \in 1 .. Len(f) \/ (i - Len(f) \in 1 .. Len(g) /\ Len(f) + (i - Len(f)) = i)
    BY <1>1, <1>2
  <2>2. QED
    BY <1>2, <2>1
<1>6. QED
  BY <1>2, <1>3, <1>4, <1>5 DEF Longer

LEMMA Flushed ==
    ASSUME buffers \in [Bufs -> Seq(Nat)], \A d \in Bufs : Len(buffers[d]) <= Capacity,
           file \in Seq(Nat), NEW b \in Bufs, file' = file \o buffers[b],
           buffers' = [buffers EXCEPT ![b] = <<>>], UNCHANGED <<line, lines, mine>>,
           Logged(buffers, mine), KeptInv
    PROVE  /\ file' \in Seq(Nat) /\ \A l : InFile(l) => InFile(l)'
           /\ Logged(buffers, mine)' /\ KeptInv' /\ (OnceInv => OnceInv')
<1>1. file' \in Seq(Nat) /\ Longer(file', file, buffers[b])
  BY FileWritten
<1>2. Cleared(buffers', buffers, b)
  BY Emptied DEF Cleared
<1>3. \A i \in 1 .. Len(buffers'[b]) : FALSE
  BY <1>2 DEF Cleared
<1>4. \A d \in Bufs : \A i \in 1 .. Len(buffers'[d]) :
        d # b /\ i \in 1 .. Len(buffers[d]) /\ buffers'[d][i] = buffers[d][i]
  BY <1>2, <1>3 DEF Cleared
<1>5. ASSUME NEW l, InFile(l) PROVE InFile(l)'
  BY <1>1, <1>5 DEF InFile, Longer
<1>6. ASSUME NEW l, InBuffers(buffers, l) PROVE InBuffers(buffers', l) \/ InFile(l)'
  <2>1. PICK d \in Bufs : \E i \in 1 .. Len(buffers[d]) : buffers[d][i] = l
    BY <1>6 DEF InBuffers
  <2>2. PICK i \in 1 .. Len(buffers[d]) : buffers[d][i] = l
    BY <2>1
  <2>3. CASE d = b
    BY <1>1, <2>2, <2>3 DEF InFile, Longer
  <2>4. CASE d # b
    <3>1. buffers'[d] = buffers[d]
      BY <1>2, <2>4 DEF Cleared
    <3>2. QED
      BY <2>2, <3>1 DEF InBuffers
  <2>5. QED
    BY <2>3, <2>4
<1>7. Logged(buffers, mine)'
  BY <1>4 DEF Logged
<1>8. KeptInv'
  <2>1. ASSUME NEW l \in mine PROVE InFile(l)' \/ InBuffers(buffers', l) \/ InHand(l)'
    BY <1>5, <1>6 DEF KeptInv, InHand
  <2>2. QED
    BY <2>1 DEF KeptInv, InBuffers
<1>9. ASSUME OnceInv PROVE OnceInv'
  <2>1. \A l : InBuffers(buffers', l) => InBuffers(buffers, l)
    BY <1>4 DEF InBuffers
  <2>2. ASSUME NEW i \in 1 .. Len(file')
        PROVE  \/ i \in 1 .. Len(file) /\ file'[i] = file[i]
               \/ i - Len(file) \in 1 .. Len(buffers[b]) /\ file'[i] = buffers[b][i - Len(file)]
    BY <1>1 DEF Longer
  <2>3. ASSUME NEW i \in 1 .. Len(file') PROVE file'[i] \in 1 .. lines
    BY <1>9, <2>2 DEF OnceInv, Logged
  <2>4. ASSUME NEW i \in 1 .. Len(buffers[b]) PROVE InBuffers(buffers, buffers[b][i])
    BY DEF InBuffers
  <2>5. ASSUME NEW i \in 1 .. Len(file'), NEW j \in 1 .. Len(file'), file'[i] = file'[j] PROVE i = j
    <3>1. CASE i \in 1 .. Len(file) /\ file'[i] = file[i]
      <4>1. ~InBuffers(buffers, file'[j])
        BY <1>9, <2>5, <3>1 DEF OnceInv
      <4>2. j \in 1 .. Len(file) /\ file'[j] = file[j]
        BY <2>2, <2>4, <4>1
      <4>3. QED
        BY <1>9, <2>5, <3>1, <4>2 DEF OnceInv
    <3>2. CASE i - Len(file) \in 1 .. Len(buffers[b]) /\ file'[i] = buffers[b][i - Len(file)]
      <4>1. InBuffers(buffers, file'[j])
        BY <2>4, <2>5, <3>2
      <4>2. ~(j \in 1 .. Len(file) /\ file'[j] = file[j])
        BY <1>9, <4>1 DEF OnceInv
      <4>3. j - Len(file) \in 1 .. Len(buffers[b]) /\ file'[j] = buffers[b][j - Len(file)]
        BY <2>2, <4>2
      <4>4. buffers[b][i - Len(file)] = buffers[b][j - Len(file)]
        BY <2>5, <3>2, <4>3
      <4>5. i - Len(file) = j - Len(file)
        BY <1>9, <3>2, <4>3, <4>4, SMTT(30) DEF OnceInv
      <4>6. Len(file) \in Nat /\ i \in Int /\ j \in Int
        BY NonEmpty
      <4>7. QED
        BY <4>5, <4>6
    <3>3. QED
      BY <2>2, <3>1, <3>2
  <2>6. ASSUME NEW c \in Bufs, NEW d \in Bufs, NEW i \in 1 .. Len(buffers'[c]), NEW j \in 1 .. Len(buffers'[d]),
               buffers'[c][i] = buffers'[d][j]
        PROVE  c = d /\ i = j
    <3>1. i \in 1 .. Len(buffers[c]) /\ j \in 1 .. Len(buffers[d]) /\ buffers[c][i] = buffers[d][j]
      BY <1>4, <2>6
    <3>2. QED
      BY <1>9, <3>1 DEF OnceInv
  <2>7. ASSUME NEW i \in 1 .. Len(file'), InBuffers(buffers', file'[i]) PROVE FALSE
    <3>1. PICK d \in Bufs : \E k \in 1 .. Len(buffers'[d]) : buffers'[d][k] = file'[i]
      BY <2>7 DEF InBuffers
    <3>2. PICK k \in 1 .. Len(buffers'[d]) : buffers'[d][k] = file'[i]
      BY <3>1
    <3>3. d # b /\ k \in 1 .. Len(buffers[d]) /\ buffers[d][k] = file'[i]
      BY <1>4, <3>2
    <3>4. CASE i \in 1 .. Len(file) /\ file'[i] = file[i]
      BY <1>9, <2>1, <2>7, <3>4 DEF OnceInv
    <3>5. CASE i - Len(file) \in 1 .. Len(buffers[b]) /\ file'[i] = buffers[b][i - Len(file)]
      <4>1. buffers[d][k] = buffers[b][i - Len(file)]
        BY <3>3, <3>5
      <4>2. QED
        BY <1>9, <3>3, <3>5, <4>1 DEF OnceInv
    <3>6. QED
      BY <2>2, <3>4, <3>5
  <2>8. ASSUME NEW i \in 1 .. Len(file') PROVE ~InHand(file'[i])
    <3>1. CASE i \in 1 .. Len(file) /\ file'[i] = file[i]
      BY <1>9, <3>1 DEF OnceInv
    <3>2. CASE i - Len(file) \in 1 .. Len(buffers[b]) /\ file'[i] = buffers[b][i - Len(file)]
      <4>1. InBuffers(buffers, file'[i])
        BY <2>4, <3>2
      <4>2. QED
        BY <1>9, <4>1 DEF OnceInv, InHand
    <3>3. QED
      BY <2>2, <3>1, <3>2
  <2>9. \A t \in Threads : ~InBuffers(buffers', line[t].id)
    BY <1>9, <2>1 DEF OnceInv
  <2>10. \A i \in 1 .. Len(file') : ~InBuffers(buffers', file'[i]) /\ ~InHand(file[i])'
    BY <2>7, <2>8 DEF InHand
  <2>11. QED
    BY <2>3, <2>5, <2>6, <2>9, <2>10, SMTT(30) DEF OnceInv, InBuffers
<1>10. QED
  BY <1>1, <1>5, <1>7, <1>8, <1>9
-----------------------------------------------------------------------------
\* The invariant in a process that runs, in one that does not, and at an end.
LEMMA RunningFacts ==
    ASSUME LoggerInv, Running
    PROVE  /\ Queued(buffers, cur, free, flush) /\ ThreadsInv /\ Logged(buffers, mine) /\ KeptInv
           /\ buffers \in [Bufs -> Seq(Nat)] /\ cur \in Bufs /\ free \in Seq(Bufs) /\ flush \in Seq(Bufs)
           /\ \A b \in Bufs : Len(buffers[b]) <= Capacity
           /\ file \in Seq(Nat) /\ lines \in Nat /\ mine \subseteq 1 .. lines
<1>1. Queued(buffers, cur, free, flush) /\ ThreadsInv /\ Logged(buffers, mine) /\ KeptInv
  BY DEF LoggerInv
<1>2. file \in Seq(Nat) /\ lines \in Nat
  BY DEF LoggerInv, Running
<1>3. /\ buffers \in [Bufs -> Seq(Nat)] /\ cur \in Bufs /\ free \in Seq(Bufs) /\ flush \in Seq(Bufs)
      /\ \A b \in Bufs : Len(buffers[b]) <= Capacity
  BY <1>1 DEF Queued
<1>4. mine \subseteq 1 .. lines
  BY <1>1 DEF Logged
<1>5. QED
  BY <1>1, <1>2, <1>3, <1>4

LEMMA ImageKept ==
    ASSUME ImageInv, image' = image, lines \in Nat, lines' \in Nat, lines <= lines',
           \A l : InFile(l) => InFile(l)'
    PROVE  ImageInv'
<1>1. 1 .. lines \subseteq 1 .. lines'
  OBVIOUS
<1>2. Logged(image.buffers, image.mine)'
  BY <1>1 DEF ImageInv, Logged
<1>3. \A l \in image.mine : InFile(l)' \/ InBuffers(image.buffers, l)
  BY DEF ImageInv
<1>4. Queued(image.buffers, image.cur, image.free, image.flush)'
  <2>1. Queued(image'.buffers, image'.cur, image'.free, image'.flush)
    BY DEF ImageInv
  <2>2. QED
    BY <2>1 DEF Queued, Placed
<1>5. (\A l \in image.mine : InFile(l) \/ InBuffers(image.buffers, l))'
  BY <1>3 DEF InBuffers
<1>6. QED
  BY <1>2, <1>4, <1>5 DEF ImageInv

LEMMA StepKeeps ==
    ASSUME LoggerInv, Running, UNCHANGED <<process, image, restart_count>>,
           lines' \in Nat, lines <= lines', lines' <= MaxLines,
           file' \in Seq(Nat), \A l : InFile(l) => InFile(l)',
           flusher \in {"gone", "gone_holding"} => flusher' = flusher,
           Queued(buffers', cur', free', flush'), ThreadsInv', Logged(buffers, mine)', KeptInv',
           OnceInv => OnceInv'
    PROVE  LoggerInv'
<1>1. lines \in Nat /\ lines' \in 0 .. MaxLines
  BY DEF LoggerInv
<1>2. ImageInv => ImageInv'
  BY <1>1, ImageKept
<1>3. Queued(buffers, cur, free, flush)'
  BY DEF Queued, Placed
<1>4. QED
  BY <1>1, <1>2, <1>3 DEF LoggerInv, Running

LEMMA ElseKeeps ==
    ASSUME LoggerInv, ~Running, UNCHANGED <<process, image, restart_count, lines>>,
           process = "forking" => file' = file /\ flusher' = flusher
    PROVE  LoggerInv'
<1>1. ASSUME process = "forking" PROVE ImageInv'
  <2>1. ImageInv /\ lines \in Nat /\ \A l : InFile(l) => InFile(l)'
    BY <1>1 DEF LoggerInv, InFile
  <2>2. QED
    BY <2>1, ImageKept
<1>2. QED
  BY <1>1 DEF LoggerInv, Running

LEMMA EndKeeps ==
    ASSUME LoggerInv, process' \in {"finished", "ended"}, UNCHANGED <<restart_count, lines>>
    PROVE  LoggerInv'
  BY DEF LoggerInv, Running

-----------------------------------------------------------------------------
\* append(), after its line came.
LEMMA Adding ==
    ASSUME buffers \in [Bufs -> Seq(Nat)], NEW b \in Bufs, NEW l
    PROVE  /\ Fits(l, b) => Stores(AppendTo(l, b), buffers, b, l.id) /\ Len(buffers[b]) < Capacity
           /\ ~Fits(l, b) => AppendTo(l, b) = buffers
           /\ buffers[b] = <<>> => (Fits(l, b) <=> ~l.big)
<1>1. ASSUME Fits(l, b) PROVE Stores(AppendTo(l, b), buffers, b, l.id) /\ Len(buffers[b]) < Capacity
  BY <1>1 DEF AppendTo, Fits, Stores
<1>2. ASSUME ~Fits(l, b) PROVE AppendTo(l, b) = buffers
  <2>1. AppendTo(l, b) = [buffers EXCEPT ![b] = @]
    BY <1>2 DEF AppendTo
  <2>2. QED
    BY <2>1
<1>3. ASSUME buffers[b] = <<>> PROVE Fits(l, b) <=> ~l.big
  BY <1>3 DEF Fits
<1>4. QED
  BY <1>1, <1>2, <1>3

LEMMA Storing ==
    ASSUME NEW bs, NEW c, NEW fr, NEW fl, Queued(bs, c, fr, fl), NEW e \in Nat, Len(bs[c]) < Capacity,
           NEW nb, Stores(nb, bs, c, e)
    PROVE  Queued(nb, c, fr, fl)
  BY QueuedStore DEF Stores

LEMMA Begins ==
    ASSUME LoggerInv, NEW t \in Threads, NEW l, l.id = lines + 1, Begin(t, l)
    PROVE  /\ Running /\ spin = Nobody /\ \A u \in Threads : pc[u] = "idle" /\ line[u] = NoLine /\ line[u].id = 0
           /\ free # <<>> /\ cur = free[1]
           /\ lines' = lines + 1 /\ lines' \in Nat /\ lines' <= MaxLines /\ l.id \in 1 .. lines' /\ l.id \notin 1 .. lines
           /\ mine' \subseteq mine \cup {l.id} /\ (l.big => mine' = mine)
           /\ UNCHANGED <<file, process, image, restart_count>>
<1>1. Running /\ spin = Nobody /\ lines \in Nat /\ ThreadsInv /\ lines < MaxLines /\ lines' = lines + 1
  BY RunningFacts DEF Begin
<1>2. \A u \in Threads : u # spin
  BY <1>1
<1>3. \A u \in Threads : pc[u] = "idle" /\ line[u] = NoLine /\ line[u].id = 0
  BY <1>1, <1>2 DEF ThreadsInv, NoLine
<1>4. mine' \subseteq mine \cup {l.id} /\ (l.big => mine' = mine) /\ UNCHANGED <<file, process, image, restart_count>>
  BY DEF Begin, daemonVars
<1>5. QED
  BY <1>1, <1>3, <1>4 DEF ThreadsInv

LEMMA AppendFitsKeeps ==
    ASSUME LoggerInv, NEW t \in Threads, NEW l, l.id = lines + 1, AppendFits(t, l)
    PROVE  LoggerInv'
<1>1. /\ Running /\ spin = Nobody /\ free # <<>> /\ cur = free[1]
      /\ lines' = lines + 1 /\ lines' \in Nat /\ lines' <= MaxLines /\ l.id \in 1 .. lines' /\ l.id \notin 1 .. lines
      /\ mine' \subseteq mine \cup {l.id} /\ UNCHANGED <<file, process, image, restart_count>>
      /\ \A u \in Threads : line[u].id = 0
  BY Begins DEF AppendFits
<1>2. UNCHANGED <<spin, pc, line, cur, free, flush, flusher>> /\ Fits(l, cur) /\ buffers' = AppendTo(l, cur)
  BY DEF AppendFits
<1>3. /\ Queued(buffers, cur, free, flush) /\ ThreadsInv /\ Logged(buffers, mine) /\ KeptInv
      /\ buffers \in [Bufs -> Seq(Nat)] /\ cur \in Bufs /\ file \in Seq(Nat) /\ lines \in Nat
  BY <1>1, RunningFacts
<1>4. Stores(buffers', buffers, cur, l.id) /\ Len(buffers[cur]) < Capacity /\ l.id \in Nat
  BY <1>1, <1>2, <1>3, Adding
<1>5. Queued(buffers', cur, free, flush)
  BY <1>3, <1>4, Storing
<1>6. Logged(buffers, mine)' /\ KeptInv'
  BY <1>1, <1>2, <1>3, <1>4, StoredKept
<1>7. ASSUME OnceInv PROVE OnceInv'
  <2>1. ~InFile(l.id)
    BY <1>1, <1>7 DEF OnceInv, InFile
  <2>2. ~InBuffers(buffers, l.id)
    BY <1>1, <1>3 DEF Logged, InBuffers
  <2>3. \A u \in Threads : (line'[u] = line[u] \/ line'[u].id = 0) /\ line'[u].id # l.id
    BY <1>1, <1>2
  <2>4. QED
    BY <1>1, <1>3, <1>4, <1>7, <2>1, <2>2, <2>3, StoredOnce
<1>8. ThreadsInv'
  BY <1>1, <1>2, <1>3 DEF ThreadsInv
<1>9. \A m : InFile(m) => InFile(m)'
  BY <1>1 DEF InFile
<1>10. QED
  BY <1>1, <1>2, <1>3, <1>5, <1>6, <1>7, <1>8, <1>9, StepKeeps

LEMMA AppendNextKeeps ==
    ASSUME LoggerInv, NEW t \in Threads, NEW l, l.id = lines + 1, AppendNext(t, l)
    PROVE  LoggerInv'
<1>1. /\ Running /\ spin = Nobody /\ free # <<>> /\ cur = free[1]
      /\ lines' = lines + 1 /\ lines' \in Nat /\ lines' <= MaxLines /\ l.id \in 1 .. lines' /\ l.id \notin 1 .. lines
      /\ mine' \subseteq mine \cup {l.id} /\ (l.big => mine' = mine) /\ UNCHANGED <<file, process, image, restart_count>>
      /\ \A u \in Threads : line[u].id = 0
  BY Begins DEF AppendNext
<1>2. /\ UNCHANGED <<spin, pc, line>> /\ Len(free) > 1 /\ free' = Tail(free) /\ flush' = Append(flush, cur)
      /\ cur' = Head(Tail(free)) /\ buffers' = AppendTo(l, cur')
      /\ (flusher \in {"gone", "gone_holding"} => flusher' = flusher)
  BY DEF AppendNext, SignalFlusher
<1>3. /\ Queued(buffers, cur, free, flush) /\ ThreadsInv /\ Logged(buffers, mine) /\ KeptInv
      /\ buffers \in [Bufs -> Seq(Nat)] /\ file \in Seq(Nat) /\ lines \in Nat
  BY <1>1, RunningFacts
<1>4. Queued(buffers, cur', free', flush') /\ buffers[cur'] = <<>> /\ free' # <<>> /\ cur' = free'[1]
  BY <1>1, <1>2, <1>3, QueuedNext
<1>5. cur' \in Bufs /\ l.id \in Nat
  BY <1>1, <1>4 DEF Queued
<1>6. \A m : InFile(m) => InFile(m)'
  BY <1>1 DEF InFile
<1>7. ThreadsInv'
  BY <1>1, <1>2, <1>3, <1>4 DEF ThreadsInv
<1>8. CASE Fits(l, cur')
  <2>1. Stores(buffers', buffers, cur', l.id) /\ Len(buffers[cur']) < Capacity
    BY <1>2, <1>3, <1>5, <1>8, Adding
  <2>2. Queued(buffers', cur', free', flush')
    BY <1>4, <1>5, <2>1, Storing
  <2>3. PICK c \in Bufs, e \in 1 .. lines' : c = cur' /\ e = l.id
    BY <1>1, <1>5
  <2>4. Stores(buffers', buffers, c, e) /\ mine' \subseteq mine \cup {e} /\ file' = file /\ line' = line /\ lines <= lines'
    BY <1>1, <1>2, <1>3, <2>3, <2>1
  <2>5. Logged(buffers, mine)' /\ KeptInv'
    BY <1>1, <1>3, <2>4, StoredKept
  <2>6. ASSUME OnceInv PROVE OnceInv'
    <3>1. ~InFile(e)
      BY <1>1, <2>3, <2>6 DEF OnceInv, InFile
    <3>2. ~InBuffers(buffers, e)
      BY <1>1, <1>3, <2>3 DEF Logged, InBuffers
    <3>3. \A u \in Threads : (line'[u] = line[u] \/ line'[u].id = 0) /\ line'[u].id # e
      BY <1>1, <2>3, <2>4
    <3>4. QED
      BY <1>1, <1>3, <2>6, <2>4, <3>1, <3>2, <3>3, StoredOnce
  <2>7. QED
    BY <1>1, <1>2, <1>3, <1>6, <1>7, <2>2, <2>5, <2>6, StepKeeps
<1>9. CASE ~Fits(l, cur')
  <2>1. buffers' = buffers /\ mine' = mine
    BY <1>1, <1>2, <1>3, <1>4, <1>5, <1>9, Adding
  <2>2. Logged(buffers, mine)' /\ KeptInv' /\ (OnceInv => OnceInv')
    BY <1>1, <1>2, <1>3, <2>1, NoneStored
  <2>3. Queued(buffers', cur', free', flush')
    BY <1>4, <2>1
  <2>4. QED
    BY <1>1, <1>2, <1>3, <1>6, <1>7, <2>2, <2>3, StepKeeps
<1>10. QED
  BY <1>8, <1>9

LEMMA AppendWaitsKeeps ==
    ASSUME LoggerInv, NEW t \in Threads, NEW l \in [id : Nat, big : BOOLEAN], l.id = lines + 1, AppendWaits(t, l)
    PROVE  LoggerInv'
<1>1. /\ Running /\ spin = Nobody /\ free # <<>> /\ cur = free[1]
      /\ lines' = lines + 1 /\ lines' \in Nat /\ lines' <= MaxLines /\ l.id \in 1 .. lines' /\ l.id \notin 1 .. lines
      /\ mine' \subseteq mine \cup {l.id} /\ (l.big => mine' = mine) /\ UNCHANGED <<file, process, image, restart_count>>
      /\ \A u \in Threads : pc[u] = "idle" /\ line[u] = NoLine /\ line[u].id = 0
  BY Begins DEF AppendWaits
<1>2. /\ buffers' = buffers /\ cur' = cur /\ Len(free) = 1 /\ free' = <<>> /\ flush' = Append(flush, cur)
      /\ spin' = t /\ pc' = [pc EXCEPT ![t] = "waits"] /\ line' = [line EXCEPT ![t] = l]
      /\ (flusher \in {"gone", "gone_holding"} => flusher' = flusher)
  BY DEF AppendWaits, SignalFlusher
<1>3. /\ Queued(buffers, cur, free, flush) /\ ThreadsInv /\ Logged(buffers, mine) /\ KeptInv
      /\ file \in Seq(Nat) /\ lines \in Nat /\ mine \subseteq 1 .. lines
  BY <1>1, RunningFacts
<1>4. Queued(buffers', cur', free', flush')
  <2>1. Queued(buffers, cur, <<>>, Append(flush, cur))
    BY <1>1, <1>2, <1>3, QueuedLast
  <2>2. QED
    BY <1>2, <2>1
<1>5. line'[t] = l /\ pc'[t] = "waits" /\ \A u \in Threads \ {t} : line'[u] = line[u] /\ pc'[u] = pc[u]
  BY <1>2, <1>3 DEF ThreadsInv
<1>6. Logged(buffers, mine)' /\ KeptInv' /\ (OnceInv => OnceInv')
  BY <1>1, <1>2, <1>3, <1>5, HandKept
<1>7. ThreadsInv'
  <2>1. pc' \in [Threads -> {"idle", "waits", "woken"}] /\ line' \in [Threads -> [id : Nat, big : BOOLEAN]]
    BY <1>2, <1>3 DEF ThreadsInv
  <2>2. \A u \in Threads : u # spin' => pc'[u] = "idle" /\ line'[u] = NoLine
    BY <1>1, <1>2, <1>5
  <2>3. line'[spin'].big => line'[spin'].id \notin mine'
    BY <1>1, <1>2, <1>3, <1>5
  <2>4. \A i \in 1 .. Len(free') : buffers'[free'[i]] = <<>>
    BY <1>2
  <2>5. QED
    BY <1>1, <1>2, <1>5, <2>1, <2>2, <2>3, <2>4 DEF ThreadsInv
<1>8. \A m : InFile(m) => InFile(m)'
  BY <1>1 DEF InFile
<1>9. QED
  BY <1>1, <1>2, <1>3, <1>4, <1>6, <1>7, <1>8, StepKeeps
LEMMA AppendWakesKeeps ==
    ASSUME LoggerInv, NEW t \in Threads, AppendWakes(t)
    PROVE  LoggerInv'
<1>1. /\ UNCHANGED <<process, image, restart_count, lines, mine, file, free, flush>>
      /\ pc[t] = "woken" /\ free # <<>> /\ cur' = Head(free) /\ buffers' = AppendTo(line[t], cur')
      /\ spin' = Nobody /\ pc' = [pc EXCEPT ![t] = "idle"] /\ line' = [line EXCEPT ![t] = NoLine]
      /\ (flusher \in {"gone", "gone_holding"} => flusher' = flusher)
  BY DEF AppendWakes, SignalFlusher, daemonVars
<1>2. ASSUME Running PROVE LoggerInv'
  <2>1. /\ Queued(buffers, cur, free, flush) /\ ThreadsInv /\ Logged(buffers, mine) /\ KeptInv
        /\ buffers \in [Bufs -> Seq(Nat)] /\ file \in Seq(Nat) /\ lines \in Nat
    BY <1>2, RunningFacts
  <2>2. /\ t = spin /\ spin # Nobody /\ line[t].id \in 1 .. lines /\ (line[t].big => line[t].id \notin mine)
        /\ \A i \in 1 .. Len(free) : buffers[free[i]] = <<>>
        /\ \A u \in Threads \ {t} : pc[u] = "idle" /\ line[u] = NoLine
    BY <1>1, <2>1 DEF ThreadsInv
  <2>3. Queued(buffers, cur', free', flush') /\ cur' = free'[1] /\ buffers[cur'] = <<>>
    BY <1>1, <2>1, <2>2, QueuedTake
  <2>4. line'[t] = NoLine /\ \A u \in Threads : line'[u] = NoLine /\ line'[u].id = 0 /\ pc'[u] = "idle"
    <3>1. line'[t] = NoLine /\ pc'[t] = "idle" /\ \A u \in Threads \ {t} : line'[u] = line[u] /\ pc'[u] = pc[u]
      BY <1>1, <2>1 DEF ThreadsInv
    <3>2. \A u \in Threads : line'[u] = NoLine /\ pc'[u] = "idle"
      BY <2>2, <3>1
    <3>3. NoLine.id = 0
      BY DEF NoLine
    <3>4. QED
      BY <3>2, <3>3
  <2>5. \A u \in Threads \ {t} : line'[u] = line[u]
    BY <2>2, <2>4
  <2>6. ThreadsInv'
    <3>1. pc' \in [Threads -> {"idle", "waits", "woken"}] /\ line' \in [Threads -> [id : Nat, big : BOOLEAN]]
      BY <1>1, <2>1 DEF ThreadsInv, NoLine
    <3>2. QED
      BY <1>1, <2>3, <2>4, <3>1 DEF ThreadsInv
  <2>7. PICK c \in Bufs, e \in 1 .. lines' : c = cur' /\ e = line[t].id
    <3>1. cur' \in Bufs
      BY <2>3 DEF Queued
    <3>2. QED
      BY <1>1, <2>2, <3>1
  <2>8. e \in Nat /\ e # 0
    BY <1>1, <2>1
  <2>9. \A m : InFile(m) => InFile(m)'
    BY <1>1 DEF InFile
  <2>10. lines' \in Nat /\ lines <= lines' /\ lines' <= MaxLines /\ file' \in Seq(Nat)
    BY <1>1, <2>1 DEF LoggerInv
  <2>11. CASE ~line[t].big
    <3>1. PICK l : l = line[t]
      OBVIOUS
    <3>2. Stores(AppendTo(l, c), buffers, c, l.id) /\ Len(buffers[c]) < Capacity
      BY <2>1, <2>3, <2>7, <2>11, <3>1, Adding
    <3>3. Stores(buffers', buffers, c, e) /\ mine' \subseteq mine \cup {e} /\ file' = file /\ lines' = lines
      BY <1>1, <2>7, <3>1, <3>2
    <3>4. Queued(buffers', cur', free', flush')
      BY <2>3, <2>7, <2>8, <3>2, <3>3, Storing
    <3>5. \A u \in Threads : line'[u] = line[u] \/ line[u].id = e
      BY <2>5, <2>7
    <3>6. Logged(buffers, mine)' /\ KeptInv'
      BY <2>1, <3>3, <3>5, StoredKept
    <3>7. ASSUME OnceInv PROVE OnceInv'
      <4>1. ~InBuffers(buffers, e) /\ ~InFile(e)
        BY <2>7, <3>7 DEF OnceInv, InFile, InHand
      <4>2. \A u \in Threads : (line'[u] = line[u] \/ line'[u].id = 0) /\ line'[u].id # e
        BY <2>4, <2>8
      <4>3. QED
        BY <2>1, <3>3, <3>7, <4>1, <4>2, StoredOnce
    <3>8. QED
      BY <1>1, <1>2, <2>1, <2>6, <2>9, <3>4, <3>6, <3>7, <2>10, StepKeeps
  <2>12. CASE line[t].big
    <3>1. PICK l : l = line[t]
      OBVIOUS
    <3>2. AppendTo(l, c) = buffers
      BY <2>1, <2>3, <2>7, <2>12, <3>1, Adding
    <3>3. buffers' = buffers
      BY <1>1, <2>7, <3>1, <3>2
    <3>4. \A u \in Threads : line'[u] = line[u] \/ (line'[u].id = 0 /\ line[u].id \notin mine)
      BY <2>2, <2>4, <2>5, <2>12
    <3>5. Logged(buffers, mine)' /\ KeptInv' /\ (OnceInv => OnceInv')
      BY <1>1, <2>1, <3>3, <3>4, NoneStored
    <3>6. Queued(buffers', cur', free', flush')
      BY <2>3, <3>3
    <3>7. QED
      BY <1>1, <1>2, <2>1, <2>6, <2>9, <3>5, <3>6, <2>10, StepKeeps
  <2>13. QED
    BY <2>11, <2>12
<1>3. ASSUME ~Running PROVE LoggerInv'
  <2>1. process = "forking" => flusher' = flusher
    BY <1>1 DEF LoggerInv
  <2>2. QED
    BY <1>1, <1>3, <2>1, ElseKeeps
<1>4. QED
  BY <1>2, <1>3

-----------------------------------------------------------------------------
\* The logger thread.
LEMMA FlusherKeeps ==
    ASSUME LoggerInv, flusher \notin {"gone", "gone_holding"},
           UNCHANGED <<spin, pc, line, buffers, cur, free, flush, file, process, image, restart_count, lines, mine>>
    PROVE  LoggerInv'
<1>1. process \notin {"forking", "child"}
  BY DEF LoggerInv
<1>2. CASE Running
  <2>1. /\ Queued(buffers, cur, free, flush) /\ ThreadsInv /\ Logged(buffers, mine) /\ KeptInv
        /\ file \in Seq(Nat) /\ lines \in Nat /\ lines <= MaxLines
    BY <1>2, RunningFacts DEF LoggerInv
  <2>2. Logged(buffers, mine)' /\ KeptInv' /\ (OnceInv => OnceInv')
    BY <2>1, NoneStored
  <2>3. ThreadsInv'
    BY <2>1 DEF ThreadsInv
  <2>4. \A m : InFile(m) => InFile(m)'
    BY DEF InFile
  <2>5. Queued(buffers', cur', free', flush')
    BY <2>1
  <2>6. QED
    BY <1>2, <2>1, <2>2, <2>3, <2>4, <2>5, StepKeeps
<1>3. CASE ~Running
  BY <1>1, <1>3, ElseKeeps
<1>4. QED
  BY <1>2, <1>3

LEMMA DrainOneKeeps == ASSUME LoggerInv, DrainOne PROVE LoggerInv'
<1>1. /\ flusher = "draining" /\ flusher' = flusher /\ flush # <<>>
      /\ file' = file \o buffers[Head(flush)] /\ buffers' = [buffers EXCEPT ![Head(flush)] = <<>>]
      /\ flush' = Tail(flush) /\ free' = Append(free, Head(flush))
      /\ UNCHANGED <<spin, pc, line, cur, process, image, restart_count, lines, mine>>
  BY DEF DrainOne, threadVars, daemonVars, historyVars
<1>2. process \notin {"forking", "child"}
  BY <1>1 DEF LoggerInv
<1>3. ASSUME Running PROVE LoggerInv'
  <2>1. /\ Queued(buffers, cur, free, flush) /\ ThreadsInv /\ Logged(buffers, mine) /\ KeptInv
        /\ buffers \in [Bufs -> Seq(Nat)] /\ \A b \in Bufs : Len(buffers[b]) <= Capacity
        /\ file \in Seq(Nat) /\ lines \in Nat
    BY <1>3, RunningFacts
  <2>2. /\ Queued(buffers', cur, free', flush') /\ Head(flush) \in Bufs /\ free' # <<>>
        /\ (free # <<>> => free'[1] = free[1])
        /\ (Blank(buffers, free) => Blank(buffers', free'))
    <3>1. Queued(buffers, cur, free, flush) /\ flush # <<>>
      BY <1>1, <2>1
    <3>2. /\ Queued([buffers EXCEPT ![Head(flush)] = <<>>], cur, Append(free, Head(flush)), Tail(flush))
          /\ Head(flush) \in Bufs /\ Append(free, Head(flush)) # <<>>
          /\ (free # <<>> => Append(free, Head(flush))[1] = free[1])
          /\ (Blank(buffers, free) =>
                Blank([buffers EXCEPT ![Head(flush)] = <<>>], Append(free, Head(flush))))
      BY <3>1, QueuedDrain
    <3>3. QED
      BY <1>1, <3>2
  <2>3. PICK b \in Bufs : b = Head(flush)
    BY <2>2
  <2>4. /\ file' \in Seq(Nat) /\ \A l : InFile(l) => InFile(l)'
        /\ Logged(buffers, mine)' /\ KeptInv' /\ (OnceInv => OnceInv')
    BY <1>1, <2>1, <2>3, Flushed
  <2>5. ThreadsInv'
    BY <1>1, <2>1, <2>2 DEF ThreadsInv, Blank
  <2>6. lines' \in Nat /\ lines <= lines' /\ lines' <= MaxLines
    BY <1>1 DEF LoggerInv
  <2>7. Queued(buffers', cur', free', flush')
    BY <1>1, <2>2
  <2>8. QED
    BY <1>1, <1>3, <2>4, <2>5, <2>6, <2>7, StepKeeps
<1>4. QED
  BY <1>1, <1>2, <1>3, ElseKeeps

LEMMA DrainEndsKeeps == ASSUME LoggerInv, DrainEnds PROVE LoggerInv'
<1>1. /\ flusher = "draining"
      /\ pc' = [t \in Threads |-> IF wasEmpty /\ pc[t] = "waits" THEN "woken" ELSE pc[t]]
      /\ UNCHANGED <<spin, line, buffers, cur, free, flush, file, process, image, restart_count, lines, mine>>
  BY DEF DrainEnds, bufferVars, daemonVars
<1>2. process \notin {"forking", "child"}
  BY <1>1 DEF LoggerInv
<1>3. ASSUME Running PROVE LoggerInv'
  <2>1. /\ Queued(buffers, cur, free, flush) /\ ThreadsInv /\ Logged(buffers, mine) /\ KeptInv
        /\ file \in Seq(Nat) /\ lines \in Nat
    BY <1>3, RunningFacts
  <2>2. Logged(buffers, mine)' /\ KeptInv' /\ (OnceInv => OnceInv')
    BY <1>1, <2>1, NoneStored
  <2>3. ThreadsInv'
    <3>1. pc' \in [Threads -> {"idle", "waits", "woken"}]
      BY <1>1, <2>1 DEF ThreadsInv
    <3>2. \A t \in Threads : pc'[t] = "idle" <=> pc[t] = "idle"
      BY <1>1
    <3>3. QED
      BY <1>1, <2>1, <3>1, <3>2 DEF ThreadsInv
  <2>4. \A l : InFile(l) => InFile(l)'
    BY <1>1 DEF InFile
  <2>5. lines' \in Nat /\ lines <= lines' /\ lines' <= MaxLines
    BY <1>1 DEF LoggerInv
  <2>6. flusher \notin {"gone", "gone_holding"} /\ Queued(buffers', cur', free', flush') /\ file' \in Seq(Nat)
    BY <1>1, <2>1
  <2>7. QED
    BY <1>1, <1>3, <2>2, <2>3, <2>4, <2>5, <2>6, StepKeeps
<1>4. QED
  BY <1>1, <1>2, <1>3, ElseKeeps

LEMMA WriteCurKeeps == ASSUME LoggerInv, WriteCur PROVE LoggerInv'
<1>1. /\ flusher = "timed_out" /\ file' = file \o buffers[cur] /\ buffers' = [buffers EXCEPT ![cur] = <<>>]
      /\ UNCHANGED <<spin, pc, line, cur, free, flush, process, image, restart_count, lines, mine>>
  BY DEF WriteCur, threadVars, daemonVars, historyVars
<1>2. process \notin {"forking", "child"}
  BY <1>1 DEF LoggerInv
<1>3. ASSUME Running PROVE LoggerInv'
  <2>1. /\ Queued(buffers, cur, free, flush) /\ ThreadsInv /\ Logged(buffers, mine) /\ KeptInv
        /\ buffers \in [Bufs -> Seq(Nat)] /\ \A b \in Bufs : Len(buffers[b]) <= Capacity
        /\ file \in Seq(Nat) /\ lines \in Nat
    BY <1>3, RunningFacts
  <2>2. /\ Queued(buffers', cur, free, flush) /\ cur \in Bufs
        /\ (Blank(buffers, free) => Blank(buffers', free))
    <3>1. /\ Queued([buffers EXCEPT ![cur] = <<>>], cur, free, flush) /\ cur \in Bufs
          /\ (Blank(buffers, free) => Blank([buffers EXCEPT ![cur] = <<>>], free))
      BY <2>1, QueuedWrite
    <3>2. QED
      BY <1>1, <3>1
  <2>3. PICK b \in Bufs : b = cur
    BY <2>2
  <2>4. /\ file' \in Seq(Nat) /\ \A l : InFile(l) => InFile(l)'
        /\ Logged(buffers, mine)' /\ KeptInv' /\ (OnceInv => OnceInv')
    BY <1>1, <2>1, <2>3, Flushed
  <2>5. ThreadsInv'
    BY <1>1, <2>1, <2>2 DEF ThreadsInv, Blank
  <2>6. lines' \in Nat /\ lines <= lines' /\ lines' <= MaxLines
    BY <1>1 DEF LoggerInv
  <2>7. flusher \notin {"gone", "gone_holding"} /\ Queued(buffers', cur', free', flush')
    BY <1>1, <2>2
  <2>8. QED
    BY <1>1, <1>3, <2>4, <2>5, <2>6, <2>7, StepKeeps
<1>4. QED
  BY <1>1, <1>2, <1>3, ElseKeeps
-----------------------------------------------------------------------------
\* The process.
LEMMA StartDirectKeeps == ASSUME LoggerInv, StartDirect PROVE LoggerInv'
<1>1. /\ process = "boot" /\ process' = "direct"
      /\ UNCHANGED <<spin, pc, line, buffers, cur, free, flush, file, image, restart_count, lines, mine>>
  BY DEF StartDirect, threadVars, bufferVars, historyVars
<1>2. Running
  BY <1>1 DEF Running
<1>3. /\ Queued(buffers, cur, free, flush) /\ ThreadsInv /\ Logged(buffers, mine) /\ KeptInv
      /\ file \in Seq(Nat) /\ lines \in Nat
  BY <1>2, RunningFacts
<1>4. image = <<>> /\ OnceInv
  BY <1>1 DEF LoggerInv
<1>5. Logged(buffers, mine)' /\ KeptInv' /\ OnceInv'
  BY <1>1, <1>3, <1>4, NoneStored
<1>6. ThreadsInv'
  BY <1>1, <1>3 DEF ThreadsInv
<1>7. Queued(buffers, cur, free, flush)'
  <2>1. Queued(buffers', cur', free', flush')
    BY <1>1, <1>3
  <2>2. QED
    BY <2>1 DEF Queued, Placed
<1>8. QED
  BY <1>1, <1>3, <1>4, <1>5, <1>6, <1>7 DEF LoggerInv, Running

LEMMA StartDaemonKeeps == ASSUME LoggerInv, StartDaemon PROVE LoggerInv'
<1>1. /\ process = "boot" /\ Resting /\ process' = "forking"
      /\ image' = [buffers |-> buffers, cur |-> cur, free |-> free, flush |-> flush, mine |-> mine]
      /\ flusher' \in {"gone", "gone_holding"}
      /\ UNCHANGED <<file, restart_count, lines>>
  BY DEF StartDaemon
<1>2. Running
  BY <1>1 DEF Running
<1>3. /\ Queued(buffers, cur, free, flush) /\ ThreadsInv /\ Logged(buffers, mine) /\ KeptInv
      /\ file \in Seq(Nat) /\ lines \in Nat
  BY <1>2, RunningFacts
<1>4. spin = Nobody
  BY <1>1, <1>3 DEF Resting, ThreadsInv
<1>5. free # <<>> /\ cur = free[1]
  BY <1>3, <1>4 DEF ThreadsInv
<1>6. \A t \in Threads : line[t].id = 0
  BY <1>3, <1>4 DEF ThreadsInv, NoLine
<1>7. \A l \in mine : InFile(l) \/ InBuffers(buffers, l)
  BY <1>3, <1>6 DEF KeptInv, Logged, InHand
<1>8. /\ image'.buffers = buffers /\ image'.cur = cur /\ image'.free = free /\ image'.flush = flush
      /\ image'.mine = mine /\ image' # <<>>
  BY <1>1
<1>9. Queued(image'.buffers, image'.cur, image'.free, image'.flush)
  BY <1>3, <1>8
<1>10. Queued(image.buffers, image.cur, image.free, image.flush)'
  BY <1>9 DEF Queued, Placed
<1>11. Logged(image.buffers, image.mine)'
  BY <1>1, <1>3, <1>8 DEF Logged
<1>12. (\A l \in image.mine : InFile(l) \/ InBuffers(image.buffers, l))'
  BY <1>1, <1>7, <1>8 DEF InFile, InBuffers
<1>13. ImageInv'
  BY <1>5, <1>8, <1>10, <1>11, <1>12 DEF ImageInv
<1>14. QED
  BY <1>1, <1>3, <1>13 DEF LoggerInv, Running

LEMMA ForkKeeps == ASSUME LoggerInv, Fork PROVE LoggerInv'
<1>1. /\ process = "forking" /\ process' = "child"
      /\ spin' = Nobody /\ pc' = [t \in Threads |-> "idle"] /\ line' = [t \in Threads |-> NoLine]
      /\ buffers' = image.buffers /\ cur' = image.cur /\ free' = image.free /\ flush' = image.flush
      /\ mine' = image.mine /\ UNCHANGED <<file, image, restart_count, lines>>
      /\ (flusher \in {"gone", "gone_holding"} => flusher' = flusher)
  BY DEF Fork
<1>2. ImageInv /\ flusher \in {"gone", "gone_holding"} /\ file \in Seq(Nat) /\ lines \in Nat
  BY <1>1 DEF LoggerInv
<1>3. ImageInv'
  <2>1. \A l : InFile(l) => InFile(l)'
    BY <1>1 DEF InFile
  <2>2. QED
    BY <1>1, <1>2, <2>1, ImageKept
<1>4. Queued(buffers, cur, free, flush)'
  <2>1. Queued(buffers', cur', free', flush')
    BY <1>1, <1>2 DEF ImageInv
  <2>2. QED
    BY <2>1 DEF Queued, Placed
<1>5. ThreadsInv'
  <2>1. line' \in [Threads -> [id : Nat, big : BOOLEAN]] /\ pc' \in [Threads -> {"idle", "waits", "woken"}]
    BY <1>1 DEF NoLine
  <2>2. free' # <<>> /\ cur' = free'[1]
    BY <1>1, <1>2 DEF ImageInv
  <2>3. QED
    BY <1>1, <2>1, <2>2 DEF ThreadsInv
<1>6. Logged(buffers, mine)'
  BY <1>1, <1>2 DEF ImageInv, Logged
<1>7. KeptInv'
  <2>1. \A l \in mine' : InFile(l)' \/ InBuffers(buffers', l)
    BY <1>1, <1>2 DEF ImageInv, InFile
  <2>2. QED
    BY <2>1 DEF KeptInv, InBuffers
<1>8. QED
  BY <1>1, <1>2, <1>3, <1>4, <1>5, <1>6, <1>7 DEF LoggerInv, Running

LEMMA CrashKeeps == ASSUME LoggerInv, Crash PROVE LoggerInv'
<1>1. /\ process = "child" /\ restart_count < MaxRestarts /\ process' = "forking"
      /\ restart_count' = restart_count + 1 /\ UNCHANGED <<flusher, file, image, lines>>
  BY DEF Crash
<1>2. ImageInv /\ flusher \in {"gone", "gone_holding"} /\ lines \in Nat
  BY <1>1 DEF LoggerInv
<1>3. ImageInv'
  <2>1. \A l : InFile(l) => InFile(l)'
    BY <1>1 DEF InFile
  <2>2. QED
    BY <1>1, <1>2, <2>1, ImageKept
<1>4. restart_count' \in 0 .. MaxRestarts
  BY <1>1 DEF LoggerInv
<1>5. QED
  BY <1>1, <1>2, <1>3, <1>4 DEF LoggerInv, Running

-----------------------------------------------------------------------------
LEMMA LoggerInitInv == LoggerInit => LoggerInv
<1> SUFFICES ASSUME LoggerInit PROVE LoggerInv
  OBVIOUS
<1>1. /\ buffers = [b \in Bufs |-> <<>>] /\ free = [b \in Bufs |-> b]
      /\ cur = 1 /\ flush = <<>> /\ file = <<>> /\ lines = 0 /\ mine = {}
      /\ spin = Nobody /\ pc = [t \in Threads |-> "idle"] /\ line = [t \in Threads |-> NoLine]
      /\ process = "boot" /\ image = <<>> /\ restart_count = 0
  BY DEF LoggerInit, Bufs
<1>2. buffers \in [Bufs -> Seq(Nat)] /\ \A b \in Bufs : buffers[b] = <<>> /\ Len(buffers[b]) = 0
  BY <1>1
<1>3. free \in Seq(Bufs) /\ Len(free) = BufferNum /\ 1 \in Bufs /\ \A i \in Bufs : free[i] = i
  BY <1>1 DEF Bufs
<1>4. free # <<>>
  BY <1>3, NonEmpty DEF Bufs
<1>5. Placed(buffers, cur, free, BufferNum, <<>>, 0)
  BY <1>1, <1>2, <1>3 DEF Placed, Bufs
<1>6. Queued(buffers, cur, free, flush)
  BY <1>1, <1>2, <1>3, <1>5 DEF Queued
<1>7. ThreadsInv
  <2>1. line \in [Threads -> [id : Nat, big : BOOLEAN]] /\ pc \in [Threads -> {"idle", "waits", "woken"}]
    BY <1>1 DEF NoLine
  <2>2. QED
    BY <1>1, <1>3, <1>4, <2>1 DEF ThreadsInv
<1>8. ~\E i \in 1 .. Len(file) : TRUE
  BY <1>1
<1>9. OnceInv
  BY <1>2, <1>8 DEF OnceInv, InBuffers
<1>10. Logged(buffers, mine)
  BY <1>1, <1>2 DEF Logged
<1>11. KeptInv
  BY <1>1 DEF KeptInv
<1>12. QED
  BY <1>1, <1>6, <1>7, <1>9, <1>10, <1>11 DEF LoggerInv, Running

LEMMA LoggerStep == LoggerInv /\ [LoggerNext]_logVars => LoggerInv'
<1> SUFFICES ASSUME LoggerInv, [LoggerNext]_logVars PROVE LoggerInv'
  OBVIOUS
<1>1. ASSUME NEW t \in Threads, Appends(t) PROVE LoggerInv'
  <2>1. PICK big \in BOOLEAN : LET l == [id |-> lines + 1, big |-> big] IN
          AppendFits(t, l) \/ AppendNext(t, l) \/ AppendWaits(t, l)
    BY <1>1 DEF Appends
  <2>2. PICK l : l = [id |-> lines + 1, big |-> big] /\ (AppendFits(t, l) \/ AppendNext(t, l) \/ AppendWaits(t, l))
    BY <2>1
  <2>3. l.id = lines + 1 /\ l \in [id : Nat, big : BOOLEAN]
    BY <2>2 DEF LoggerInv
  <2>4. QED
    BY <2>2, <2>3, AppendFitsKeeps, AppendNextKeeps, AppendWaitsKeeps
<1>2. ASSUME NEW t \in Threads, AppendWakes(t) PROVE LoggerInv'
  BY <1>2, AppendWakesKeeps
<1>3. CASE FlusherStep
  <2>1. CASE FlusherWaits
    BY <2>1, FlusherKeeps DEF FlusherWaits, threadVars, bufferVars, daemonVars, historyVars
  <2>2. CASE Drain
    BY <2>2, FlusherKeeps DEF Drain, threadVars, bufferVars, daemonVars, historyVars
  <2>3. CASE DrainOne
    BY <2>3, DrainOneKeeps
  <2>4. CASE DrainEnds
    BY <2>4, DrainEndsKeeps
  <2>5. CASE WriteCur
    BY <2>5, WriteCurKeeps
  <2>6. QED
    BY <1>3, <2>1, <2>2, <2>3, <2>4, <2>5 DEF FlusherStep
<1>4. CASE Timeout
  BY <1>4, FlusherKeeps DEF Timeout, threadVars, bufferVars, daemonVars, historyVars
<1>5. CASE StartDirect
  BY <1>5, StartDirectKeeps
<1>6. CASE StartDaemon
  BY <1>6, StartDaemonKeeps
<1>7. CASE Fork
  BY <1>7, ForkKeeps
<1>8. CASE ForkFails
  BY <1>8, EndKeeps DEF ForkFails
<1>9. ASSUME NEW twice \in BOOLEAN, Exit(twice) PROVE LoggerInv'
  <2>1. process' \in {"finished", "ended"} /\ UNCHANGED <<restart_count, lines>>
    BY <1>9 DEF Exit
  <2>2. QED
    BY <2>1, EndKeeps
<1>10. CASE Waited
  BY <1>10, EndKeeps DEF Waited
<1>11. CASE Crash
  BY <1>11, CrashKeeps
<1>12. CASE UNCHANGED logVars
  <2>1. /\ UNCHANGED <<spin, pc, line, buffers, cur, free, flush, file, process, image, restart_count, lines, mine>>
        /\ flusher' = flusher
    BY <1>12 DEF logVars, bufferVars, daemonVars, historyVars
  <2>2. CASE Running
    <3>1. /\ Queued(buffers, cur, free, flush) /\ ThreadsInv /\ Logged(buffers, mine) /\ KeptInv
          /\ file \in Seq(Nat) /\ lines \in Nat /\ lines <= MaxLines
      BY <2>2, RunningFacts DEF LoggerInv
    <3>2. Logged(buffers, mine)' /\ KeptInv' /\ (OnceInv => OnceInv')
      BY <2>1, <3>1, NoneStored
    <3>3. ThreadsInv'
      BY <2>1, <3>1 DEF ThreadsInv
    <3>4. \A l : InFile(l) => InFile(l)'
      BY <2>1 DEF InFile
    <3>5. Queued(buffers', cur', free', flush')
      BY <2>1, <3>1
    <3>6. QED
      BY <2>1, <2>2, <3>1, <3>2, <3>3, <3>4, <3>5, StepKeeps
  <2>3. CASE ~Running
    BY <2>1, <2>3, ElseKeeps
  <2>4. QED
    BY <2>2, <2>3
<1>13. QED
  BY <1>1, <1>2, <1>3, <1>4, <1>5, <1>6, <1>7, <1>8, <1>9, <1>10, <1>11, <1>12 DEF LoggerNext, Wakings
-----------------------------------------------------------------------------
\* What the invariant says of the buffers and of each line.
LEMMA Counted ==
    ASSUME NEW S, IsFiniteSet(S)
    PROVE  /\ Cardinality(S) \in Nat /\ (S = {} => Cardinality(S) = 0) /\ (S # {} => Cardinality(S) >= 1)
           /\ (S # {} /\ (\A x, y \in S : x = y) => Cardinality(S) = 1)
<1>1. Cardinality(S) \in Nat /\ (Cardinality(S) = 0 <=> S = {})
  BY FS_CardinalityType, FS_EmptySet
<1>2. ASSUME S # {}, \A x, y \in S : x = y PROVE Cardinality(S) = 1
  <2>1. PICK x : x \in S
    BY <1>2
  <2>2. S = {x}
    BY <1>2, <2>1
  <2>3. QED
    BY <2>2, FS_Singleton
<1>3. QED
  BY <1>1, <1>2

LEMMA InvGivesBuffers == LoggerInv => BuffersSound
<1> SUFFICES ASSUME LoggerInv, Running
             PROVE  /\ Len(free) + Len(flush) = BufferNum
                    /\ \A b \in 1 .. BufferNum : \E i \in DOMAIN (free \o flush) : (free \o flush)[i] = b
                    /\ (spin = Nobody) = Resting
                    /\ spin = Nobody => free # <<>> /\ cur = Head(free)
                    /\ \A i \in DOMAIN free : free[i] # cur => buffers[free[i]] = <<>>
  BY DEF BuffersSound, LoggerInv
<1>1. /\ Queued(buffers, cur, free, flush) /\ ThreadsInv
      /\ free \in Seq(Bufs) /\ flush \in Seq(Bufs)
  BY RunningFacts
<1>2. Placed(buffers, cur, free, Len(free), flush, Len(flush)) /\ DOMAIN free = 1 .. Len(free)
  BY <1>1 DEF Queued
<1>3. ASSUME NEW b \in 1 .. BufferNum PROVE \E i \in DOMAIN (free \o flush) : (free \o flush)[i] = b
  <2>1. /\ free \o flush \in Seq(Bufs) /\ Len(free \o flush) = Len(free) + Len(flush)
        /\ \A i \in 1 .. Len(free) : (free \o flush)[i] = free[i]
        /\ \A i \in 1 .. Len(flush) : (free \o flush)[Len(free) + i] = flush[i]
    BY <1>1, Joining
  <2>2. DOMAIN (free \o flush) = 1 .. Len(free \o flush) /\ Len(free) \in Nat /\ Len(flush) \in Nat
    BY <1>1, <2>1, NonEmpty
  <2>3. PICK q : q = free \o flush
    OBVIOUS
  <2>4. CASE \E i \in 1 .. Len(free) : free[i] = b
    <3>1. PICK i \in 1 .. Len(free) : free[i] = b
      BY <2>4
    <3>2. i \in DOMAIN q /\ q[i] = b
      BY <2>1, <2>2, <2>3, <3>1
    <3>3. QED
      BY <2>3, <3>2
  <2>5. CASE \E i \in 1 .. Len(flush) : flush[i] = b
    <3>1. PICK i \in 1 .. Len(flush) : flush[i] = b
      BY <2>5
    <3>2. Len(free) + i \in DOMAIN q /\ q[Len(free) + i] = b
      BY <2>1, <2>2, <2>3, <3>1
    <3>3. QED
      BY <2>3, <3>2
  <2>6. QED
    BY <1>2, <2>4, <2>5 DEF Placed, Bufs
<1>4. (spin = Nobody) = Resting
  <2>1. ASSUME spin = Nobody PROVE Resting
    BY <1>1, <2>1 DEF ThreadsInv, Resting
  <2>2. ASSUME Resting PROVE spin = Nobody
    BY <1>1, <2>2 DEF ThreadsInv, Resting
  <2>3. (spin = Nobody) \in BOOLEAN /\ Resting \in BOOLEAN
    BY DEF Resting
  <2>4. QED
    BY <2>1, <2>2, <2>3
<1>5. ASSUME spin = Nobody PROVE free # <<>> /\ cur = Head(free)
  <2>1. free # <<>> /\ cur = free[1]
    BY <1>1, <1>5 DEF ThreadsInv
  <2>2. QED
    BY <1>1, <2>1, TailOf
<1>6. QED
  BY <1>2, <1>3, <1>4, <1>5 DEF Placed

LEMMA InvGivesLines == LoggerInv => LinesKept
<1> SUFFICES ASSUME LoggerInv, Running, NEW l \in mine
             PROVE  LET n == Written(l) + Buffered(l) + Waiting(l) IN n >= 1 /\ (image = <<>> => n = 1)
  BY DEF LinesKept
<1>1. /\ Queued(buffers, cur, free, flush) /\ ThreadsInv /\ Logged(buffers, mine) /\ KeptInv
      /\ buffers \in [Bufs -> Seq(Nat)] /\ file \in Seq(Nat) /\ lines \in Nat
      /\ \A b \in Bufs : Len(buffers[b]) <= Capacity
  BY RunningFacts
<1>2. l \in 1 .. lines /\ l # 0
  BY <1>1 DEF Logged
<1>3. DOMAIN file = 1 .. Len(file) /\ Len(file) \in Nat
  BY <1>1, NonEmpty
<1>4. PICK W : W = { i \in DOMAIN file : file[i] = l }
  OBVIOUS
<1>5. PICK B : B = { p \in (1 .. BufferNum) \X (1 .. Capacity) :
                       p[2] \in DOMAIN buffers[p[1]] /\ buffers[p[1]][p[2]] = l }
  OBVIOUS
<1>6. PICK H : H = { t \in Threads : line[t].id = l }
  OBVIOUS
<1>7. Written(l) = Cardinality(W) /\ Buffered(l) = Cardinality(B) /\ Waiting(l) = Cardinality(H)
  BY <1>4, <1>5, <1>6 DEF Written, Buffered, Waiting
<1>8. IsFiniteSet(W) /\ (W # {} <=> InFile(l))
  <2>1. IsFiniteSet(1 .. Len(file))
    BY <1>3, FS_Interval
  <2>2. W \subseteq 1 .. Len(file)
    BY <1>3, <1>4
  <2>3. IsFiniteSet(W)
    BY <2>1, <2>2, FS_Subset
  <2>4. QED
    BY <1>3, <1>4, <2>3 DEF InFile
<1>9. IsFiniteSet(B)
  <2>1. IsFiniteSet(1 .. BufferNum) /\ IsFiniteSet(1 .. Capacity)
    BY FS_Interval
  <2>2. IsFiniteSet((1 .. BufferNum) \X (1 .. Capacity))
    BY <2>1, FS_Product
  <2>3. B \subseteq (1 .. BufferNum) \X (1 .. Capacity)
    BY <1>5
  <2>4. QED
    BY <2>2, <2>3, FS_Subset
<1>10. ASSUME NEW p \in B
       PROVE  /\ p = <<p[1], p[2]>> /\ p[1] \in Bufs /\ p[2] \in 1 .. Len(buffers[p[1]])
              /\ buffers[p[1]][p[2]] = l
  <2>1. p \in (1 .. BufferNum) \X (1 .. Capacity) /\ p[2] \in DOMAIN buffers[p[1]] /\ buffers[p[1]][p[2]] = l
    BY <1>5
  <2>2. p = <<p[1], p[2]>> /\ p[1] \in Bufs
    BY <2>1 DEF Bufs
  <2>3. DOMAIN buffers[p[1]] = 1 .. Len(buffers[p[1]])
    BY <1>1, <2>2, NonEmpty
  <2>4. QED
    BY <2>1, <2>2, <2>3
<1>11. B # {} <=> InBuffers(buffers, l)
  <2>1. ASSUME InBuffers(buffers, l) PROVE B # {}
    <3>1. PICK b \in Bufs : \E i \in 1 .. Len(buffers[b]) : buffers[b][i] = l
      BY <2>1 DEF InBuffers
    <3>2. PICK i \in 1 .. Len(buffers[b]) : buffers[b][i] = l
      BY <3>1
    <3>3. Len(buffers[b]) \in Nat /\ Len(buffers[b]) <= Capacity /\ DOMAIN buffers[b] = 1 .. Len(buffers[b])
      BY <1>1, NonEmpty
    <3>4. b \in 1 .. BufferNum /\ i \in 1 .. Capacity /\ i \in DOMAIN buffers[b]
      BY <3>2, <3>3 DEF Bufs
    <3>5. <<b, i>> \in B
      BY <1>5, <3>2, <3>4
    <3>6. QED
      BY <3>5
  <2>2. ASSUME B # {} PROVE InBuffers(buffers, l)
    <3>1. PICK p : p \in B
      BY <2>2
    <3>2. QED
      BY <1>10, <3>1 DEF InBuffers
  <2>3. QED
    BY <2>1, <2>2
<1>12. /\ IsFiniteSet(H) /\ (H # {} <=> InHand(l)) /\ \A t, u \in H : t = u
  <2>1. \A t \in Threads : t # spin => line[t].id = 0
    BY <1>1 DEF ThreadsInv, NoLine
  <2>2. \A t \in H : t = spin
    BY <1>2, <1>6, <2>1
  <2>3. H \subseteq {spin} /\ IsFiniteSet({spin})
    BY <2>2, FS_Singleton
  <2>4. IsFiniteSet(H)
    BY <2>3, FS_Subset
  <2>5. QED
    BY <1>6, <2>2, <2>4 DEF InHand
<1>13. /\ Cardinality(W) \in Nat /\ Cardinality(B) \in Nat /\ Cardinality(H) \in Nat
       /\ (W = {} => Cardinality(W) = 0) /\ (B = {} => Cardinality(B) = 0) /\ (H = {} => Cardinality(H) = 0)
       /\ (W # {} => Cardinality(W) >= 1) /\ (B # {} => Cardinality(B) >= 1) /\ (H # {} => Cardinality(H) >= 1)
  BY <1>8, <1>9, <1>12, Counted
<1>14. W # {} \/ B # {} \/ H # {}
  BY <1>1, <1>8, <1>11, <1>12 DEF KeptInv
<1>15. ASSUME image = <<>> PROVE Cardinality(W) + Cardinality(B) + Cardinality(H) = 1
  <2>1. OnceInv
    BY <1>15 DEF LoggerInv, Running, ImageInv
  <2>2. ASSUME W # {} PROVE B = {} /\ H = {} /\ Cardinality(W) = 1
    <3>1. \A i, j \in W : i = j
      BY <1>3, <1>4, <2>1 DEF OnceInv
    <3>2. ~InBuffers(buffers, l) /\ ~InHand(l)
      BY <1>8, <2>1, <2>2 DEF OnceInv, InFile
    <3>3. QED
      BY <1>8, <1>11, <1>12, <2>2, <3>1, <3>2, Counted
  <2>3. ASSUME B # {} PROVE H = {} /\ Cardinality(B) = 1
    <3>1. ASSUME NEW p \in B, NEW q \in B PROVE p = q
      <4>1. /\ p = <<p[1], p[2]>> /\ p[1] \in Bufs /\ p[2] \in 1 .. Len(buffers[p[1]]) /\ buffers[p[1]][p[2]] = l
            /\ q = <<q[1], q[2]>> /\ q[1] \in Bufs /\ q[2] \in 1 .. Len(buffers[q[1]]) /\ buffers[q[1]][q[2]] = l
        BY <1>10
      <4>2. p[1] = q[1] /\ p[2] = q[2]
        BY <2>1, <4>1 DEF OnceInv
      <4>3. QED
        BY <4>1, <4>2
    <3>2. ~InHand(l)
      BY <1>11, <2>1, <2>3 DEF OnceInv, InHand
    <3>3. QED
      BY <1>9, <1>12, <2>3, <3>1, <3>2, Counted
  <2>4. ASSUME H # {} PROVE Cardinality(H) = 1
    BY <1>12, <2>4, Counted
  <2>5. QED
    BY <1>13, <1>14, <2>2, <2>3, <2>4
<1>16. QED
  BY <1>7, <1>13, <1>14, <1>15

\* The logger's buffers are sound, and it loses and repeats no line while it
\* runs: for any threads, any number of buffers of any size, and any number of
\* lines and restarts.
THEOREM LoggerIsSound == LoggerSpec => []LoggerSound
<1>1. LoggerSpec => []LoggerInv
  BY LoggerInitInv, LoggerStep, PTL DEF LoggerSpec
<1>2. LoggerInv => LoggerSound
  BY InvGivesBuffers, InvGivesLines DEF LoggerSound
<1>3. QED
  BY <1>1, <1>2, PTL
-----------------------------------------------------------------------------
(***************************************************************************)
(* What is in the file in the end.  The destructor's loop over the full    *)
(* buffers is a recursive function: that it has a value, and what the      *)
(* value is, are shown by the smallest argument at which they would fail.  *)
(***************************************************************************)
LEMMA LeastOf ==
    ASSUME NEW R, IsWellFoundedOn(R, Nat), NEW S \in SUBSET Nat, S # {}
    PROVE  \E m \in S : \A k \in S : ~(<<k, m>> \in R)
BY WFMin, Zenon

LEMMA Smallest ==
    ASSUME NEW S \in SUBSET Nat, S # {}
    PROVE  \E m \in S : \A k \in S : m <= k
<1>1. PICK R : IsWellFoundedOn(R, Nat) /\ \A x, y \in Nat : <<x, y>> \in R <=> x < y
  <2>1. IsWellFoundedOn(OpToRel(<, Nat), Nat)
    BY NatLessThanWellFounded
  <2>2. \A x, y \in Nat : <<x, y>> \in OpToRel(<, Nat) <=> x < y
    BY DEF OpToRel
  <2>3. \E R : IsWellFoundedOn(R, Nat) /\ \A x, y \in Nat : <<x, y>> \in R <=> x < y
    BY <2>1, <2>2, Zenon
  <2>4. QED
    BY <2>3
<1>2. PICK m \in S : \A k \in S : ~(<<k, m>> \in R)
  BY <1>1, LeastOf
<1>3. \A k \in S : ~(k < m) /\ k \in Nat /\ m \in Nat
  BY <1>1, <1>2
<1>4. QED
  BY <1>3

\* A set with 0 that is closed under "+ 1" below n.
LEMMA Climbs ==
    ASSUME NEW n \in Nat, NEW G, 0 \in G, \A m \in 0 .. n - 1 : m \in G => m + 1 \in G
    PROVE  \A m \in 0 .. n : m \in G
<1> SUFFICES ASSUME NEW k \in 0 .. n, k \notin G PROVE FALSE
  OBVIOUS
<1>1. PICK S : S = { m \in 0 .. n : m \notin G }
  OBVIOUS
<1>2. S \in SUBSET Nat /\ k \in S
  BY <1>1
<1>3. PICK m \in S : \A j \in S : m <= j
  BY <1>2, Smallest
<1>4. m \in 0 .. n /\ m \notin G /\ m # 0
  BY <1>1, <1>3
<1>5. m - 1 \in 0 .. n - 1 /\ (m - 1) + 1 = m /\ m - 1 \in 0 .. n
  BY <1>4
<1>6. m - 1 \in G
  BY <1>1, <1>3, <1>5
<1>7. QED
  BY <1>4, <1>5, <1>6

Rising(s)    == \A i, j \in 1 .. Len(s) : i < j => s[i] < s[j]
Before(s, u) == \A i \in 1 .. Len(s), j \in 1 .. Len(u) : s[i] < u[j]
Under(s, e)  == \A i \in 1 .. Len(s) : s[i] < e
Single(s)    == \A i, j \in 1 .. Len(s) : s[i] = s[j] => i = j
Apart(s, u)  == \A i \in 1 .. Len(s), j \in 1 .. Len(u) : s[i] # u[j]
Has(s, l)    == \E i \in 1 .. Len(s) : s[i] = l

\* Two sequences of lines, one after the other.
LEMMA Joined ==
    ASSUME NEW f \in Seq(Nat), NEW g \in Seq(Nat)
    PROVE  /\ f \o g \in Seq(Nat) /\ \A l : Has(f \o g, l) <=> Has(f, l) \/ Has(g, l)
           /\ Rising(f) /\ Rising(g) /\ Before(f, g) => Rising(f \o g)
           /\ Single(f) /\ Single(g) /\ Apart(f, g) => Single(f \o g)
<1>1. PICK h \in Seq(Nat) : /\ h = f \o g /\ Len(h) = Len(f) + Len(g)
                            /\ \A i \in 1 .. Len(f) : h[i] = f[i]
                            /\ \A i \in 1 .. Len(g) : h[Len(f) + i] = g[i]
  <2>1. /\ f \o g \in Seq(Nat) /\ Len(f \o g) = Len(f) + Len(g)
        /\ \A i \in 1 .. Len(f) : (f \o g)[i] = f[i]
        /\ \A i \in 1 .. Len(g) : (f \o g)[Len(f) + i] = g[i]
    BY Joining
  <2>2. QED
    BY <2>1
<1>2. Len(f) \in Nat /\ Len(g) \in Nat
  BY NonEmpty
<1>3. ASSUME NEW i \in 1 .. Len(h)
      PROVE  (i \in 1 .. Len(f) /\ h[i] = f[i]) \/ (i > Len(f) /\ i - Len(f) \in 1 .. Len(g) /\ h[i] = g[i - Len(f)])
  <2>1. CASE i <= Len(f)
    BY <1>1, <1>2, <2>1
  <2>2. CASE i > Len(f)
    <3>1. i - Len(f) \in 1 .. Len(g) /\ Len(f) + (i - Len(f)) = i
      BY <1>1, <1>2, <2>2
    <3>2. QED
      BY <1>1, <2>2, <3>1
  <2>3. QED
    BY <1>2, <2>1, <2>2
<1>4. ASSUME NEW l PROVE Has(h, l) <=> Has(f, l) \/ Has(g, l)
  <2>1. ASSUME Has(h, l) PROVE Has(f, l) \/ Has(g, l)
    BY <1>3, <2>1 DEF Has
  <2>2. ASSUME NEW i \in 1 .. Len(f), f[i] = l PROVE Has(h, l)
    <3>1. i \in 1 .. Len(h) /\ h[i] = l
      BY <1>1, <1>2, <2>2
    <3>2. QED
      BY <3>1 DEF Has
  <2>3. ASSUME NEW i \in 1 .. Len(g), g[i] = l PROVE Has(h, l)
    <3>1. Len(f) + i \in 1 .. Len(h) /\ h[Len(f) + i] = l
      BY <1>1, <1>2, <2>3
    <3>2. QED
      BY <3>1 DEF Has
  <2>4. QED
    BY <2>1, <2>2, <2>3 DEF Has
<1>5. ASSUME Rising(f), Rising(g), Before(f, g), NEW i \in 1 .. Len(h), NEW j \in 1 .. Len(h), i < j
      PROVE  h[i] < h[j]
  <2>1. CASE j <= Len(f)
    <3>1. i \in 1 .. Len(f) /\ j \in 1 .. Len(f) /\ h[i] = f[i] /\ h[j] = f[j]
      BY <1>1, <1>2, <1>5, <2>1
    <3>2. QED
      BY <1>5, <3>1 DEF Rising
  <2>2. CASE i > Len(f)
    <3>1. PICK k, m : k = i - Len(f) /\ m = j - Len(f)
      OBVIOUS
    <3>2. /\ k \in 1 .. Len(g) /\ h[i] = g[k]
          /\ m \in 1 .. Len(g) /\ h[j] = g[m]
      <4>1. j > Len(f)
        BY <1>2, <1>5, <2>2
      <4>2. k \in 1 .. Len(g) /\ h[i] = g[k]
        BY <1>3, <2>2, <3>1, <1>2
      <4>3. m \in 1 .. Len(g) /\ h[j] = g[m]
        BY <1>3, <3>1, <4>1, <1>2
      <4>4. QED
        BY <4>2, <4>3
    <3>3. k < m
      BY <1>2, <1>5, <3>1, <1>1
    <3>4. g[k] < g[m]
      BY <1>5, <3>2, <3>3 DEF Rising
    <3>5. QED
      BY <3>2, <3>4
  <2>3. CASE i <= Len(f) /\ j > Len(f)
    <3>1. i \in 1 .. Len(f) /\ j - Len(f) \in 1 .. Len(g) /\ h[i] = f[i] /\ h[j] = g[j - Len(f)]
      BY <1>2, <1>3, <1>5, <2>3
    <3>2. QED
      BY <1>5, <3>1 DEF Before
  <2>4. QED
    BY <1>2, <2>1, <2>2, <2>3
<1>6. ASSUME Single(f), Single(g), Apart(f, g), NEW i \in 1 .. Len(h), NEW j \in 1 .. Len(h), h[i] = h[j]
      PROVE  i = j
  <2>1. CASE i <= Len(f) /\ j <= Len(f)
    <3>1. i \in 1 .. Len(f) /\ j \in 1 .. Len(f) /\ h[i] = f[i] /\ h[j] = f[j]
      BY <1>1, <1>2, <1>6, <2>1
    <3>2. QED
      BY <1>6, <3>1 DEF Single
  <2>2. CASE i > Len(f) /\ j > Len(f)
    <3>1. /\ i - Len(f) \in 1 .. Len(g) /\ j - Len(f) \in 1 .. Len(g)
          /\ h[i] = g[i - Len(f)] /\ h[j] = g[j - Len(f)]
      BY <1>2, <1>3, <2>2
    <3>2. i - Len(f) = j - Len(f)
      BY <1>6, <3>1 DEF Single
    <3>3. QED
      BY <1>2, <3>2
  <2>3. CASE i <= Len(f) /\ j > Len(f)
    <3>1. i \in 1 .. Len(f) /\ j - Len(f) \in 1 .. Len(g) /\ h[i] = f[i] /\ h[j] = g[j - Len(f)]
      BY <1>2, <1>3, <2>3
    <3>2. QED
      BY <1>6, <3>1 DEF Apart
  <2>4. CASE i > Len(f) /\ j <= Len(f)
    <3>1. j \in 1 .. Len(f) /\ i - Len(f) \in 1 .. Len(g) /\ h[j] = f[j] /\ h[i] = g[i - Len(f)]
      BY <1>2, <1>3, <2>4
    <3>2. QED
      BY <1>6, <3>1 DEF Apart
  <2>5. QED
    BY <1>2, <2>1, <2>2, <2>3, <2>4
<1>7. /\ Rising(f) /\ Rising(g) /\ Before(f, g) => Rising(h)
      /\ Single(f) /\ Single(g) /\ Apart(f, g) => Single(h)
  BY <1>5, <1>6 DEF Rising, Single
<1>8. QED
  BY <1>1, <1>4, <1>7

\* The lines of the first n buffers of q: s has them all and no other, each
\* once and in order if the buffers do.
Gathers(s, bs, q, n) ==
  /\ s \in Seq(Nat) /\ \A l : Has(s, l) <=> \E i \in 1 .. n : Has(bs[q[i]], l)
  /\ (\A i \in 1 .. n : Rising(bs[q[i]])) /\ (\A i, j \in 1 .. n : i < j => Before(bs[q[i]], bs[q[j]]))
     => Rising(s)
  /\ (\A i \in 1 .. n : Single(bs[q[i]])) /\ (\A i, j \in 1 .. n : i < j => Apart(bs[q[i]], bs[q[j]]))
     => Single(s)

LEMMA GathersNext ==
    ASSUME NEW bs, NEW q, NEW n \in Nat, NEW s, Gathers(s, bs, q, n), bs[q[n + 1]] \in Seq(Nat)
    PROVE  Gathers(s \o bs[q[n + 1]], bs, q, n + 1)
<1>1. PICK g \in Seq(Nat) : g = bs[q[n + 1]]
  OBVIOUS
<1>2. PICK h : h = s \o g
  OBVIOUS
<1>3. /\ h \in Seq(Nat) /\ \A l : Has(h, l) <=> Has(s, l) \/ Has(g, l)
      /\ Rising(s) /\ Rising(g) /\ Before(s, g) => Rising(h)
      /\ Single(s) /\ Single(g) /\ Apart(s, g) => Single(h)
  BY <1>2, Joined DEF Gathers
<1>4. /\ \A i \in 1 .. n : i \in 1 .. n + 1 /\ i < n + 1
      /\ n + 1 \in 1 .. n + 1 /\ \A i \in 1 .. n + 1 : i \in 1 .. n \/ i = n + 1
  OBVIOUS
<1>5. \A l : Has(h, l) <=> \E i \in 1 .. n + 1 : Has(bs[q[i]], l)
  BY <1>1, <1>3, <1>4 DEF Gathers
<1>6. ASSUME \A i \in 1 .. n + 1 : Rising(bs[q[i]]), \A i, j \in 1 .. n + 1 : i < j => Before(bs[q[i]], bs[q[j]])
      PROVE  Rising(h)
  <2>1. Rising(s) /\ Rising(g)
    BY <1>1, <1>4, <1>6 DEF Gathers
  <2>2. ASSUME NEW a \in 1 .. Len(s), NEW b \in 1 .. Len(g) PROVE s[a] < g[b]
    <3>1. Has(s, s[a])
      BY DEF Has
    <3>2. PICK i \in 1 .. n : Has(bs[q[i]], s[a])
      BY <3>1 DEF Gathers
    <3>3. Before(bs[q[i]], g)
      BY <1>1, <1>4, <1>6
    <3>4. QED
      BY <3>2, <3>3 DEF Has, Before
  <2>3. QED
    BY <1>3, <2>1, <2>2 DEF Before
<1>7. ASSUME \A i \in 1 .. n + 1 : Single(bs[q[i]]), \A i, j \in 1 .. n + 1 : i < j => Apart(bs[q[i]], bs[q[j]])
      PROVE  Single(h)
  <2>1. Single(s) /\ Single(g)
    BY <1>1, <1>4, <1>7 DEF Gathers
  <2>2. ASSUME NEW a \in 1 .. Len(s), NEW b \in 1 .. Len(g) PROVE s[a] # g[b]
    <3>1. Has(s, s[a])
      BY DEF Has
    <3>2. PICK i \in 1 .. n : Has(bs[q[i]], s[a])
      BY <3>1 DEF Gathers
    <3>3. Apart(bs[q[i]], g)
      BY <1>1, <1>4, <1>7
    <3>4. QED
      BY <3>2, <3>3 DEF Has, Apart
  <2>3. QED
    BY <1>3, <2>1, <2>2 DEF Apart
<1>8. QED
  BY <1>1, <1>2, <1>3, <1>5, <1>6, <1>7 DEF Gathers

LEMMA ContentsGathers ==
    ASSUME NEW bs \in [Bufs -> Seq(Nat)], NEW q \in Seq(Bufs)
    PROVE  Gathers(Contents(bs, q), bs, q, Len(q))
<1>1. Len(q) \in Nat /\ \A i \in 1 .. Len(q) : q[i] \in Bufs /\ bs[q[i]] \in Seq(Nat)
  BY NonEmpty
<1> DEFINE UpTo(m) == { g \in [0 .. m -> Seq(Nat)] :
                          g[0] = <<>> /\ \A i \in 1 .. m : g[i] = g[i - 1] \o bs[q[i]] }
<1>2. \E g : g \in UpTo(Len(q))
  <2>1. [i \in 0 .. 0 |-> <<>>] \in UpTo(0)
    OBVIOUS
  <2>2. ASSUME NEW m \in 0 .. Len(q) - 1, NEW g \in UpTo(m) PROVE \E h : h \in UpTo(m + 1)
    <3>1. /\ g \in [0 .. m -> Seq(Nat)] /\ g[0] = <<>> /\ \A i \in 1 .. m : g[i] = g[i - 1] \o bs[q[i]]
      OBVIOUS
    <3>2. m \in 0 .. m /\ m + 1 \in 1 .. Len(q)
      BY <1>1
    <3>3. g[m] \o bs[q[m + 1]] \in Seq(Nat)
      BY <1>1, <3>1, <3>2, Joining
    <3>4. PICK e \in Seq(Nat) : e = g[m] \o bs[q[m + 1]]
      BY <3>3
    <3>5. PICK h : h = [i \in 0 .. m + 1 |-> IF i = m + 1 THEN e ELSE g[i]]
      OBVIOUS
    <3>6. h \in [0 .. m + 1 -> Seq(Nat)] /\ h[0] = <<>>
      BY <3>1, <3>2, <3>5
    <3>7. ASSUME NEW i \in 1 .. m + 1 PROVE h[i] = h[i - 1] \o bs[q[i]]
      <4>1. CASE i = m + 1
        <5>1. h[i] = e /\ i - 1 = m /\ h[i - 1] = g[m]
          BY <3>2, <3>5, <4>1
        <5>2. QED
          BY <3>4, <4>1, <5>1
      <4>2. CASE i # m + 1
        <5>1. i \in 1 .. m /\ h[i] = g[i] /\ h[i - 1] = g[i - 1]
          BY <3>2, <3>5, <4>2
        <5>2. QED
          BY <3>1, <5>1
      <4>3. QED
        BY <4>1, <4>2
    <3>8. QED
      BY <3>6, <3>7
  <2>3. PICK G : G = { m \in 0 .. Len(q) : \E g : g \in UpTo(m) }
    OBVIOUS
  <2> HIDE DEF UpTo
  <2>4. 0 \in G /\ \A m \in 0 .. Len(q) - 1 : m \in G => m + 1 \in G
    <3>1. 0 \in 0 .. Len(q) /\ \A m \in 0 .. Len(q) - 1 : m + 1 \in 0 .. Len(q)
      BY <1>1
    <3>2. QED
      BY <2>1, <2>2, <2>3, <3>1
  <2>5. Len(q) \in 0 .. Len(q)
    BY <1>1
  <2>6. Len(q) \in G
    BY <1>1, <2>4, <2>5, Climbs
  <2>7. QED
    BY <2>3, <2>6
<1> DEFINE F == CHOOSE f : f = [i \in 0 .. Len(q) |-> IF i = 0 THEN <<>> ELSE f[i - 1] \o bs[q[i]]]
<1>3. F = [i \in 0 .. Len(q) |-> IF i = 0 THEN <<>> ELSE F[i - 1] \o bs[q[i]]]
  <2>1. PICK g : g \in UpTo(Len(q))
    BY <1>2
  <2>2. g = [i \in 0 .. Len(q) |-> IF i = 0 THEN <<>> ELSE g[i - 1] \o bs[q[i]]]
    <3>1. /\ g \in [0 .. Len(q) -> Seq(Nat)] /\ g[0] = <<>>
          /\ \A i \in 1 .. Len(q) : g[i] = g[i - 1] \o bs[q[i]]
      BY <2>1
    <3>2. \A i \in 0 .. Len(q) : i = 0 \/ i \in 1 .. Len(q)
      BY <1>1
    <3>3. QED
      BY <3>1, <3>2
  <2>3. QED
    BY <2>2, Zenon
<1>4. Contents(bs, q) = F[Len(q)]
  BY Zenon DEF Contents
<1>5. PICK f : f = F
  OBVIOUS
<1>6. /\ Contents(bs, q) = f[Len(q)]
      /\ f = [i \in 0 .. Len(q) |-> IF i = 0 THEN <<>> ELSE f[i - 1] \o bs[q[i]]]
  BY <1>3, <1>4, <1>5, Zenon
<1> HIDE DEF F, UpTo
<1>7. f[0] = <<>> /\ \A m \in 0 .. Len(q) - 1 : f[m + 1] = f[m] \o bs[q[m + 1]]
  <2>1. 0 \in 0 .. Len(q) /\ \A m \in 0 .. Len(q) - 1 : m + 1 \in 0 .. Len(q) /\ m + 1 # 0 /\ (m + 1) - 1 = m
    BY <1>1
  <2>2. QED
    BY <1>6, <2>1
<1>8. Gathers(<<>>, bs, q, 0)
  <2>1. <<>> \in Seq(Nat) /\ Len(<<>>) = 0 /\ ~\E i \in 1 .. 0 : TRUE
    OBVIOUS
  <2>2. QED
    BY <2>1 DEF Gathers, Has, Rising, Single
<1>9. ASSUME NEW m \in 0 .. Len(q) - 1, Gathers(f[m], bs, q, m) PROVE Gathers(f[m + 1], bs, q, m + 1)
  <2>1. m \in Nat /\ m + 1 \in 1 .. Len(q)
    BY <1>1
  <2>2. bs[q[m + 1]] \in Seq(Nat)
    BY <1>1, <2>1
  <2>3. Gathers(f[m] \o bs[q[m + 1]], bs, q, m + 1)
    BY <1>9, <2>1, <2>2, GathersNext
  <2>4. f[m + 1] = f[m] \o bs[q[m + 1]]
    BY <1>7
  <2>5. QED
    BY <2>3, <2>4
<1>10. PICK G : G = { m \in 0 .. Len(q) : Gathers(f[m], bs, q, m) }
  OBVIOUS
<1>11. 0 \in G /\ \A m \in 0 .. Len(q) - 1 : m \in G => m + 1 \in G
  <2>1. 0 \in 0 .. Len(q) /\ \A m \in 0 .. Len(q) - 1 : m + 1 \in 0 .. Len(q)
    BY <1>1
  <2>2. QED
    BY <1>7, <1>8, <1>9, <1>10, <2>1
<1>12. Len(q) \in 0 .. Len(q)
  BY <1>1
<1>13. Len(q) \in G
  BY <1>1, <1>11, <1>12, Climbs
<1>14. QED
  BY <1>6, <1>10, <1>13
-----------------------------------------------------------------------------
(***************************************************************************)
(* The order.  While no signal was missed the file comes before the full   *)
(* buffers, these in their order before the current one, and the line in   *)
(* hand after all.  A signal that finds the logger thread on its way to    *)
(* the wait ends that: after the timeout only the current buffer is        *)
(* written.                                                                *)
(***************************************************************************)
AllUnder(e) == Under(file, e) /\ \A b \in Bufs : Under(buffers[b], e)

OrderInv ==
  /\ Rising(file) /\ \A b \in Bufs : Rising(buffers[b]) /\ Before(file, buffers[b])
  /\ \A i, j \in 1 .. Len(flush) : i < j => Before(buffers[flush[i]], buffers[flush[j]])
  /\ \A i \in 1 .. Len(flush) : flush[i] # cur => Before(buffers[flush[i]], buffers[cur])
  /\ spin # Nobody => AllUnder(line[spin].id)
  /\ flusher \in {"top", "waits", "timed_out"} => flush = <<>>

\* What a process has written when it has returned.
WrittenInv ==
  /\ flusher = "dangling" /\ file \in Seq(Nat) /\ \A l \in mine : InFile(l)
  /\ image = <<>> /\ ~raced => Single(file)
  /\ image = <<>> /\ ~raced /\ missed = "never" => Rising(file)

EndInv ==
  /\ process \in {"boot", "direct"} /\ missed = "never" => OrderInv
  /\ process = "finished" => image # <<>> /\ WrittenInv
  /\ process = "ended" /\ image = <<>> => WrittenInv

\* A line that is later than all there are is added to a buffer.
LEMMA StoredLast ==
    ASSUME buffers \in [Bufs -> Seq(Nat)], NEW b \in Bufs, NEW e \in Nat, NEW nb, Stores(nb, buffers, b, e),
           \A d \in Bufs : Rising(buffers[d]) /\ Before(file, buffers[d]), AllUnder(e)
    PROVE  /\ \A d \in Bufs : Rising(nb[d]) /\ Before(file, nb[d])
           /\ \A d \in Bufs \ {b} : nb[d] = buffers[d]
           /\ \A d \in Bufs : Before(buffers[d], buffers[b]) => Before(buffers[d], nb[b])
<1>1. nb \in [Bufs -> Seq(Nat)] /\ Grown(nb, buffers, b, e)
  BY InStored
<1>2. ASSUME NEW d \in Bufs, NEW i \in 1 .. Len(nb[d])
      PROVE  \/ i \in 1 .. Len(buffers[d]) /\ nb[d][i] = buffers[d][i]
             \/ d = b /\ i = Len(buffers[b]) + 1 /\ nb[d][i] = e
  BY <1>1 DEF Grown
<1>3. \A d \in Bufs : Len(buffers[d]) \in Nat /\ Len(nb[d]) \in Nat
  BY <1>1, NonEmpty
<1>4. ASSUME NEW d \in Bufs, NEW i \in 1 .. Len(nb[d]), NEW j \in 1 .. Len(nb[d]), i < j PROVE nb[d][i] < nb[d][j]
  <2>1. CASE j \in 1 .. Len(buffers[d]) /\ nb[d][j] = buffers[d][j]
    <3>1. i \in 1 .. Len(buffers[d]) /\ nb[d][i] = buffers[d][i]
      BY <1>2, <1>3, <1>4, <2>1
    <3>2. QED
      BY <1>4, <2>1, <3>1 DEF Rising
  <2>2. CASE d = b /\ j = Len(buffers[b]) + 1 /\ nb[d][j] = e
    <3>1. i \in 1 .. Len(buffers[b]) /\ nb[d][i] = buffers[b][i]
      BY <1>2, <1>3, <1>4, <2>2
    <3>2. QED
      BY <2>2, <3>1 DEF AllUnder, Under
  <2>3. QED
    BY <1>2, <2>1, <2>2
<1>5. ASSUME NEW d \in Bufs, NEW k \in 1 .. Len(file), NEW i \in 1 .. Len(nb[d]) PROVE file[k] < nb[d][i]
  BY <1>2 DEF Before, AllUnder, Under
<1>6. \A d \in Bufs \ {b} : nb[d] = buffers[d]
  BY DEF Stores
<1>7. ASSUME NEW d \in Bufs, Before(buffers[d], buffers[b]),
             NEW k \in 1 .. Len(buffers[d]), NEW i \in 1 .. Len(nb[b])
      PROVE  buffers[d][k] < nb[b][i]
  <2>1. CASE i \in 1 .. Len(buffers[b]) /\ nb[b][i] = buffers[b][i]
    BY <1>7, <2>1 DEF Before
  <2>2. CASE nb[b][i] = e
    BY <2>2 DEF AllUnder, Under
  <2>3. QED
    BY <1>2, <2>1, <2>2
<1>8. QED
  BY <1>4, <1>5, <1>6, <1>7 DEF Rising, Before

LEMMA OrderAgain ==
    ASSUME Rising(file'), \A b \in Bufs : Rising(buffers'[b]) /\ Before(file', buffers'[b]),
           \A i, j \in 1 .. Len(flush') : i < j => Before(buffers'[flush'[i]], buffers'[flush'[j]]),
           \A i \in 1 .. Len(flush') : flush'[i] # cur' => Before(buffers'[flush'[i]], buffers'[cur']),
           NEW e, spin' = Nobody \/ (e = line'[spin'].id /\ Under(file', e) /\ \A b \in Bufs : Under(buffers'[b], e)),
           flusher' \in {"top", "waits", "timed_out"} => flush' = <<>>
    PROVE  OrderInv'
BY DEF OrderInv, AllUnder, Bufs, Rising, Before, Under

\* A line that begins is later than all there are.
LEMMA NewLine ==
    ASSUME LoggerInv, Running, image = <<>>, process \in {"boot", "direct"}
    PROVE  AllUnder(lines + 1)
<1>1. /\ Logged(buffers, mine) /\ buffers \in [Bufs -> Seq(Nat)] /\ lines \in Nat /\ OnceInv
  BY RunningFacts DEF LoggerInv
<1>2. QED
  BY <1>1 DEF AllUnder, Under, Logged, OnceInv

LEMMA OrderFits ==
    ASSUME LoggerInv, process \in {"boot", "direct"}, OrderInv,
           NEW t \in Threads, NEW l, l.id = lines + 1, AppendFits(t, l)
    PROVE  OrderInv'
<1>1. /\ Running /\ spin = Nobody /\ free # <<>> /\ cur = free[1] /\ file' = file /\ l.id \in Nat
  BY Begins DEF AppendFits
<1>2. UNCHANGED <<spin, cur, flush, flusher>> /\ Fits(l, cur) /\ buffers' = AppendTo(l, cur)
  BY DEF AppendFits
<1>3. /\ Queued(buffers, cur, free, flush) /\ buffers \in [Bufs -> Seq(Nat)] /\ cur \in Bufs /\ free \in Seq(Bufs)
      /\ flush \in Seq(Bufs)
  BY <1>1, RunningFacts
<1>4. Stores(buffers', buffers, cur, l.id)
  BY <1>1, <1>2, <1>3, Adding
<1>5. AllUnder(l.id)
  BY <1>1, NewLine DEF LoggerInv
<1>6. /\ \A d \in Bufs : Rising(buffers'[d]) /\ Before(file, buffers'[d])
      /\ \A d \in Bufs \ {cur} : buffers'[d] = buffers[d]
      /\ \A d \in Bufs : Before(buffers[d], buffers[cur]) => Before(buffers[d], buffers'[cur])
  <2>1. \A d \in Bufs : Rising(buffers[d]) /\ Before(file, buffers[d])
    BY DEF OrderInv
  <2>2. QED
    BY <1>1, <1>3, <1>4, <1>5, <2>1, StoredLast
<1>7. \A i \in 1 .. Len(flush) : flush[i] # cur /\ flush[i] \in Bufs
  <2>1. 1 \in 1 .. Len(free)
    BY <1>1, <1>3, NonEmpty
  <2>2. QED
    BY <1>1, <1>3, <2>1 DEF Queued, Placed
<1>8. /\ \A i, j \in 1 .. Len(flush') : i < j => Before(buffers'[flush'[i]], buffers'[flush'[j]])
      /\ \A i \in 1 .. Len(flush') : flush'[i] # cur' => Before(buffers'[flush'[i]], buffers'[cur'])
  BY <1>2, <1>6, <1>7 DEF OrderInv
<1>9. /\ Rising(file') /\ \A b \in Bufs : Rising(buffers'[b]) /\ Before(file', buffers'[b])
      /\ flusher' \in {"top", "waits", "timed_out"} => flush' = <<>>
  BY <1>1, <1>2, <1>6 DEF OrderInv
<1>10. QED
  BY <1>1, <1>2, <1>8, <1>9, OrderAgain

\* SignalFlusher() leaves the logger thread where it only follows an empty queue,
\* if it was there.
LEMMA Signalled ==
    ASSUME SignalFlusher, missed' = "never"
    PROVE  /\ missed = "never" /\ flusher' \notin {"top", "waits", "timed_out"}
BY DEF SignalFlusher

\* A thread begins with a new buffer, or takes one for the line in hand.
LEMMA OrderTaken ==
    ASSUME buffers \in [Bufs -> Seq(Nat)], OrderInv, NEW c \in Bufs, buffers[c] = <<>>, NEW e \in Nat, AllUnder(e),
           NEW nb, nb = buffers \/ Stores(nb, buffers, c, e)
    PROVE  /\ \A d \in Bufs : Rising(nb[d]) /\ Before(file, nb[d])
           /\ \A d \in Bufs \ {c} : nb[d] = buffers[d] /\ Before(nb[d], nb[c])
<1>1. CASE nb = buffers
  <2>1. \A d \in Bufs : Before(buffers[d], buffers[c])
    BY DEF Before
  <2>2. QED
    BY <1>1, <2>1 DEF OrderInv
<1>2. CASE Stores(nb, buffers, c, e)
  <2>1. \A d \in Bufs : Before(buffers[d], buffers[c])
    BY DEF Before
  <2>2. QED
    BY <1>2, <2>1, StoredLast DEF OrderInv
<1>3. QED
  BY <1>1, <1>2
\* The current buffer joins the full ones.
LEMMA OrderAppended ==
    ASSUME flush \in Seq(Bufs), cur \in Bufs, OrderInv, \A i \in 1 .. Len(flush) : flush[i] # cur,
           NEW fl, fl = Append(flush, cur)
    PROVE  /\ fl \in Seq(Bufs) /\ \A i, j \in 1 .. Len(fl) : i < j => Before(buffers[fl[i]], buffers[fl[j]])
           /\ \A i \in 1 .. Len(fl) : fl[i] # cur => \E k \in 1 .. Len(flush) : fl[i] = flush[k]
<1>1. /\ fl \in Seq(Bufs) /\ Len(fl) = Len(flush) + 1 /\ Len(flush) \in Nat
      /\ \A i \in 1 .. Len(flush) : fl[i] = flush[i]
      /\ fl[Len(flush) + 1] = cur
  BY Appending, NonEmpty
<1>2. ASSUME NEW i \in 1 .. Len(fl), NEW j \in 1 .. Len(fl), i < j PROVE Before(buffers[fl[i]], buffers[fl[j]])
  <2>1. i \in 1 .. Len(flush) /\ fl[i] = flush[i]
    BY <1>1, <1>2
  <2>2. CASE j \in 1 .. Len(flush)
    <3>1. fl[j] = flush[j]
      BY <1>1, <2>2
    <3>2. QED
      BY <1>2, <2>1, <2>2, <3>1 DEF OrderInv
  <2>3. CASE j = Len(flush) + 1
    BY <1>1, <2>1, <2>3 DEF OrderInv
  <2>4. QED
    BY <1>1, <2>2, <2>3
<1>3. ASSUME NEW i \in 1 .. Len(fl), fl[i] # cur PROVE \E k \in 1 .. Len(flush) : fl[i] = flush[k]
  <2>1. i \in 1 .. Len(flush)
    BY <1>1, <1>3
  <2>2. QED
    BY <1>1, <2>1
<1>4. QED
  BY <1>1, <1>2, <1>3

\* While no thread waits the current buffer is not a full one.
LEMMA CurIsFree ==
    ASSUME NEW bs, NEW c, NEW fr, NEW fl, Queued(bs, c, fr, fl), fr # <<>>, c = fr[1]
    PROVE  \A i \in 1 .. Len(fl) : fl[i] # c /\ fl[i] \in Bufs
<1>1. 1 \in 1 .. Len(fr)
  BY NonEmpty DEF Queued
<1>2. QED
  BY <1>1 DEF Queued, Placed

LEMMA OrderNext ==
    ASSUME LoggerInv, process \in {"boot", "direct"}, OrderInv,
           NEW t \in Threads, NEW l, l.id = lines + 1, AppendNext(t, l), missed' = "never"
    PROVE  OrderInv'
<1>1. /\ Running /\ spin = Nobody /\ free # <<>> /\ cur = free[1] /\ file' = file /\ l.id \in Nat
  BY Begins DEF AppendNext
<1>2. /\ spin' = spin /\ Len(free) > 1 /\ free' = Tail(free) /\ flush' = Append(flush, cur)
      /\ cur' = Head(Tail(free)) /\ buffers' = AppendTo(l, cur')
      /\ SignalFlusher
  BY DEF AppendNext
<1>3. /\ Queued(buffers, cur, free, flush) /\ buffers \in [Bufs -> Seq(Nat)] /\ cur \in Bufs
      /\ flush \in Seq(Bufs)
  BY <1>1, RunningFacts
<1>4. PICK c : c = cur'
  OBVIOUS
<1>5. Queued(buffers, c, free', flush') /\ buffers[c] = <<>> /\ free' # <<>> /\ c = free'[1]
  BY <1>1, <1>2, <1>3, <1>4, QueuedNext
<1>6. c \in Bufs /\ \A i \in 1 .. Len(flush') : flush'[i] \in Bufs \ {c}
  <2>1. \A i \in 1 .. Len(flush') : flush'[i] # c /\ flush'[i] \in Bufs
    BY <1>5, CurIsFree
  <2>2. QED
    BY <1>5, <2>1 DEF Queued
<1>7. buffers' = buffers \/ Stores(buffers', buffers, c, l.id)
  BY <1>2, <1>3, <1>4, <1>6, Adding
<1>8. AllUnder(l.id)
  BY <1>1, NewLine DEF LoggerInv
<1>9. /\ \A d \in Bufs : Rising(buffers'[d]) /\ Before(file, buffers'[d])
      /\ \A d \in Bufs \ {c} : buffers'[d] = buffers[d] /\ Before(buffers'[d], buffers'[c])
  BY <1>1, <1>3, <1>5, <1>6, <1>7, <1>8, OrderTaken
<1>10. \A i \in 1 .. Len(flush) : flush[i] # cur
  BY <1>1, <1>3, CurIsFree
<1>11. \A i, j \in 1 .. Len(flush') : i < j => Before(buffers[flush'[i]], buffers[flush'[j]])
  BY <1>2, <1>3, <1>10, OrderAppended
<1>12. \A i, j \in 1 .. Len(flush') : i < j => Before(buffers'[flush'[i]], buffers'[flush'[j]])
  BY <1>6, <1>9, <1>11
<1>13. \A i \in 1 .. Len(flush') : Before(buffers'[flush'[i]], buffers'[cur'])
  BY <1>4, <1>6, <1>9
<1>14. flusher' \notin {"top", "waits", "timed_out"}
  BY <1>2, Signalled
<1>15. Rising(file') /\ \A b \in Bufs : Rising(buffers'[b]) /\ Before(file', buffers'[b])
  BY <1>1, <1>9 DEF OrderInv
<1>16. QED
  BY <1>1, <1>2, <1>12, <1>13, <1>14, <1>15, OrderAgain

LEMMA OrderWaits ==
    ASSUME LoggerInv, process \in {"boot", "direct"}, OrderInv,
           NEW t \in Threads, NEW l, l.id = lines + 1, AppendWaits(t, l), missed' = "never"
    PROVE  OrderInv'
<1>1. /\ Running /\ spin = Nobody /\ free # <<>> /\ cur = free[1] /\ file' = file
  BY Begins DEF AppendWaits
<1>2. /\ buffers' = buffers /\ cur' = cur /\ flush' = Append(flush, cur)
      /\ spin' = t /\ line' = [line EXCEPT ![t] = l] /\ SignalFlusher
  BY DEF AppendWaits
<1>3. /\ Queued(buffers, cur, free, flush) /\ cur \in Bufs /\ flush \in Seq(Bufs) /\ ThreadsInv
  BY <1>1, RunningFacts
<1>4. PICK e : e = lines + 1 /\ e = line'[spin'].id
  BY <1>2, <1>3 DEF ThreadsInv
<1>5. AllUnder(lines + 1)
  BY <1>1, NewLine DEF LoggerInv
<1>6. Under(file', e) /\ \A b \in Bufs : Under(buffers'[b], e)
  BY <1>1, <1>2, <1>4, <1>5 DEF AllUnder
<1>7. \A i \in 1 .. Len(flush) : flush[i] # cur
  BY <1>1, <1>3, CurIsFree
<1>8. /\ \A i, j \in 1 .. Len(flush') : i < j => Before(buffers[flush'[i]], buffers[flush'[j]])
      /\ \A i \in 1 .. Len(flush') : flush'[i] # cur => \E k \in 1 .. Len(flush) : flush'[i] = flush[k]
  <2>1. PICK fl : fl = Append(flush, cur) /\ fl = flush'
    BY <1>2
  <2>2. /\ \A i, j \in 1 .. Len(fl) : i < j => Before(buffers[fl[i]], buffers[fl[j]])
        /\ \A i \in 1 .. Len(fl) : fl[i] # cur => \E k \in 1 .. Len(flush) : fl[i] = flush[k]
    BY <1>1, <1>3, <1>7, <2>1, OrderAppended
  <2>3. QED
    BY <2>1, <2>2
<1>9. \A i \in 1 .. Len(flush') : flush'[i] # cur => Before(buffers[flush'[i]], buffers[cur])
  BY <1>7, <1>8 DEF OrderInv
<1>10. flusher' \notin {"top", "waits", "timed_out"}
  BY <1>2, Signalled
<1>11. Rising(file') /\ \A b \in Bufs : Rising(buffers'[b]) /\ Before(file', buffers'[b])
  BY <1>1, <1>2 DEF OrderInv
<1>12. /\ \A i, j \in 1 .. Len(flush') : i < j => Before(buffers'[flush'[i]], buffers'[flush'[j]])
       /\ \A i \in 1 .. Len(flush') : flush'[i] # cur' => Before(buffers'[flush'[i]], buffers'[cur'])
  BY <1>2, <1>8, <1>9
<1>13. QED
  BY <1>4, <1>6, <1>10, <1>11, <1>12, OrderAgain

LEMMA OrderWakes ==
    ASSUME LoggerInv, process \in {"boot", "direct"}, OrderInv,
           NEW t \in Threads, AppendWakes(t), missed' = "never"
    PROVE  OrderInv'
<1>1. /\ UNCHANGED <<file, free, flush>> /\ Running
      /\ pc[t] = "woken" /\ free # <<>> /\ cur' = Head(free) /\ buffers' = AppendTo(line[t], cur')
      /\ spin' = Nobody /\ SignalFlusher
  BY DEF AppendWakes, Running
<1>2. /\ Queued(buffers, cur, free, flush) /\ buffers \in [Bufs -> Seq(Nat)] /\ flush \in Seq(Bufs) /\ ThreadsInv
      /\ lines \in Nat
  BY <1>1, RunningFacts
<1>3. /\ t = spin /\ spin # Nobody /\ line[t].id \in 1 .. lines
      /\ \A i \in 1 .. Len(free) : buffers[free[i]] = <<>>
  BY <1>1, <1>2 DEF ThreadsInv
<1>4. PICK c : c = cur'
  OBVIOUS
<1>5. PICK e \in Nat : e = line[t].id
  BY <1>2, <1>3
<1>6. Queued(buffers, c, free, flush) /\ c = free[1] /\ buffers[c] = <<>>
  BY <1>1, <1>2, <1>3, <1>4, QueuedTake
<1>7. c \in Bufs /\ \A i \in 1 .. Len(flush) : flush[i] \in Bufs \ {c}
  <2>1. \A i \in 1 .. Len(flush) : flush[i] # c /\ flush[i] \in Bufs
    BY <1>1, <1>6, CurIsFree
  <2>2. QED
    BY <1>6, <2>1 DEF Queued
<1>8. buffers' = buffers \/ Stores(buffers', buffers, c, e)
  <2>1. PICK l : l = line[t]
    OBVIOUS
  <2>2. AppendTo(l, c) = buffers \/ Stores(AppendTo(l, c), buffers, c, l.id)
    BY <1>2, <1>7, Adding
  <2>3. QED
    BY <1>1, <1>4, <1>5, <2>1, <2>2
<1>9. AllUnder(e)
  BY <1>3, <1>5 DEF OrderInv
<1>10. /\ \A d \in Bufs : Rising(buffers'[d]) /\ Before(file, buffers'[d])
       /\ \A d \in Bufs \ {c} : buffers'[d] = buffers[d] /\ Before(buffers'[d], buffers'[c])
  BY <1>2, <1>6, <1>7, <1>8, <1>9, OrderTaken
<1>11. \A i, j \in 1 .. Len(flush) : i < j => Before(buffers[flush[i]], buffers[flush[j]])
  BY DEF OrderInv
<1>12. \A i, j \in 1 .. Len(flush') : i < j => Before(buffers'[flush'[i]], buffers'[flush'[j]])
  BY <1>1, <1>7, <1>10, <1>11
<1>13. \A i \in 1 .. Len(flush') : Before(buffers'[flush'[i]], buffers'[cur'])
  BY <1>1, <1>4, <1>7, <1>10
<1>14. flusher' \notin {"top", "waits", "timed_out"}
  BY <1>1, Signalled
<1>15. Rising(file') /\ \A b \in Bufs : Rising(buffers'[b]) /\ Before(file', buffers'[b])
  BY <1>1, <1>10 DEF OrderInv
<1>16. QED
  BY <1>1, <1>12, <1>13, <1>14, <1>15, OrderAgain
\* A buffer that comes before all others is written.
LEMMA OrderWritten ==
    ASSUME buffers \in [Bufs -> Seq(Nat)], file \in Seq(Nat), OrderInv, NEW h \in Bufs,
           \A d \in Bufs \ {h} : Before(buffers[h], buffers[d]),
           file' = file \o buffers[h], buffers' = [buffers EXCEPT ![h] = <<>>]
    PROVE  /\ Rising(file') /\ \A b \in Bufs : Rising(buffers'[b]) /\ Before(file', buffers'[b])
           /\ \A d \in Bufs \ {h} : buffers'[d] = buffers[d]
           /\ buffers'[h] = <<>>
           /\ \A e : AllUnder(e) => Under(file', e) /\ \A b \in Bufs : Under(buffers'[b], e)
<1>1. /\ file' \in Seq(Nat) /\ \A l : Has(file', l) <=> Has(file, l) \/ Has(buffers[h], l)
      /\ Rising(file) /\ Rising(buffers[h]) /\ Before(file, buffers[h]) => Rising(file')
  BY Joined
<1>2. Rising(file) /\ \A b \in Bufs : Rising(buffers[b]) /\ Before(file, buffers[b])
  BY DEF OrderInv
<1>3. buffers'[h] = <<>> /\ \A d \in Bufs \ {h} : buffers'[d] = buffers[d]
  OBVIOUS
<1>4. Len(<<>>) = 0
  OBVIOUS
<1>5. ASSUME NEW k \in 1 .. Len(file') PROVE Has(file, file'[k]) \/ Has(buffers[h], file'[k])
  BY <1>1 DEF Has
<1>6. ASSUME NEW d \in Bufs PROVE Rising(buffers'[d]) /\ Before(file', buffers'[d])
  <2>1. CASE d = h
    BY <1>3, <1>4, <2>1 DEF Rising, Before
  <2>2. CASE d # h
    <3>1. buffers'[d] = buffers[d] /\ Rising(buffers[d]) /\ Before(file, buffers[d]) /\ Before(buffers[h], buffers[d])
      BY <1>2, <1>3, <2>2
    <3>2. ASSUME NEW k \in 1 .. Len(file'), NEW i \in 1 .. Len(buffers[d]) PROVE file'[k] < buffers[d][i]
      BY <1>5, <3>1 DEF Has, Before
    <3>3. QED
      BY <3>1, <3>2 DEF Before
  <2>3. QED
    BY <2>1, <2>2
<1>7. ASSUME NEW e, AllUnder(e) PROVE Under(file', e) /\ \A b \in Bufs : Under(buffers'[b], e)
  <2>1. \A k \in 1 .. Len(file') : file'[k] < e
    BY <1>5, <1>7 DEF AllUnder, Under, Has
  <2>2. ASSUME NEW b \in Bufs PROVE Under(buffers'[b], e)
    <3>1. CASE b = h
      BY <1>3, <1>4, <3>1 DEF Under
    <3>2. CASE b # h
      BY <1>3, <1>7, <3>2 DEF AllUnder
    <3>3. QED
      BY <3>1, <3>2
  <2>3. QED
    BY <2>1, <2>2 DEF Under
<1>8. QED
  BY <1>1, <1>2, <1>3, <1>6, <1>7

LEMMA OrderDrain ==
    ASSUME LoggerInv, process \in {"boot", "direct"}, OrderInv, DrainOne
    PROVE  OrderInv'
<1>1. /\ flusher = "draining" /\ flusher' = flusher /\ flush # <<>>
      /\ file' = file \o buffers[Head(flush)] /\ buffers' = [buffers EXCEPT ![Head(flush)] = <<>>]
      /\ flush' = Tail(flush) /\ UNCHANGED <<spin, line, cur>>
  BY DEF DrainOne, threadVars
<1>2. /\ Queued(buffers, cur, free, flush) /\ flush \in Seq(Bufs) /\ file \in Seq(Nat)
      /\ buffers \in [Bufs -> Seq(Nat)] /\ cur \in Bufs
  BY RunningFacts DEF Running
<1>3. PICK h \in Bufs : h = Head(flush) /\ h = flush[1]
  BY <1>1, <1>2, TailOf
<1>4. /\ Len(flush) \in Nat /\ Len(flush) >= 1 /\ Len(flush') = Len(flush) - 1
      /\ \A i \in 1 .. Len(flush) - 1 : flush'[i] = flush[i + 1]
  BY <1>1, <1>2, TailOf
<1>5. /\ \A i, j \in 1 .. Len(flush) : flush[i] = flush[j] => i = j
      /\ \A b \in Bufs : (\E i \in 1 .. Len(free) : free[i] = b) \/ (\E i \in 1 .. Len(flush) : flush[i] = b)
      /\ \A i \in 1 .. Len(free) : free[i] # cur => buffers[free[i]] = <<>>
      /\ \A i \in 1 .. Len(flush) : flush[i] \in Bufs
  BY <1>2 DEF Queued, Placed
<1>6. ASSUME NEW d \in Bufs \ {h} PROVE Before(buffers[h], buffers[d])
  <2>1. CASE \E i \in 1 .. Len(flush) : flush[i] = d
    <3>1. PICK i \in 1 .. Len(flush) : flush[i] = d
      BY <2>1
    <3>2. i > 1 /\ 1 \in 1 .. Len(flush)
      BY <1>3, <1>4, <3>1
    <3>3. QED
      BY <1>3, <3>1, <3>2 DEF OrderInv
  <2>2. CASE d = cur
    <3>1. 1 \in 1 .. Len(flush) /\ flush[1] # cur
      BY <1>3, <1>4, <2>2
    <3>2. QED
      BY <1>3, <2>2, <3>1 DEF OrderInv
  <2>3. CASE d # cur /\ \E i \in 1 .. Len(free) : free[i] = d
    <3>1. buffers[d] = <<>> /\ Len(<<>>) = 0
      BY <1>5, <2>3
    <3>2. QED
      BY <3>1 DEF Before
  <2>4. QED
    BY <1>5, <2>1, <2>2, <2>3
<1>7. /\ Rising(file') /\ \A b \in Bufs : Rising(buffers'[b]) /\ Before(file', buffers'[b])
      /\ \A d \in Bufs \ {h} : buffers'[d] = buffers[d]
      /\ buffers'[h] = <<>>
      /\ \A e : AllUnder(e) => Under(file', e) /\ \A b \in Bufs : Under(buffers'[b], e)
  BY <1>1, <1>2, <1>3, <1>6, OrderWritten
<1>8. \A i \in 1 .. Len(flush') : i + 1 \in 1 .. Len(flush) /\ flush'[i] = flush[i + 1] /\ flush'[i] # h /\ flush'[i] \in Bufs
  <2>1. \A i \in 1 .. Len(flush') : i + 1 \in 1 .. Len(flush) /\ i + 1 # 1 /\ flush'[i] = flush[i + 1]
    BY <1>4
  <2>2. 1 \in 1 .. Len(flush)
    BY <1>4
  <2>3. QED
    BY <1>3, <1>5, <2>1, <2>2
<1>9. ASSUME NEW i \in 1 .. Len(flush'), NEW j \in 1 .. Len(flush'), i < j
      PROVE  Before(buffers'[flush'[i]], buffers'[flush'[j]])
  <2>1. i + 1 < j + 1
    BY <1>9
  <2>2. Before(buffers[flush[i + 1]], buffers[flush[j + 1]])
    BY <1>8, <2>1 DEF OrderInv
  <2>3. QED
    BY <1>7, <1>8, <2>2
<1>10. ASSUME NEW i \in 1 .. Len(flush'), flush'[i] # cur' PROVE Before(buffers'[flush'[i]], buffers'[cur'])
  <2>1. Before(buffers[flush'[i]], buffers[cur])
    BY <1>1, <1>8, <1>10 DEF OrderInv
  <2>2. CASE cur = h
    <3>1. buffers'[cur'] = <<>> /\ Len(<<>>) = 0
      BY <1>1, <1>7, <2>2
    <3>2. QED
      BY <3>1 DEF Before
  <2>3. CASE cur # h
    BY <1>1, <1>2, <1>7, <1>8, <2>1, <2>3
  <2>4. QED
    BY <2>2, <2>3
<1>11. PICK e : e = line'[spin'].id
  OBVIOUS
<1>12. spin' = Nobody \/ (e = line'[spin'].id /\ Under(file', e) /\ \A b \in Bufs : Under(buffers'[b], e))
  <2>1. spin # Nobody => AllUnder(e)
    BY <1>1, <1>11 DEF OrderInv
  <2>2. QED
    BY <1>1, <1>7, <1>11, <2>1
<1>13. QED
  BY <1>1, <1>7, <1>9, <1>10, <1>12, OrderAgain

LEMMA OrderWrite ==
    ASSUME LoggerInv, process \in {"boot", "direct"}, OrderInv, WriteCur
    PROVE  OrderInv'
<1>1. /\ flusher = "timed_out"
      /\ file' = file \o buffers[cur] /\ buffers' = [buffers EXCEPT ![cur] = <<>>]
      /\ UNCHANGED <<spin, line, cur, flush>>
  BY DEF WriteCur, threadVars
<1>2. /\ Queued(buffers, cur, free, flush) /\ file \in Seq(Nat)
      /\ buffers \in [Bufs -> Seq(Nat)] /\ cur \in Bufs
  BY RunningFacts DEF Running
<1>3. flush = <<>> /\ Len(flush) = 0
  BY <1>1 DEF OrderInv
<1>4. \A d \in Bufs : (\E i \in 1 .. Len(free) : free[i] = d)
  BY <1>2, <1>3 DEF Queued, Placed
<1>5. \A d \in Bufs \ {cur} : buffers[d] = <<>>
  BY <1>2, <1>4 DEF Queued, Placed
<1>6. \A d \in Bufs \ {cur} : Before(buffers[cur], buffers[d])
  <2>1. Len(<<>>) = 0
    OBVIOUS
  <2>2. QED
    BY <1>5, <2>1 DEF Before
<1>7. /\ Rising(file') /\ \A b \in Bufs : Rising(buffers'[b]) /\ Before(file', buffers'[b])
      /\ \A e : AllUnder(e) => Under(file', e) /\ \A b \in Bufs : Under(buffers'[b], e)
  BY <1>1, <1>2, <1>6, OrderWritten
<1>8. PICK e : e = line'[spin'].id
  OBVIOUS
<1>9. spin' = Nobody \/ (e = line'[spin'].id /\ Under(file', e) /\ \A b \in Bufs : Under(buffers'[b], e))
  <2>1. spin # Nobody => AllUnder(e)
    BY <1>1, <1>8 DEF OrderInv
  <2>2. QED
    BY <1>1, <1>7, <1>8, <2>1
<1>10. flush' = <<>> /\ Len(flush') = 0
  BY <1>1, <1>3
<1>11. QED
  BY <1>7, <1>9, <1>10, OrderAgain

\* Steps that leave buffers, queues and file alone.
LEMMA OrderSame ==
    ASSUME OrderInv, UNCHANGED <<spin, line, buffers, cur, flush, file>>,
           flusher' \in {"top", "waits", "timed_out"} =>
             flusher \in {"top", "waits", "timed_out"} \/ flush = <<>>
    PROVE  OrderInv'
BY DEF OrderInv, AllUnder, Bufs, Rising, Before, Under
\* Nothing that is written is lost.
LEMMA ExitHasAll ==
    ASSUME LoggerInv, NEW twice \in BOOLEAN, Exit(twice)
    PROVE  file' \in Seq(Nat) /\ \A l \in mine : Has(file', l)
<1>1. /\ Running /\ Resting /\ (twice => flush # <<>>)
      /\ file' = file \o (IF twice THEN buffers[Head(flush)] ELSE <<>>) \o Left(buffers, flush, cur)
  BY DEF Exit, Destroy, Running
<1>2. /\ Queued(buffers, cur, free, flush) /\ ThreadsInv /\ KeptInv /\ lines \in Nat /\ mine \subseteq 1 .. lines
      /\ buffers \in [Bufs -> Seq(Nat)] /\ cur \in Bufs /\ flush \in Seq(Bufs) /\ file \in Seq(Nat)
  BY <1>1, RunningFacts
<1>3. PICK c \in Seq(Nat) : c = Contents(buffers, flush) /\ Gathers(c, buffers, flush, Len(flush))
  <2>1. Gathers(Contents(buffers, flush), buffers, flush, Len(flush))
    BY <1>2, ContentsGathers
  <2>2. QED
    BY <2>1 DEF Gathers
<1>4. PICK p \in Seq(Nat) : p = IF twice THEN buffers[Head(flush)] ELSE <<>>
  <2>1. CASE twice
    <3>1. Head(flush) \in Bufs
      BY <1>1, <1>2, <2>1, TailOf
    <3>2. QED
      BY <1>2, <2>1, <3>1
  <2>2. CASE ~twice
    <3>1. <<>> \in Seq(Nat)
      OBVIOUS
    <3>2. QED
      BY <2>2, <3>1
  <2>3. QED
    BY <2>1, <2>2
<1>5. PICK k \in Seq(Nat) : k = c \o buffers[cur] /\ \A l : Has(k, l) <=> Has(c, l) \/ Has(buffers[cur], l)
  <2>1. /\ c \o buffers[cur] \in Seq(Nat)
        /\ \A l : Has(c \o buffers[cur], l) <=> Has(c, l) \/ Has(buffers[cur], l)
    BY <1>2, Joined
  <2>2. QED
    BY <2>1
<1>6. PICK g \in Seq(Nat) : g = file \o p /\ \A l : Has(g, l) <=> Has(file, l) \/ Has(p, l)
  <2>1. file \o p \in Seq(Nat) /\ \A l : Has(file \o p, l) <=> Has(file, l) \/ Has(p, l)
    BY <1>2, Joined
  <2>2. QED
    BY <2>1
<1>7. file' \in Seq(Nat) /\ \A l : Has(file', l) <=> Has(g, l) \/ Has(k, l)
  <2>1. file' = g \o k
    BY <1>1, <1>3, <1>4, <1>5, <1>6 DEF Left
  <2>2. QED
    BY <2>1, Joined
<1>8. ASSUME NEW l \in mine PROVE Has(file', l)
  <2>1. ~InHand(l)
    <3>1. \A t \in Threads : t # spin
      BY <1>1, <1>2 DEF ThreadsInv, Resting
    <3>2. \A t \in Threads : line[t].id = 0
      BY <1>2, <3>1 DEF ThreadsInv, NoLine
    <3>3. QED
      BY <1>2, <3>2 DEF InHand
  <2>2. CASE InFile(l)
    BY <1>6, <1>7, <2>2 DEF InFile, Has
  <2>3. CASE InBuffers(buffers, l)
    <3>1. PICK b \in Bufs : Has(buffers[b], l)
      BY <2>3 DEF InBuffers, Has
    <3>2. CASE b = cur
      BY <1>5, <1>7, <3>1, <3>2
    <3>3. CASE b # cur /\ \E i \in 1 .. Len(free) : free[i] = b
      <4>1. buffers[b] = <<>> /\ Len(<<>>) = 0
        BY <1>2, <3>3 DEF Queued, Placed
      <4>2. QED
        BY <3>1, <4>1 DEF Has
    <3>4. CASE \E i \in 1 .. Len(flush) : flush[i] = b
      <4>1. Has(c, l)
        BY <1>3, <3>1, <3>4 DEF Gathers
      <4>2. QED
        BY <1>5, <1>7, <4>1
    <3>5. QED
      BY <1>2, <3>2, <3>3, <3>4 DEF Queued, Placed
  <2>4. QED
    BY <1>2, <2>1, <2>2, <2>3 DEF KeptInv
<1>9. QED
  BY <1>7, <1>8

\* ... and unless the logger thread was at work nothing is written twice, nor,
\* while no signal was missed, out of order.
LEMMA ExitIsTidy ==
    ASSUME LoggerInv, NEW twice \in BOOLEAN, Exit(twice), image = <<>>, ~raced'
    PROVE  Single(file') /\ (OrderInv => Rising(file'))
<1>1. /\ Running /\ Resting /\ ~twice
      /\ file' = file \o (IF twice THEN buffers[Head(flush)] ELSE <<>>) \o Left(buffers, flush, cur)
      /\ process \in {"direct", "child"}
  BY DEF Exit, Destroy, Running
<1>2. OnceInv
  BY <1>1 DEF LoggerInv, ImageInv
<1>3. /\ Queued(buffers, cur, free, flush) /\ ThreadsInv
      /\ buffers \in [Bufs -> Seq(Nat)] /\ cur \in Bufs /\ flush \in Seq(Bufs) /\ file \in Seq(Nat)
  BY <1>1, RunningFacts
<1>4. \A i \in 1 .. Len(flush) : flush[i] # cur /\ flush[i] \in Bufs
  <2>1. spin = Nobody
    BY <1>1, <1>3 DEF ThreadsInv, Resting
  <2>2. QED
    BY <1>3, <2>1, CurIsFree DEF ThreadsInv
<1>5. PICK c \in Seq(Nat) : c = Contents(buffers, flush) /\ Gathers(c, buffers, flush, Len(flush))
  <2>1. Gathers(Contents(buffers, flush), buffers, flush, Len(flush))
    BY <1>3, ContentsGathers
  <2>2. QED
    BY <2>1 DEF Gathers
<1>6. PICK g \in Seq(Nat) : /\ g = file \o <<>>
                            /\ \A l : Has(g, l) <=> Has(file, l)
                            /\ Single(file) => Single(g)
                            /\ Rising(file) => Rising(g)
  <2>1. <<>> \in Seq(Nat) /\ Len(<<>>) = 0
    OBVIOUS
  <2>2. /\ Rising(<<>>) /\ Single(<<>>) /\ Before(file, <<>>) /\ Apart(file, <<>>) /\ \A l : ~Has(<<>>, l)
    BY <2>1 DEF Rising, Single, Before, Apart, Has
  <2>3. /\ file \o <<>> \in Seq(Nat) /\ \A l : Has(file \o <<>>, l) <=> Has(file, l) \/ Has(<<>>, l)
        /\ Rising(file) /\ Rising(<<>>) /\ Before(file, <<>>) => Rising(file \o <<>>)
        /\ Single(file) /\ Single(<<>>) /\ Apart(file, <<>>) => Single(file \o <<>>)
    BY <1>3, <2>1, Joined
  <2>4. QED
    BY <2>2, <2>3
<1>7. PICK k \in Seq(Nat) : /\ k = c \o buffers[cur]
                            /\ \A l : Has(k, l) <=> Has(c, l) \/ Has(buffers[cur], l)
                            /\ Rising(c) /\ Rising(buffers[cur]) /\ Before(c, buffers[cur]) => Rising(k)
                            /\ Single(c) /\ Single(buffers[cur]) /\ Apart(c, buffers[cur]) => Single(k)
  <2>1. /\ c \o buffers[cur] \in Seq(Nat)
        /\ \A l : Has(c \o buffers[cur], l) <=> Has(c, l) \/ Has(buffers[cur], l)
        /\ Rising(c) /\ Rising(buffers[cur]) /\ Before(c, buffers[cur]) => Rising(c \o buffers[cur])
        /\ Single(c) /\ Single(buffers[cur]) /\ Apart(c, buffers[cur]) => Single(c \o buffers[cur])
    BY <1>3, Joined
  <2>2. QED
    BY <2>1
<1>8. /\ Rising(g) /\ Rising(k) /\ Before(g, k) => Rising(file')
      /\ Single(g) /\ Single(k) /\ Apart(g, k) => Single(file')
  <2>1. file' = g \o k
    BY <1>1, <1>5, <1>6, <1>7 DEF Left
  <2>2. QED
    BY <2>1, Joined
<1>9. ASSUME NEW i \in 1 .. Len(c) PROVE \E j \in 1 .. Len(flush) : Has(buffers[flush[j]], c[i])
  BY <1>5 DEF Gathers, Has
<1>10. ASSUME NEW i \in 1 .. Len(k) PROVE \E b \in Bufs : Has(buffers[b], k[i])
  <2>1. Has(c, k[i]) \/ Has(buffers[cur], k[i])
    BY <1>7 DEF Has
  <2>2. Has(c, k[i]) => \E j \in 1 .. Len(flush) : Has(buffers[flush[j]], k[i])
    BY <1>5 DEF Gathers
  <2>3. QED
    BY <1>3, <1>4, <2>1, <2>2
<1>11. ASSUME NEW i \in 1 .. Len(g) PROVE Has(file, g[i])
  BY <1>6 DEF Has
<1>12. Single(file')
  <2>1. Single(file) /\ \A b \in Bufs : Single(buffers[b])
    BY <1>2 DEF OnceInv, Single
  <2>2. \A b, d \in Bufs : b # d => Apart(buffers[b], buffers[d])
    BY <1>2 DEF OnceInv, Apart
  <2>3. Single(c)
    <3>1. \A i \in 1 .. Len(flush) : Single(buffers[flush[i]])
      BY <1>4, <2>1
    <3>2. ASSUME NEW i \in 1 .. Len(flush), NEW j \in 1 .. Len(flush), i < j
          PROVE  Apart(buffers[flush[i]], buffers[flush[j]])
      <4>1. flush[i] # flush[j]
        BY <1>3, <3>2 DEF Queued, Placed
      <4>2. QED
        BY <1>4, <2>2, <4>1
    <3>3. QED
      BY <1>5, <3>1, <3>2 DEF Gathers
  <2>4. Apart(c, buffers[cur])
    <3>1. ASSUME NEW i \in 1 .. Len(c), NEW m \in 1 .. Len(buffers[cur]) PROVE c[i] # buffers[cur][m]
      <4>1. PICK j \in 1 .. Len(flush) : Has(buffers[flush[j]], c[i])
        BY <1>9
      <4>2. Apart(buffers[flush[j]], buffers[cur])
        BY <1>3, <1>4, <2>2
      <4>3. QED
        BY <4>1, <4>2 DEF Has, Apart
    <3>2. QED
      BY <3>1 DEF Apart
  <2>5. Apart(g, k)
    <3>1. ASSUME NEW i \in 1 .. Len(g), NEW m \in 1 .. Len(k) PROVE g[i] # k[m]
      <4>1. PICK b \in Bufs : Has(buffers[b], k[m])
        BY <1>10
      <4>2. InBuffers(buffers, k[m])
        BY <4>1 DEF InBuffers, Has
      <4>3. ~InBuffers(buffers, g[i])
        BY <1>2, <1>11 DEF OnceInv, Has
      <4>4. QED
        BY <4>2, <4>3
    <3>2. QED
      BY <3>1 DEF Apart
  <2>6. QED
    BY <1>3, <1>6, <1>7, <1>8, <2>1, <2>3, <2>4, <2>5
<1>13. ASSUME OrderInv PROVE Rising(file')
  <2>1. Rising(file) /\ \A b \in Bufs : Rising(buffers[b]) /\ Before(file, buffers[b])
    BY <1>13 DEF OrderInv
  <2>2. Rising(c)
    <3>1. \A i \in 1 .. Len(flush) : Rising(buffers[flush[i]])
      BY <1>4, <2>1
    <3>2. \A i, j \in 1 .. Len(flush) : i < j => Before(buffers[flush[i]], buffers[flush[j]])
      BY <1>13 DEF OrderInv
    <3>3. QED
      BY <1>5, <3>1, <3>2 DEF Gathers
  <2>3. Before(c, buffers[cur])
    <3>1. ASSUME NEW i \in 1 .. Len(c), NEW m \in 1 .. Len(buffers[cur]) PROVE c[i] < buffers[cur][m]
      <4>1. PICK j \in 1 .. Len(flush) : Has(buffers[flush[j]], c[i])
        BY <1>9
      <4>2. Before(buffers[flush[j]], buffers[cur])
        BY <1>4, <1>13 DEF OrderInv
      <4>3. QED
        BY <4>1, <4>2 DEF Has, Before
    <3>2. QED
      BY <3>1 DEF Before
  <2>4. Before(g, k)
    <3>1. ASSUME NEW i \in 1 .. Len(g), NEW m \in 1 .. Len(k) PROVE g[i] < k[m]
      <4>1. PICK b \in Bufs : Has(buffers[b], k[m])
        BY <1>10
      <4>2. Before(file, buffers[b]) /\ Has(file, g[i])
        BY <1>11, <2>1
      <4>3. QED
        BY <4>1, <4>2 DEF Has, Before
    <3>2. QED
      BY <3>1 DEF Before
  <2>5. QED
    BY <1>3, <1>6, <1>7, <1>8, <2>1, <2>2, <2>3, <2>4
<1>14. QED
  BY <1>12, <1>13
LEMMA ExitEnds ==
    ASSUME LoggerInv, EndInv, NEW twice \in BOOLEAN, Exit(twice)
    PROVE  EndInv'
<1>1. /\ process \in {"direct", "child"} /\ process' = (IF process = "child" THEN "finished" ELSE "ended")
      /\ flusher' = "dangling" /\ UNCHANGED <<image, mine, missed>>
  BY DEF Exit, Destroy
<1>2. file' \in Seq(Nat) /\ \A l \in mine' : InFile(l)'
  BY <1>1, ExitHasAll DEF Has, InFile
<1>3. ASSUME image' = <<>>, ~raced' PROVE Single(file') /\ (missed' = "never" => Rising(file'))
  <2>1. Single(file') /\ (OrderInv => Rising(file'))
    BY <1>1, <1>3, ExitIsTidy
  <2>2. process = "child" => image # <<>>
    BY DEF LoggerInv, ImageInv
  <2>3. missed' = "never" => OrderInv
    BY <1>1, <1>3, <2>2 DEF EndInv
  <2>4. QED
    BY <2>1, <2>3
<1>4. WrittenInv'
  BY <1>1, <1>2, <1>3 DEF WrittenInv, Single, Rising
<1>5. process = "child" => image # <<>>
  BY DEF LoggerInv, ImageInv
<1>6. QED
  BY <1>1, <1>4, <1>5 DEF EndInv

\* Once a process has returned nothing happens to what it wrote.
LEMMA EndStays ==
    ASSUME EndInv, process' = process,
           process \in {"boot", "direct"} /\ missed' = "never" => OrderInv',
           process \in {"finished", "ended"} =>
             UNCHANGED <<flusher, file, mine, image, raced, missed>>
    PROVE  EndInv'
<1>1. ASSUME process \in {"finished", "ended"}, WrittenInv PROVE WrittenInv'
  BY <1>1 DEF WrittenInv, InFile, Single, Rising
<1>2. QED
  BY <1>1 DEF EndInv

LEMMA EndInit == LoggerInit => EndInv
<1> SUFFICES ASSUME LoggerInit PROVE EndInv
  OBVIOUS
<1>1. /\ process = "boot" /\ file = <<>> /\ flush = <<>> /\ spin = Nobody /\ \A b \in Bufs : buffers[b] = <<>>
  BY DEF LoggerInit, Bufs
<1>2. Len(<<>>) = 0
  OBVIOUS
<1>3. OrderInv
  BY <1>1, <1>2 DEF OrderInv, Rising, Before
<1>4. QED
  BY <1>1, <1>3 DEF EndInv

LEMMA EndAppends ==
    ASSUME LoggerInv, EndInv, NEW t \in Threads, Appends(t)
    PROVE  EndInv'
<1>1. PICK big \in BOOLEAN : LET l == [id |-> lines + 1, big |-> big] IN
        AppendFits(t, l) \/ AppendNext(t, l) \/ AppendWaits(t, l)
  BY DEF Appends
<1>2. PICK l : l = [id |-> lines + 1, big |-> big] /\ (AppendFits(t, l) \/ AppendNext(t, l) \/ AppendWaits(t, l))
  BY <1>1
<1>3. l.id = lines + 1
  BY <1>2
<1>4. Begin(t, l) /\ (missed' = "never" => missed = "never")
  BY <1>2 DEF AppendFits, AppendNext, AppendWaits, SignalFlusher
<1>5. Running /\ process' = process
  BY <1>4 DEF Begin, daemonVars
<1>6. ASSUME process \in {"boot", "direct"}, missed' = "never" PROVE OrderInv'
  <2>1. OrderInv
    BY <1>4, <1>6 DEF EndInv
  <2>2. QED
    BY <1>2, <1>3, <1>6, <2>1, OrderFits, OrderNext, OrderWaits
<1>7. QED
  BY <1>5, <1>6, EndStays DEF Running

LEMMA EndWakes ==
    ASSUME LoggerInv, EndInv, NEW t \in Threads, AppendWakes(t)
    PROVE  EndInv'
<1>1. /\ SignalFlusher /\ UNCHANGED <<file, process, image, mine, raced>>
  BY DEF AppendWakes, daemonVars
<1>2. ASSUME process \in {"boot", "direct"}, missed' = "never" PROVE OrderInv'
  <2>1. OrderInv
    BY <1>1, <1>2, Signalled DEF EndInv
  <2>2. QED
    BY <1>2, <2>1, OrderWakes
<1>3. flusher = "dangling" => UNCHANGED <<flusher, missed>>
  BY <1>1 DEF SignalFlusher
<1>4. CASE process \in {"finished", "ended"}
  <2>1. ASSUME WrittenInv PROVE WrittenInv'
    BY <1>1, <1>3, <2>1 DEF WrittenInv, InFile, Single, Rising
  <2>2. QED
    BY <1>1, <1>4, <2>1 DEF EndInv
<1>5. CASE process \notin {"finished", "ended"}
  BY <1>1, <1>2, <1>5, EndStays
<1>6. QED
  BY <1>4, <1>5

\* The logger thread of a process that has returned is gone.
LEMMA EndFlusher ==
    ASSUME LoggerInv, EndInv, flusher # "dangling", process' = process, image' = image,
           process \in {"boot", "direct"} /\ missed' = "never" => OrderInv'
    PROVE  EndInv'
<1>1. ~WrittenInv
  BY DEF WrittenInv
<1>2. process # "finished" /\ (process = "ended" => image # <<>>)
  BY <1>1 DEF EndInv
<1>3. QED
  BY <1>2 DEF EndInv

LEMMA EndStep == LoggerInv /\ EndInv /\ [LoggerNext]_logVars => EndInv'
<1> SUFFICES ASSUME LoggerInv, EndInv, [LoggerNext]_logVars PROVE EndInv'
  OBVIOUS
<1>1. ASSUME NEW t \in Threads, Appends(t) PROVE EndInv'
  BY <1>1, EndAppends
<1>2. ASSUME NEW t \in Threads, AppendWakes(t) PROVE EndInv'
  BY <1>2, EndWakes
<1>3. CASE FlusherStep \/ Timeout
  <2>1. /\ flusher # "dangling" /\ UNCHANGED <<process, image>> /\ (missed' = "never" => missed = "never")
    BY <1>3 DEF FlusherStep, FlusherWaits, Drain, DrainOne, DrainEnds, WriteCur, Timeout, daemonVars, historyVars
  <2>2. ASSUME process \in {"boot", "direct"}, missed' = "never" PROVE OrderInv'
    <3>1. OrderInv
      BY <2>1, <2>2 DEF EndInv
    <3>2. CASE FlusherWaits
      BY <3>1, <3>2, OrderSame DEF FlusherWaits, threadVars, bufferVars
    <3>3. CASE Drain
      BY <3>1, <3>3, OrderSame DEF Drain, threadVars, bufferVars
    <3>4. CASE DrainOne
      BY <2>2, <3>1, <3>4, OrderDrain
    <3>5. CASE DrainEnds
      BY <3>1, <3>5, OrderSame DEF DrainEnds, bufferVars
    <3>6. CASE WriteCur
      BY <2>2, <3>1, <3>6, OrderWrite
    <3>7. CASE Timeout
      BY <3>1, <3>7, OrderSame DEF Timeout, threadVars, bufferVars
    <3>8. QED
      BY <1>3, <3>2, <3>3, <3>4, <3>5, <3>6, <3>7 DEF FlusherStep
  <2>3. QED
    BY <2>1, <2>2, EndFlusher
<1>4. CASE StartDirect
  <2>1. /\ process = "boot" /\ process' = "direct"
        /\ UNCHANGED <<spin, line, buffers, cur, flush, file, flusher, missed>>
    BY <1>4 DEF StartDirect, threadVars, bufferVars, historyVars
  <2>2. OrderInv => OrderInv'
    BY <2>1, OrderSame
  <2>3. QED
    BY <2>1, <2>2 DEF EndInv
<1>5. CASE StartDaemon \/ Crash
  <2>1. process' = "forking"
    BY <1>5 DEF StartDaemon, Crash
  <2>2. QED
    BY <2>1 DEF EndInv
<1>6. CASE Fork
  <2>1. process' = "child"
    BY <1>6 DEF Fork
  <2>2. QED
    BY <2>1 DEF EndInv
<1>7. CASE ForkFails \/ Waited
  <2>1. process \in {"forking", "finished"} /\ process' = "ended" /\ image' = image
    BY <1>7 DEF ForkFails, Waited
  <2>2. image # <<>>
    BY <2>1 DEF LoggerInv, ImageInv, EndInv
  <2>3. QED
    BY <2>1, <2>2 DEF EndInv
<1>8. ASSUME NEW twice \in BOOLEAN, Exit(twice) PROVE EndInv'
  BY <1>8, ExitEnds
<1>9. CASE UNCHANGED logVars
  <2>1. /\ UNCHANGED <<spin, line, buffers, cur, flush, file, flusher, missed, process, image, mine, raced>>
    BY <1>9 DEF logVars, bufferVars, daemonVars, historyVars
  <2>2. OrderInv => OrderInv'
    BY <2>1, OrderSame
  <2>3. process \in {"boot", "direct"} /\ missed' = "never" => OrderInv'
    BY <2>1, <2>2 DEF EndInv
  <2>4. QED
    BY <2>1, <2>3, EndStays
<1>10. QED
  BY <1>1, <1>2, <1>3, <1>4, <1>5, <1>6, <1>7, <1>8, <1>9 DEF LoggerNext, Wakings

LEMMA EndGivesKept == LoggerInv /\ EndInv => ExitWrites /\ FileInOrder
<1> SUFFICES ASSUME LoggerInv, EndInv PROVE ExitWrites /\ FileInOrder
  OBVIOUS
<1>1. ASSUME WrittenInv, NEW l \in mine PROVE Written(l) >= 1 /\ (image = <<>> /\ ~raced => Written(l) = 1)
  <2>1. PICK W : W = { i \in DOMAIN file : file[i] = l }
    OBVIOUS
  <2>2. DOMAIN file = 1 .. Len(file) /\ Len(file) \in Nat
    BY <1>1, NonEmpty DEF WrittenInv
  <2>3. IsFiniteSet(1 .. Len(file)) /\ W \subseteq 1 .. Len(file)
    BY <2>1, <2>2, FS_Interval
  <2>4. IsFiniteSet(W)
    BY <2>3, FS_Subset
  <2>5. W # {}
    BY <1>1, <2>1, <2>2 DEF WrittenInv, InFile
  <2>6. image = <<>> /\ ~raced => \A i, j \in W : i = j
    BY <1>1, <2>1, <2>2 DEF WrittenInv, Single
  <2>7. Written(l) = Cardinality(W)
    BY <2>1 DEF Written
  <2>8. QED
    BY <2>4, <2>5, <2>6, <2>7, Counted
<1>2. ExitWrites
  BY <1>1 DEF ExitWrites, EndInv
<1>3. ASSUME image = <<>>, missed = "never", ~raced PROVE Rising(file) /\ file \in Seq(Nat)
  <2>1. process \in {"boot", "direct", "finished", "ended"}
    BY <1>3 DEF LoggerInv, ImageInv
  <2>2. CASE process \in {"boot", "direct"}
    BY <1>3, <2>2 DEF EndInv, OrderInv, LoggerInv
  <2>3. CASE process \in {"finished", "ended"}
    BY <1>3, <2>3 DEF EndInv, WrittenInv
  <2>4. QED
    BY <2>1, <2>2, <2>3
<1>4. FileInOrder
  <2> SUFFICES ASSUME image = <<>>, missed = "never", ~raced,
                      NEW i \in DOMAIN file, NEW j \in DOMAIN file, i < j
               PROVE  file[i] < file[j]
    BY DEF FileInOrder
  <2>1. DOMAIN file = 1 .. Len(file)
    BY <1>3, NonEmpty
  <2>2. QED
    BY <1>3, <2>1 DEF Rising
<1>5. QED
  BY <1>2, <1>4

\* No line is lost or repeated while the program runs, and the file has every
\* line of a process that returned, once and in the order of the calls where the
\* code keeps it, however appending threads, logger thread, timeouts, forks and
\* crashes interleave (AsyncLogger::~AsyncLogger, append, run).
THEOREM LogIsKept == LoggerSpec => []LogKept
<1>1. LoggerInit => LoggerInv /\ EndInv
  BY LoggerInitInv, EndInit
<1>2. LoggerInv /\ EndInv /\ [LoggerNext]_logVars => (LoggerInv /\ EndInv)'
  BY LoggerStep, EndStep
<1>3. LoggerInv /\ EndInv => LogKept
  BY EndGivesKept, InvGivesBuffers, InvGivesLines DEF LogKept, LoggerSound
<1>4. QED
  BY <1>1, <1>2, <1>3, PTL DEF LoggerSpec
===============================================================================
