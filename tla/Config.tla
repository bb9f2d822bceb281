------------------------------- MODULE Config -------------------------------
(***************************************************************************)
(* acid::Config and ConfigVar (common/config.h, config.cpp): variables that*)
(* code looks up with a type and a default, listeners that keep a copy of  *)
(* a value, threads that set values, and threads that load the files of a  *)
(* directory, each remembered by its modification time.                    *)
(*                                                                         *)
(* A file configures the variable of its own name, so Names is the set of  *)
(* both.  What it holds is a value, or Odd, which the variable's type can't*)
(* be read from, or Bad, which is no YAML.  Listeners are added by static  *)
(* initialisers, right after the look_up that made the variable, as all of *)
(* the repository do; copy[n] is what the listener of n was last given.    *)
(*                                                                         *)
(* The last four variables are history: overlapped, two threads were at n  *)
(* at a time; touched, a program set n after its file was loaded; again,   *)
(* n's file was written twice within a second; late, n was looked up only  *)
(* after its file had been seen.                                           *)
(***************************************************************************)
EXTENDS Integers, Sequences, FiniteSets

CONSTANTS Names, Types, Values, Default, Odd, Bad,
          Loaders, Setters,  \* threads
          MaxTime,           \* seconds
          MaxSets            \* set_value() calls of programs
ASSUME ConfigAssumption == Default \in Values /\ {Odd, Bad} \cap Values = {}

VARIABLES datas, copy, readers, act, todo, disk, s_file_modify_time, now, sets,
          overlapped, touched, again, late

varVars  == <<datas, copy, readers>>
diskVars == <<disk, now>>
pastVars == <<overlapped, touched, again, late>>
configVars == <<varVars, act, todo, diskVars, s_file_modify_time, sets, pastVars>>

NoVar == [type |-> "none", val |-> Default, listened |-> FALSE]
Idle  == [at |-> "idle"]
Actors == Loaders \cup Setters

ConfigInit ==
  /\ datas \in [Names -> {NoVar} \cup { [type |-> T, val |-> Default, listened |-> TRUE] : T \in Types }]
  /\ copy = [n \in Names |-> Default] /\ readers = [n \in Names |-> {}]
  /\ act = [t \in Actors |-> Idle] /\ todo = [t \in Loaders |-> {}]
  /\ disk = [n \in Names |-> [content |-> Default, mtime |-> 1]]
  /\ s_file_modify_time = [n \in Names |-> 0]
  /\ now = 1 /\ sets = 0
  /\ overlapped = [n \in Names |-> FALSE] /\ touched = [n \in Names |-> FALSE]
  /\ again = [n \in Names |-> FALSE] /\ late = [n \in Names |-> FALSE]

Exists(n) == datas[n].type # "none"
At(t, n, states) == act[t].at \in states /\ act[t].name = n
Busy(n) == \E t \in Actors : At(t, n, {"parse", "set", "notify", "write"})
Goes2(t, a) == act' = [act EXCEPT ![t] = a]

\* What a thread does when its set_value() returns.
Return(t) == IF t \in Loaders THEN [at |-> "next"] ELSE Idle

\* Config::look_up<T>(name, value), under the write lock: an entry of another
\* type does not count, and is replaced; who is setting the old one goes on
\* with that.
LookUp(n, T) ==
  /\ datas[n].type # T
  /\ datas' = [datas EXCEPT ![n] = [type |-> T, val |-> Default, listened |-> FALSE]]
  /\ late' = [late EXCEPT ![n] = @ \/ s_file_modify_time[n] # 0]
  /\ act' = [t \in Actors |-> IF At(t, n, {"set", "notify", "write"}) THEN Return(t) ELSE act[t]]
  /\ readers' = [readers EXCEPT ![n] = {}]
  /\ UNCHANGED <<copy, todo, diskVars, s_file_modify_time, sets, overlapped, touched, again>>

\* A program calls set_value(), or a loader's from_string() does.
CallsSet(t, n, v) ==
  /\ overlapped' = [overlapped EXCEPT ![n] = @ \/ \E u \in Actors \ {t} : At(u, n, {"parse", "set", "notify", "write"})]
  /\ Goes2(t, [at |-> "set", name |-> n, value |-> v])

SetValue(t, n, v) ==
  /\ act[t] = Idle /\ Exists(n) /\ sets < MaxSets /\ sets' = sets + 1
  /\ CallsSet(t, n, v)
  /\ touched' = [touched EXCEPT ![n] = TRUE]
  /\ UNCHANGED <<varVars, todo, diskVars, s_file_modify_time, again, late>>

\* set_value(): under the read lock, an equal value ends it.
Compare(t) ==
  /\ act[t].at = "set"
  /\ LET n == act[t].name IN
       IF datas[n].val = act[t].value
       THEN Goes2(t, Return(t)) /\ UNCHANGED readers
       ELSE Goes2(t, [act[t] EXCEPT !.at = "notify"]) /\ readers' = [readers EXCEPT ![n] = @ \cup {t}]
  /\ UNCHANGED <<datas, copy, todo, diskVars, s_file_modify_time, sets, pastVars>>

\* Mutant: the callbacks are called with the two values swapped.
NotifySwapped(t) ==
  /\ act[t].at = "notify"
  /\ LET n == act[t].name IN
       /\ copy' = [copy EXCEPT ![n] = IF datas[n].listened THEN datas[n].val ELSE @]
       /\ readers' = [readers EXCEPT ![n] = @ \ {t}]
  /\ Goes2(t, [act[t] EXCEPT !.at = "write"])
  /\ UNCHANGED <<datas, todo, diskVars, s_file_modify_time, sets, pastVars>>

\* The callbacks, still under the read lock, which is then given up.
Notify(t) ==
  /\ act[t].at = "notify"
  /\ LET n == act[t].name IN
       /\ copy' = [copy EXCEPT ![n] = IF datas[n].listened THEN act[t].value ELSE @]
       /\ readers' = [readers EXCEPT ![n] = @ \ {t}]
  /\ Goes2(t, [act[t] EXCEPT !.at = "write"])
  /\ UNCHANGED <<datas, todo, diskVars, s_file_modify_time, sets, pastVars>>

\* The value is stored under the write lock, taken anew.
Store(t) ==
  /\ act[t].at = "write" /\ readers[act[t].name] = {}
  /\ datas' = [datas EXCEPT ![act[t].name].val = act[t].value]
  /\ Goes2(t, Return(t))
  /\ UNCHANGED <<copy, readers, todo, diskVars, s_file_modify_time, sets, pastVars>>

-----------------------------------------------------------------------------
\* load_from_conf_dir(): the files are listed.
Load(t) ==
  /\ act[t] = Idle /\ Goes2(t, [at |-> "next"])
  /\ todo' = [todo EXCEPT ![t] = Names]
  /\ UNCHANGED <<varVars, diskVars, s_file_modify_time, sets, pastVars>>

\* lstat(), and under s_mutex the time remembered is compared and set.
Stat(t, n, force) ==
  /\ act[t].at = "next" /\ n \in todo[t]
  /\ todo' = [todo EXCEPT ![t] = @ \ {n}]
  /\ IF ~force /\ s_file_modify_time[n] = disk[n].mtime
     THEN UNCHANGED <<act, s_file_modify_time, overlapped>>
     ELSE /\ s_file_modify_time' = [s_file_modify_time EXCEPT ![n] = disk[n].mtime]
          /\ overlapped' = [overlapped EXCEPT ![n] = @ \/ Busy(n)]
          /\ Goes2(t, [at |-> "parse", name |-> n])
  /\ UNCHANGED <<varVars, diskVars, sets, touched, again, late>>

\* load_from_yaml() of one file: a variable nobody looked up is passed over,
\* a value that can't be converted is logged, so is a file that is no YAML.
Parse(t) ==
  /\ act[t].at = "parse"
  /\ LET n == act[t].name v == disk[n].content IN
       IF Exists(n) /\ v \in Values
       THEN CallsSet(t, n, v) /\ touched' = [touched EXCEPT ![n] = FALSE]
       ELSE Goes2(t, [at |-> "next"]) /\ UNCHANGED <<overlapped, touched>>
  /\ UNCHANGED <<varVars, todo, diskVars, s_file_modify_time, sets, again, late>>

LoadEnds(t) ==
  /\ act[t].at = "next" /\ todo[t] = {} /\ Goes2(t, Idle)
  /\ UNCHANGED <<varVars, todo, diskVars, s_file_modify_time, sets, pastVars>>

\* An operator edits a file; time passes.
Edit(n, c) ==
  /\ disk[n].content # c
  /\ disk' = [disk EXCEPT ![n] = [content |-> c, mtime |-> now]]
  /\ again' = [again EXCEPT ![n] = @ \/ disk[n].mtime = now]
  /\ UNCHANGED <<varVars, act, todo, now, s_file_modify_time, sets, overlapped, touched, late>>

Tick ==
  /\ now < MaxTime /\ now' = now + 1
  /\ UNCHANGED <<varVars, act, todo, disk, s_file_modify_time, sets, pastVars>>

LoaderStep(t) == \/ \E n \in Names, force \in BOOLEAN : Stat(t, n, force)
                 \/ Parse(t)
                 \/ LoadEnds(t)
SetStep(t) == Compare(t) \/ Notify(t) \/ Store(t)

ConfigNext ==
  \/ \E n \in Names, T \in Types : LookUp(n, T)
  \/ \E t \in Setters, n \in Names, v \in Values : SetValue(t, n, v)
  \/ \E t \in Actors : SetStep(t)
  \/ \E t \in Loaders : Load(t)
  \/ \E t \in Loaders : LoaderStep(t)
  \/ \E n \in Names, c \in Values \cup {Odd, Bad} : Edit(n, c)
  \/ Tick

ConfigSpec == ConfigInit /\ [][ConfigNext]_configVars

-----------------------------------------------------------------------------
\* When the threads that set or load a variable one at a time are done, its
\* listener was last given the value it has (ConfigVar::set_value).
ListenersAgree ==
  \A n \in Names : datas[n].listened /\ ~overlapped[n] /\ ~Busy(n) => copy[n] = datas[n].val

\* A file that load_from_conf_dir() would skip is in force: its variable has
\* the file's value, unless a program set it, two threads loaded or set it
\* together, the file was written twice within a second, or the variable was
\* looked up only after the file had been seen.
LoadedFresh ==
  \A n \in Names :
    /\ Exists(n) /\ ~Busy(n) /\ disk[n].content \in Values
    /\ s_file_modify_time[n] = disk[n].mtime
    /\ ~(overlapped[n] \/ touched[n] \/ again[n] \/ late[n])
    => datas[n].val = disk[n].content

\* Variables, their listeners and their files agree (config.h, config.cpp).
ConfigSound == ListenersAgree /\ LoadedFresh
=============================================================================
