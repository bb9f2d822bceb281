--------------------------------- MODULE Env ---------------------------------
(***************************************************************************)
(* acid::Env (common/env.cpp): the command line as init() reads it, from   *)
(* its first element, the name of the program, on.  An option is a word    *)
(* that starts with a dash; Dash is the dash alone.                        *)
(***************************************************************************)
EXTENDS Integers, Sequences

CONSTANTS Options, Words, Dash

NoKey == "no key"

\* add(): the value replaces an earlier one.
Add(args, k, v) == [args EXCEPT ![k] = v]

\* One turn of init()'s loop.
Take(s, word) ==
  CASE word = Dash -> [s EXCEPT !.ok = FALSE]
    [] word \in Options ->
         [s EXCEPT !.args = IF s.key = NoKey THEN @ ELSE Add(@, s.key, ""), !.key = word]
    [] word \in Words /\ s.key # NoKey -> [s EXCEPT !.args = Add(@, s.key, word), !.key = NoKey]
    [] OTHER -> [s EXCEPT !.ok = FALSE]

RECURSIVE TakeAll(_, _)
TakeAll(s, words) == IF words = <<>> \/ ~s.ok THEN s ELSE TakeAll(Take(s, Head(words)), Tail(words))

\* init(): ok is its result, "unset" stands for an option that has() denies.
InitEnv(words) ==
  LET s == TakeAll([ok |-> TRUE, key |-> NoKey, args |-> [o \in Options |-> "unset"]], words)
  IN  IF s.ok /\ s.key # NoKey THEN [s EXCEPT !.args = Add(@, s.key, "")] ELSE s
==============================================================================
