------------------------------- MODULE Program -------------------------------
(***************************************************************************)
(* What surrounds the framework in a program, one part to a behaviour      *)
(* (kind): "logger", the asynchronous logger of a program or daemon;       *)
(* "config", its configuration; and three pure computations, whose input   *)
(* grows character by character: "pattern", "args", "host" and "bits".     *)
(***************************************************************************)
EXTENDS AsyncLogger, Config, LogFormatter, Env, Address

CONSTANTS Inputs,    \* the characters of each pure kind
          MaxInput   \* and the length of its inputs

VARIABLES kind, input

vars == <<kind, input, logVars, configVars>>

Init == /\ kind \in {"logger", "config"} \cup DOMAIN Inputs
        /\ input = <<>> /\ LoggerInit
        /\ ConfigInit /\ (kind # "config" => datas = [n \in Names |-> NoVar])

Grow == /\ kind \in DOMAIN Inputs /\ Len(input) < MaxInput[kind]
        /\ \E c \in Inputs[kind] : input' = Append(input, c)

Next == \/ kind = "logger" /\ LoggerNext /\ UNCHANGED <<kind, input, configVars>>
        \/ kind = "config" /\ ConfigNext /\ UNCHANGED <<kind, input, logVars>>
        \/ Grow /\ UNCHANGED <<kind, logVars, configVars>>

\* The logger thread is scheduled, and so is a thread that was woken.
Fairness == /\ WF_vars(kind = "logger" /\ FlusherStep /\ UNCHANGED <<kind, input, configVars>>)
            /\ WF_vars(kind = "logger" /\ Wakings /\ UNCHANGED <<kind, input, configVars>>)

FairSpec == Init /\ [][Next]_vars /\ Fairness

-----------------------------------------------------------------------------
\* A thread that waits for a buffer gets one, unless the signal that asked
\* for it was missed, or the logger was made before the program became a
\* daemon, which has no logger thread (AsyncLogger::append, real_daemon).
AppendReturns ==
  \A t \in Threads : pc[t] # "idle" ~> (pc[t] = "idle" \/ missed = "now" \/ image # <<>>)

-----------------------------------------------------------------------------
RECURSIVE Unparse(_, _)
Unparse(items, date) ==
  IF items = <<>> THEN <<>>
  ELSE LET it == Head(items) IN
       (IF it.kind = "text" THEN it.what
        ELSE <<"%", it.what>> \o (IF it.what = "d" /\ date # <<>> THEN <<"{">> \o date \o <<"}">> ELSE <<>>))
       \o Unparse(Tail(items), date)

\* A pattern without a mistake gives back the pattern: nothing of it is lost
\* but a lone % at the end, when it has one date at most, not with an empty
\* format (LogFormatter::init).
FormatKept ==
  kind = "pattern" =>
    LET f == InitFormat(input)
        dates == { i \in DOMAIN f.items : f.items[i] = Part("item", "d") }
        kept == IF Scanned(input).normal THEN input ELSE SubSeq(input, 1, Len(input) - 1)
    IN  /\ ~f.threw /\ ~f.is_error /\ Cardinality(dates) <= 1
        /\ \A i \in 1 .. Len(input) - 1 : ~(input[i] = "{" /\ input[i + 1] = "}")
        => Unparse(f.items, f.date) = kept

\* init() accepts the command lines whose every word follows an option, and
\* gives each option its word at its last place (Env::init).
ArgsParsed ==
  kind = "args" =>
    LET r == InitEnv(input)
        At2(o) == { i \in DOMAIN input : input[i] = o }
        Last(o) == CHOOSE i \in At2(o) : \A j \in At2(o) : j <= i
    IN  /\ r.ok = \A i \in DOMAIN input :
                    input[i] # Dash /\ (input[i] \in Words => i > 1 /\ input[i - 1] \in Options)
        /\ r.ok => \A o \in Options :
             r.args[o] = IF At2(o) = {} THEN "unset"
                         ELSE IF Last(o) < Len(input) /\ input[Last(o) + 1] \in Words
                         THEN input[Last(o) + 1] ELSE ""

\* A node and a service written the way URLs have them, the node in brackets
\* when it has a colon, are found again (Address::look_up).
HostsSplit ==
  kind = "host" =>
    \A k \in 1 .. Len(input) :
      LET node == SubSeq(input, 1, k)
          service == From(input, k + 1)
          colons == Places(node, ":", 1)
          host == (IF colons = {} THEN node ELSE <<"[">> \o node \o <<"]">>)
                  \o (IF service = <<>> THEN <<>> ELSE <<":">> \o service)
      IN  Places(input, "[", 1) = {} /\ Places(input, "]", 1) = {} /\ Places(service, ":", 1) = {}
          => Split(host) = [node |-> node, service |-> service]

RECURSIVE Value(_)
Value(bits) == IF bits = <<>> THEN 0 ELSE 2 * Value(SubSeq(bits, 1, Len(bits) - 1)) + bits[Len(bits)]

\* For every prefix but 0: the broadcast address is the subnet's last, the
\* address is its part under the subnet mask and the rest, which is what
\* network_address() gives (IPv4Address::broadcast_address, network_address,
\* subnet_mask).
SubnetsSplit ==
  kind = "bits" =>
    LET w == Len(input) a == Value(input) IN
    \A p \in 1 .. w : \A b \in BroadcastAddress(a, w, p), n \in NetworkAddress(a, w, p), m \in SubnetMask(w, p) :
      /\ m = Value([i \in 1 .. w |-> IF i <= p THEN 1 ELSE 0])
      /\ b = Value([i \in 1 .. w |-> IF i <= p THEN input[i] ELSE 1])
      /\ n = Value([i \in 1 .. w |-> IF i <= p THEN 0 ELSE input[i]])

\* The four things the program takes apart mean what their syntax says
\* (LogFormatter::init, Env::init, Address::look_up, IPv4Address).
SyntaxKept == FormatKept /\ ArgsParsed /\ HostsSplit /\ SubnetsSplit
==============================================================================
