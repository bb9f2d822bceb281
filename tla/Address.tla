------------------------------- MODULE Address -------------------------------
(***************************************************************************)
(* acid::Address and IPv4Address (net/address.cpp, address.h): how         *)
(* look_up() splits a host into a node and a service before getaddrinfo(), *)
(* and the subnet operations of an address of Width bits.                  *)
(***************************************************************************)
EXTENDS Integers, Sequences

Places(s, c, from) == { i \in from .. Len(s) : s[i] = c }
Least(S)           == CHOOSE i \in S : \A j \in S : i <= j
From(s, i)         == SubSeq(s, i, Len(s))
NoService          == <<>>

\* "[node]" or "[node]:service"
Bracketed(host) ==
  IF host # <<>> /\ host[1] = "[" /\ Places(host, "]", 2) # {}
  THEN LET end == Least(Places(host, "]", 2))
       IN  [node |-> SubSeq(host, 2, end - 1),
            service |-> IF end < Len(host) /\ host[end + 1] = ":" THEN From(host, end + 2) ELSE NoService]
  ELSE [node |-> <<>>, service |-> NoService]

\* "node:service"; a host with more than one colon keeps the service that
\* was found at its first one, colon and all.
Plain(host) ==
  LET colons == Places(host, ":", 1)
      first  == Least(colons)
  IN  IF colons = {} THEN [node |-> <<>>, service |-> NoService]
      ELSE IF Places(host, ":", first + 1) = {}
      THEN [node |-> SubSeq(host, 1, first - 1), service |-> From(host, first + 1)]
      ELSE [node |-> <<>>, service |-> From(host, first)]

\* look_up()
Split(host) ==
  LET s == IF Bracketed(host).node = <<>> THEN Plain(host) ELSE Bracketed(host)
  IN  IF s.node = <<>> THEN [s EXCEPT !.node = host] ELSE s

-----------------------------------------------------------------------------
\* create_mask(): the low bits; a shift by the whole width, which C++ leaves
\* undefined, shifts by nothing on x86 and clears everything when folded.
Masks(width, prefix) == IF prefix = 0 THEN {0, 2 ^ width - 1} ELSE {2 ^ (width - prefix) - 1}

\* & and | with a mask of low bits.
And(a, mask) == a % (mask + 1)
Or(a, mask)  == a - And(a, mask) + mask

BroadcastAddress(a, width, prefix) == { Or(a, mask) : mask \in Masks(width, prefix) }
NetworkAddress(a, width, prefix)   == { And(a, mask) : mask \in Masks(width, prefix) }

\* Mutant: the mask is not inverted.
SubnetMaskPlain(width, prefix) == Masks(width, prefix)

SubnetMask(width, prefix) == { 2 ^ width - 1 - mask : mask \in Masks(width, prefix) }
==============================================================================
