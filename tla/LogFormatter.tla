---------------------------- MODULE LogFormatter ----------------------------
(***************************************************************************)
(* acid::LogFormatter (logger/logger.cpp): a pattern, a sequence of        *)
(* characters, is split into texts and items by init().                    *)
(*                                                                         *)
(* The state of the split: i, where it is; parts, what it found; text, the *)
(* text since the last item; normal, whether it is in a text (or just      *)
(* after a %); date, the date format, one for all of the pattern's dates;  *)
(* threw, whether pattern_.at() was given a place behind the end.          *)
(***************************************************************************)
EXTENDS Integers, Sequences

CONSTANT Letters  \* of format_items

Part(kind, what) == [kind |-> kind, what |-> what]
Texts(s) == IF s.text = <<>> THEN s.parts ELSE Append(s.parts, Part("text", s.text))

\* A character of a text; % ends it.
TextChar(p, s) ==
  IF p[s.i] = "%"
  THEN [s EXCEPT !.i = @ + 1, !.parts = Texts(s), !.text = <<>>, !.normal = FALSE]
  ELSE [s EXCEPT !.i = @ + 1, !.text = Append(@, p[s.i])]

Closes(p, from) == { k \in from .. Len(p) : p[k] = "}" }

\* After %d: when another character than { follows it has no format;
\* otherwise what follows up to } is its format.
DateFormat(p, s) ==
  LET n == s.i + 1 IN
  IF n <= Len(p) /\ p[n] # "{" THEN [s EXCEPT !.i = n]
  ELSE IF Closes(p, n + 1) = {} THEN [s EXCEPT !.threw = TRUE]
  ELSE LET k == CHOOSE k \in Closes(p, n + 1) : \A j \in Closes(p, n + 1) : k <= j
       IN  [s EXCEPT !.i = k + 1, !.date = @ \o SubSeq(p, n + 1, k - 1)]

\* The character after %.
ItemChar(p, s) ==
  LET found == [s EXCEPT !.parts = Append(@, Part("item", p[s.i])), !.normal = TRUE]
  IN  IF p[s.i] = "d" THEN DateFormat(p, found) ELSE [found EXCEPT !.i = @ + 1]

RECURSIVE Scan(_, _)
Scan(p, s) == IF s.threw \/ s.i > Len(p) THEN s
              ELSE Scan(p, IF s.normal THEN TextChar(p, s) ELSE ItemChar(p, s))

Scanned(p) == Scan(p, [i |-> 1, parts |-> <<>>, text |-> <<>>, normal |-> TRUE, date |-> <<>>, threw |-> FALSE])

Known(part) == part.kind = "text" \/ part.what \in Letters \cup {"%", "d"}

\* init(): the items, up to the first unknown one.
InitFormat(p) ==
  LET s     == Scanned(p)
      parts == Texts(s)
      bad   == { i \in DOMAIN parts : ~Known(parts[i]) }
  IN  [threw |-> s.threw, is_error |-> bad # {}, date |-> s.date,
       items |-> IF bad = {} THEN parts
                 ELSE SubSeq(parts, 1, (CHOOSE i \in bad : \A j \in bad : i <= j) - 1)]
=============================================================================
