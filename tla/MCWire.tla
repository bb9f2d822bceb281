------------------------------- MODULE MCWire -------------------------------
\* One value of each type, chosen so that varints take one byte and the most
\* bytes, and three values fill one block, or run into the third.
EXTENDS Wire

MCItems ==
  { [type |-> "int8",   value |-> <<-3>>],
    [type |-> "int32",  value |-> <<-16>>],
    [type |-> "uint16", value |-> <<13>>],
    [type |-> "string", value |-> <<>>],
    [type |-> "string", value |-> <<1, 2, 3, 4>>],
    [type |-> "list",   value |-> <<-1, 5>>],
    [type |-> "tuple",  value |-> <<-1, 4>>],
    [type |-> "map",    value |-> <<1, 2>>] }
==============================================================================
