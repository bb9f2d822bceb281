------------------------------ MODULE MCProgram ------------------------------
EXTENDS Program

\* The characters each of the pure computations tells apart: x is a letter
\* no item has.
MCInputs == [pattern |-> {"%", "d", "{", "}", "m", "x"},
             args    |-> {"-", "-a", "-b", "v", "w"},
             host    |-> {"[", "]", ":", "h"},
             bits    |-> {0, 1}]

MCMaxInput == [pattern |-> 6, args |-> 5, host |-> 6, bits |-> 8]
==============================================================================
