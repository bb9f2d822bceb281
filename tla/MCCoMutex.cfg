SPECIFICATION Spec
CONSTANTS
    Fibers = {f1, f2, f3}
    NoFiber = NoFiber
    FirstIds = {NoFiber}
    Threads = 2
INVARIANTS   OneWakeUp
 
