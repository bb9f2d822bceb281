SPECIFICATION FairSpec
CONSTANTS
    w1 = w1 w2 = w2 j1 = j1 j2 = j2
    NoWorker = NoWorker NoJob = NoJob
    Workers = {w1, w2}
    Callers = {NoWorker, w2}
    Jobs = {j1, j2}
    Children = {j2}
    Yielders = {j1}
    Pin <- PinJ1
CHECK_DEADLOCK FALSE
INVARIANTS TasksSound OneThreadAtWork 
PROPERTIES WorkEnds
