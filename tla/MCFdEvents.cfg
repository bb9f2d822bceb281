SPECIFICATION Spec
CONSTANTS
    Fds = {2, 4}
    Fibers <- ThreeWaiters
    Dispatchers = {d1, d2}
    Racy = {4}
    FirstSize = 3
    MaxGen = 1
    FirstEvents <- Zeroed
INVARIANTS  PendingCounts WaitersFound
