SPECIFICATION FairSpec
CONSTANTS
    Fibers = {reader, writer}
    Writer = {writer}
    Limitable = {"READ"}
    ThreadCounts = {1, 2}
    MaxCalls <- ReaderTwice
    MaxSockets = 2
CHECK_DEADLOCK FALSE
INVARIANTS TimeoutIsOwn FreshContext WaitsSound
PROPERTIES TimedWaitEnds
