SPECIFICATION FairSpec
CONSTANTS
    a = a
    b = b
    Callers = {a, b}
    Clients <- SomeClients
    SequenceIds = 2
    Capacity = 1
    AnswerKinds = {"value"}
CHECK_DEADLOCK FALSE
INVARIANTS AnswerIsOwn EntriesSound
  
