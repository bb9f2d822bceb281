CONSTANTS
  c1 = c1
  Clients = {c1}
  Addresses = {a1}
  a1 = a1
  MaxStarts = 2
  Paths = {"/x", "/y"}
  Patterns = {"/*"}
  Matches <- MCMatches
  Servlets = {"s1"}
  NotFound = "404"
  Requests <- MCRequests
  KeepAlive = TRUE
  MaxRequests = 2
  MaxChanges = 1
  Methods = {"add"}
  Calls <- MCCalls
  MaxMessages = 2
  MaxPublish = 1
SPECIFICATION FairSpec
CHECK_DEADLOCK FALSE
INVARIANTS AnswersMatch RepliesMatch 
 
