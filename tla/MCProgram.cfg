CONSTANTS
  t1 = t1
  t2 = t2
  Threads = {t1, t2}
  Main = t1
  BufferNum = 3
  Capacity = 1
  MaxLines = 5
  MaxRestarts = 1
  n1 = n1
  l1 = l1
  l2 = l2
  s1 = s1
  Names = {n1}
  Types = {"int", "str"}
  Values = {0, 1}
  Default = 0
  Odd = 3
  Bad = 4
  Loaders = {l1, l2}
  Setters = {s1}
  MaxTime = 2
  MaxSets = 1
  Letters = {"m"}
  Options = {"-a", "-b"}
  Words = {"v", "w"}
  Dash = "-"
  Inputs <- MCInputs
  MaxInput <- MCMaxInput
SPECIFICATION FairSpec
CHECK_DEADLOCK FALSE
INVARIANTS  ConfigSound SyntaxKept
PROPERTIES AppendReturns
