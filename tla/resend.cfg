\* Two nodes with one publisher port that may each repeat their registration twice; answers may be empty.
CONSTANTS
  n1 = n1
  n2 = n2
  n3 = n3
  n4 = n4
  d1 = d1
  d2 = d2
  t1 = t1
  t2 = t2
  Nodes = {n1, n2}
  Processes = {n1, n2}
  ProcessOf <- OwnProcess
  expectedClient = 2
  Data = {d1, d2}
  RequestedData <- AllRequest
  Topics = {t1, t2}
  Answers <- SparseAnswers
  Configured = {n1, n2}
  PubPort <- SamePort
  MaxResend = 2
SPECIFICATION FairSpec
INVARIANTS
  TypeOK
  RegisteredOnce
  NoEarlyRelease
  IInv
PROPERTIES
  ImplementsBarrier
  PortClashIsFatal
CHECK_DEADLOCK FALSE
