\* Two nodes, one retry each: start-up need not complete.
CONSTANTS
  n1 = n1
  n2 = n2
  n3 = n3
  n4 = n4
  d1 = d1
  d2 = d2
  t1 = t1
  t2 = t2
  Nodes = {n1, n2}
  Processes = {n1, n2}
  ProcessOf <- OwnProcess
  expectedClient = 2
  Data = {d1, d2}
  RequestedData <- AllRequest
  Topics = {t1, t2}
  Answers <- SomeAnswers
  Configured = {n1, n2}
  PubPort <- OwnPort
  MaxResend = 1
SPECIFICATION FairSpec
PROPERTIES
  RetriesComplete
CHECK_DEADLOCK FALSE
