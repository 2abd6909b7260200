\* Three nodes, of which Central expects two and answers in time, and one that ends when it connects.
CONSTANTS
  n1 = n1
  n2 = n2
  n3 = n3
  n4 = n4
  d1 = d1
  d2 = d2
  t1 = t1
  t2 = t2
  Nodes = {n1, n2, n3, n4}
  Processes = {n1, n2, n3, n4}
  ProcessOf <- OwnProcess
  expectedClient = 2
  Data = {d1, d2}
  RequestedData <- AllRequest
  Topics = {t1, t2}
  Answers <- SomeAnswers
  Configured = {n1, n2, n3}
  PubPort <- OwnPort
  MaxResend = 0
SPECIFICATION FairSpec
INVARIANTS
  RequestsComeFromClients
  RequestsAreConfigured
  SubscriptionsAreAnswers
PROPERTIES
  StartUpCompletes
CHECK_DEADLOCK FALSE
