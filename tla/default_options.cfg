\* tests/LaunchNode.cpp, one process for two nodes; the configuration file of one cannot be loaded.
CONSTANTS
  n1 = n1
  n2 = n2
  n3 = n3
  n4 = n4
  d1 = d1
  d2 = d2
  t1 = t1
  t2 = t2
  Nodes = {n1, n2}
  Processes = {n1}
  ProcessOf <- OneProcess
  expectedClient = 2
  Data = {d1, d2}
  RequestedData <- OneDefault
  Topics = {t1, t2}
  Answers <- SomeAnswers
  Configured = {n2}
  PubPort <- OwnPort
  MaxResend = 0
SPECIFICATION FairSpec
PROPERTIES
  DefaultsRegister
CHECK_DEADLOCK FALSE
