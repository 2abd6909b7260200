CONSTANTS
    s1 = s1
    s2 = s2
    s3 = s3
    Senders <- MCSenders
    PerSender = 2
    NoThread = NoThread
SPECIFICATION Spec
INVARIANT OneWakeUp
INVARIANT NobodyInSend
INVARIANT InOrder
PROPERTY AllReceived
CHECK_DEADLOCK FALSE
