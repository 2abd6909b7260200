CONSTANTS
    p1 = p1
    p2 = p2
    p3 = p3
    Name = Name
    NoPipe = NoPipe
    Pipes <- MCPipes
    Named <- MCNamed
    Closing = {p1}
    Busy = {p3}
    PartsOf <- MCPartsOf
    SendTo = {Name}
    SendParts = 2
    Queue = 1
    Numbers = 2
SPECIFICATION Spec
INVARIANT NoAbort
INVARIANT WholeMessages
INVARIANT OneOwner
INVARIANT NothingForgotten
INVARIANT NothingHalfSent
PROPERTY Delivered
PROPERTY ClosedIsGivenBack
CHECK_DEADLOCK FALSE
