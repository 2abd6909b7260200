CONSTANTS
    p1 = p1
    p2 = p2
    p3 = p3
    Pipes = {p1, p2}
    Lasting = {p2}
    Parts = 3
    Numbers = 2
SPECIFICATION Spec
INVARIANT AllOrNothing
INVARIANT HalfSentIsCurrent
INVARIANT WritableIsActive
PROPERTY EverybodyIsDealt
