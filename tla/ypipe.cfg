CONSTANTS
    end = end
    more = more
    k1 = k1
    k2 = k2
    k3 = k3
    k4 = k4
    none = none
    Items <- MCItems
    Partial <- MCPartial
    Chunks <- MCChunks
    Nothing = none
    N = 2
    MaxItems = 4
SPECIFICATION Spec
INVARIANT ChunksDisjoint
INVARIANT PointersInOrder
PROPERTY ImplementsWakeQueue
