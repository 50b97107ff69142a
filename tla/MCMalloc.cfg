CONSTANTS
    HeapSize = 18
    Header = 2
    MallocHeader = 1
    Sizes <- TwoSizes
    Freed <- TwoSizes
    MaxLive = 3
SPECIFICATION Spec
INVARIANTS
    BlocksDisjoint
