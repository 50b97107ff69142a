CONSTANTS
    HeapSize = 18
    Header = 2
    MallocHeader = 1
    Sizes <- TwoSizes
    Freed <- OneSize
    MaxLive = 5
SPECIFICATION Spec
INVARIANTS
    LiveDisjoint
