CONSTANTS
    e1 = e1
    e2 = e2
    e3 = e3
    e4 = e4
    l1 = l1
    l2 = l2
    Entries <- FourEntries
    ListNames <- TwoLists
    NULL = NULL
SPECIFICATION Spec
PROPERTIES
    ImplementsListSpec
