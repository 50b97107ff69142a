CONSTANTS
    NumHooks = 4
    Levels = {1, 2, 3, 4, 5}
    Calls <- FirmwareCalls
    Drivers <- LpcDrivers
    Phase <- LpcPhase
    Late <- OnUse
    Clients <- TestClients
    Faults <- Stopping
    NUMBER_OF_IRQS = 39
    None = None
SPECIFICATION FairSpec
CHECK_DEADLOCK FALSE
INVARIANTS
    NoStrayInterrupt
    FaultsCaught
PROPERTIES
    ImplementsFwInitSpec
    StartEnds
    OwnHandler
