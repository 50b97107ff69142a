CONSTANTS
    loop = loop
    console = console
    i2c_lock = i2c_lock
    i2c_done = i2c_done
    sem = sem
    Threads <- BothThreads
    Idle = idle
    Semaphores <- AllSemaphores
    Loop = loop
    Console = console
    Lock = i2c_lock
    Done = i2c_done
    Sem = sem
    NumPages = 2
    Bytes = {0, 164}
    Stored <- OnceSaved
    defaults <- Defaults
    MaxChanges = 2
    MaxFaults = 1
SPECIFICATION FairSpec
INVARIANTS
    StatusTrue
    BuffersHeld
    SavedAtRest
    CrcIsRemainder
PROPERTIES
    NoTornConfig
    TransferReturns
    SaveEnds
