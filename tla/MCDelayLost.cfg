CONSTANTS
    t1 = t1
    t2 = t2
    t3 = t3
    sem = sem
    client = client
    Clock = 12000
    kMaxLoadValue = 30
    Word = 1048576
    Threads <- ThreeThreads
    Idle = idle
    Semaphores <- OneSemaphore
    Loop = t1
    Sem = sem
    Clients <- OneClient
    Times <- UpToTwo
    Interval = 3
    MaxPosts = 3
SPECIFICATION Spec
INVARIANTS
    WokenIsQueued
