CONSTANTS
    t1 = t1
    t2 = t2
    t3 = t3
    m1 = m1
    e1 = e1
    Threads <- ThreeThreads
    Idle = idle
    Main = t1
    Mutexes <- OneMutex
    Events <- OneEvent
    Semaphores <- AllSemaphores
    MaxEvents = 2
SPECIFICATION FairSpec
INVARIANTS
    TypeOK
    RunQueueExact
    RunsReadyThread
    MutualExclusion
    NoLostWakeup
    BlockedIsWaiting
PROPERTIES
    WokenInOrder
    ReadyThreadRuns
