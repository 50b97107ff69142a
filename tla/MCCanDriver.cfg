CONSTANTS
    t1 = t1
    t2 = t2
    t3 = t3
    send_lock = send_lock
    send_done = send_done
    Threads <- ThreeThreads
    Idle = idle
    Semaphores <- BothSemaphores
    SendLock = send_lock
    SendDone = send_done
    NoFrame = none
    Response = response
    MaxRequests = 3
SPECIFICATION FairSpec
INVARIANTS
    LockComesBack
PROPERTIES
    ImplementsCanSpec
    SendReturns
