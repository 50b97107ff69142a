CONSTANTS
    loop = loop
    sem = sem
    Threads <- OneThread
    Idle = idle
    Semaphores <- OneSemaphore
    Loop = loop
    Sem = sem
    node_id = 5
    NumOutputs = 2
    NumSources = 2
    Conf <- TwoConf
    Readings <- TwoReadings
    MaxPosts = 2
SPECIFICATION Spec
INVARIANTS
    NoRequestLost
    OutputsFollow
    AnswersTrue
