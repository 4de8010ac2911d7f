\* Two connections, a queue of one, three triggers: a slot comes round again.
CONSTANTS
    PoolSize = 2
    QueueCapacity = 1
    MaxTriggers = 3
SPECIFICATION Spec
INVARIANT NoReuseAfterFailure
PROPERTIES ExecReturns CleanStopReturns
CHECK_DEADLOCK FALSE
