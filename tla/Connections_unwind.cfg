\* The error path of run_benchmark joins the maintenance thread first.
CONSTANTS
    PoolSize = 2
    QueueCapacity = 1
    MaxTriggers = 3
SPECIFICATION Spec
PROPERTY UnwindReturns
CHECK_DEADLOCK FALSE
