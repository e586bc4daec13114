\* One order with a loss, two orders without, one without a database, or one
\* in the hands of a goroutine that lost its connection.
\* The workload is finite: the system may stop.
SPECIFICATION MCSpec
CONSTANTS
    o1 = o1
    o2 = o2
    q1 = q1
    q2 = q2
    Orders = {o1, o2}
    Queues = {q1, q2}
    queueOf <- TwoQueues
    Sessions = {1, 2, 3}
    None = None
    MaxRetries = 2
    MaxTells = 2
    MaxFaults = 3
    MaxLosses = 2
CHECK_DEADLOCK FALSE
INVARIANTS
    TypeOK
    SoldBeforeForwarded
    Accounted
PROPERTIES
    OnlyOrphansOvertake
    EventuallyDrained
