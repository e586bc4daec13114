\* An order of each kind next to a message to skip, up to three deliveries, one
\* swallowed publish error and one lost session, crash or shutdown.  The
\* workload is finite: the system may stop.
SPECIFICATION MCSpec
CONSTANTS
    m1 = m1
    m2 = m2
    Msgs = {m1, m2}
    Deliveries = {1, 2, 3}
    None = None
    MaxAttempts = 2
    MaxFaults = 1
    MaxLosses = 1
CHECK_DEADLOCK FALSE
INVARIANTS
    TypeOK
    ContradictionNeedsRedelivery
PROPERTIES
    ImplementsGateway
    EventuallySettled
