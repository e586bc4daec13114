\* An order for a token and a message to skip, up to three deliveries, one
\* swallowed error and one lost session, crash or shutdown.  The workload is
\* finite: the system may stop.
SPECIFICATION FairSpec
CONSTANTS
    Orders = {o1}
    Junk = {j1}
    Deliveries = {1, 2, 3}
    None = None
    MaxAttempts = 2
    MaxFaults = 1
    MaxLosses = 1
CHECK_DEADLOCK FALSE
INVARIANTS
    TypeOK
    OneWorker
PROPERTIES
    ImplementsGateway
    EventuallySettled
