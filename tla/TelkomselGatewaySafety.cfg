\* One data message, delivered up to twice, with one swallowed error and one
\* lost session, crash or shutdown.  The workload is finite: the system may stop.
SPECIFICATION Spec
CONSTANTS
    Pulsa = {}
    Data = {d1}
    Junk = {}
    Trx = {1, 2}
    None = None
    MaxAttempts = 2
    MaxFaults = 1
    MaxLosses = 1
    MaxCallbacks = 1
CHECK_DEADLOCK FALSE
INVARIANTS
    TypeOK
    FinishIsTrue
    AckedAccounted
PROPERTY ImplementsGateway
