\* Inquiries of one client, or the status messages of one payment.  The
\* workload is finite: the system may stop.
SPECIFICATION MCSpec
CONSTANTS
    r1 = r1
    r2 = r2
    r3 = r3
    f1 = f1
    Reqs = {r1, r2, r3}
    refOf <- OneRef
    None = None
    offered = {1}
    Limit = 1
    Window = 1
    Day = 4
    cutStart <- Start
    cutDuration <- Duration
    held <- AllHeld
    MaxVersion = 2
    MaxNow = 4
    MaxFaults = 1
    MaxCrashes = 1
    MaxPayFills = 1
    p1 = p1
    Payments = {p1}
    MaxUpdates = 2
    MaxCallFaults = 1
    MaxDrops = 1
CHECK_DEADLOCK FALSE
INVARIANTS
    AnswersAreRecorded
    PriceNeverReturns
    PartnerKnowsStatus
PROPERTIES
    LimitedIsOverLimit
    CutOffHolds
