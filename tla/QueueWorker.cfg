\* Two messages and two workers of one service.  The workload is finite: the
\* system may stop.
SPECIFICATION MCSpec
CONSTANTS
    m1 = m1
    m2 = m2
    w1 = w1
    w2 = w2
    q1 = q1
    Msgs = {m1, m2}
    Workers = {w1, w2}
    queueOf <- OneQueue
    serves <- BothServe
    None = None
    Prefetch = 2
    Limit = 1
    Threshold = 2
    MaxRequests = 1
    MaxLosses = 1
CHECK_DEADLOCK FALSE
INVARIANTS
    TypeOK
    AckedIsDone
    OneSalePerDelivery
    HoldIsFree
PROPERTY EventuallySettled
