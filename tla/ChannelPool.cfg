\* Two requests on a pool of one, two faults, a shutdown at any time.  Requests
\* end and the process may exit: the system may stop.
SPECIFICATION FairSpec
CONSTANTS
    p1 = p1
    p2 = p2
    Pubs <- TwoRequests
    Size = 1
    Attempts = 1
    MaxFaults = 2
    None = None
CHECK_DEADLOCK FALSE
INVARIANTS
    TypeOK
    SingleOwner
    SlotsAccounted
    BlockedFillHasStray
    ForgottenIsLate
PROPERTY EventuallyAnswered
