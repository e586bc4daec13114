\* A partner's three requests: two with one ref_id, two with one inquiry; one
\* error and one crash.  Every request ends: the system may stop.
SPECIFICATION Spec
CONSTANTS
    r1 = r1
    r2 = r2
    r3 = r3
    f1 = f1
    f2 = f2
    i1 = i1
    i2 = i2
    Reqs = {r1, r2, r3}
    Refs = {f1, f2}
    Inquiries = {i1, i2}
    refOf <- ChainRef
    inquiryOf <- ChainInquiry
    flaw <- OneFlawed
    None = None
    MaxFaults = 1
    MaxCrashes = 1
CHECK_DEADLOCK FALSE
INVARIANTS
    TypeOK
    PublishedIsBacked
    RefusedIsNotPublished
    InProcessIsPublished
    ResaleNeedsRace
    StatusIsOwn
