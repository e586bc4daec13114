\* No errors: may a finished order still be shown as in process?
SPECIFICATION Spec
CONSTANTS
    r1 = r1
    r2 = r2
    r3 = r3
    f1 = f1
    f2 = f2
    i1 = i1
    i2 = i2
    Reqs = {r2, r3}
    Refs = {f1, f2}
    Inquiries = {i1, i2}
    refOf <- PairRef
    inquiryOf <- PairInquiry
    flaw <- PairSound
    None = None
    MaxFaults = 0
    MaxCrashes = 0
CHECK_DEADLOCK FALSE
INVARIANT InProcessIsUnsettled
