\* One message of any kind with a lost session, crash or shutdown, or
\* all three kinds sharing the prefetch window of one.
SPECIFICATION MCSpec
CONSTANTS
    Pulsa = {p1}
    Data = {d1}
    Junk = {j1}
    Trx = {1, 2, 3}
    None = None
    MaxAttempts = 1
    MaxFaults = 0
    MaxLosses = 1
    MaxCallbacks = 1
CHECK_DEADLOCK FALSE
PROPERTY EventuallySettled
