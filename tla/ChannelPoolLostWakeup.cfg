\* One request and one lost connection: does its wait end?
SPECIFICATION FairSpec
CONSTANTS
    p1 = p1
    p2 = p2
    Pubs <- OneRequest
    Size = 1
    Attempts = 1
    MaxFaults = 1
    None = None
CHECK_DEADLOCK FALSE
PROPERTY WaitEndsWithReconnect
