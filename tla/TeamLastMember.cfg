SPECIFICATION Spec
CONSTANTS
    ann = ann
    bob = bob
    w1 = w1
    w2 = w2
    Users = {ann, bob}
    PlatformAdmins = {bob}
    Workers = {w1, w2}
    None = None
    MaxRequests = 2
    MaxFailures = 0
    MaxInvites = 0
INVARIANT LastMemberStays
CHECK_DEADLOCK FALSE
