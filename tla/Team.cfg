SPECIFICATION Spec
CONSTANTS
    ann = ann
    bob = bob
    w1 = w1
    w2 = w2
    Users = {ann, bob}
    PlatformAdmins = {}
    Workers = {w1, w2}
    None = None
    MaxRequests = 3
    MaxFailures = 1
    MaxInvites = 2
INVARIANTS EmptyOnlyAfterOverlap OneInvitationPerAccount NoStandoff
PROPERTIES ChangesAreTrailed AdminsDecide LockedOutIsForever
SYMMETRY Symmetry
CHECK_DEADLOCK FALSE
