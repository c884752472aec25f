SPECIFICATION Spec
CONSTANTS
    ann = ann
    bob = bob
    con = con
    c1 = c1
    c2 = c2
    w1 = w1
    w2 = w2
    w3 = w3
    Cases = {c1, c2}
    Workers = {w1, w2}
    Drafters = {ann}
    Publishers = {ann, bob, con}
    Analysts = {ann, bob}
    Consultants = {con}
    None = None
    MaxDecisions = 4
PROPERTY EndsStay
CHECK_DEADLOCK FALSE
