SPECIFICATION MCFairSpec
CONSTANTS
    None = None
    p1 = p1
    p2 = p2
    p3 = p3
    p4 = p4
    c1 = c1
    c2 = c2
    w1 = w1
    d1 = d1
    k1 = k1
    r1 = r1
    Publishers = {p1, p4}
    Rewriters = {}
    Deleters = {d1}
    Rewrappers = {}
    Readers = {}
    Contents = {c1, c2}
    Submitted <- MCSubmitted
    Authoritative <- MCAuthoritative
    Cases = {"everyone"}
    Faults = {"ambiguous", "crash", "latePut"}
PROPERTIES EveryRequestAnswered
CHECK_DEADLOCK FALSE
