SPECIFICATION MCSpec
CONSTANTS
    None = None
    p1 = p1  p2 = p2  p3 = p3  p4 = p4
    c1 = c1  c2 = c2
    w1 = w1  d1 = d1  k1 = k1  r1 = r1
    Publishers = {p1, p2, p3}
    Rewriters = {w1}
    Deleters = {d1}
    Rewrappers = {k1}
    Readers = {r1}
    Contents = {c1, c2}
    Submitted <- MCSubmitted
    Authoritative <- MCAuthoritative
    Faults = {"ambiguous", "connection", "crash", "latePut"}
    Cases = {"writers", "deleted", "rotated", "once", "dying"}
SYMMETRY Traded
INVARIANTS TypeOK ReferencedStored MetadataPaired FingerprintMatches AudienceAccounted PrivateWindow NeverAbsent ServedWasExposed
CHECK_DEADLOCK FALSE
PROPERTIES OnlyNamedLapses ImplementsSession
