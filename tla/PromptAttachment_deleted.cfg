SPECIFICATION Spec
CONSTANTS
    None = None
    Requests = {r1, r2}
    Transcripts = {t1, t2}
    Kinds <- AllKinds
    Faults = {}
SYMMETRY Symmetry
INVARIANTS
    DigestNamesLive
