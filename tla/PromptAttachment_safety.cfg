SPECIFICATION Spec
CONSTANTS
    None = None
    Requests = {r1, r2, r3, r4}
    Transcripts = {t1, t2}
    Kinds <- AllKinds
    Faults = {"github", "stop"}
SYMMETRY Symmetry
CONSTRAINT Bounded
INVARIANTS TypeOK ListingCurrent OneComment QuotedByConsent
PROPERTIES OnlyAllowedMoves
