SPECIFICATION MCSpec
CONSTANTS
    t1 = t1
    h1 = h1
    Cases = {"servers", "copies"}
    None = None
    Workers = {w1, w2}
    Copies = {t1, t2}
    Hashes = {h1, h2}
    LastVersion = 2
    MaxAttempts = 2
    Faults = {"crash", "database", "refused", "rollback"}
SYMMETRY WorkerSymmetry
INVARIANTS TypeOK ExclusiveAttempt AttemptsAccounted DoneMeansAnswered ContentGuarded RecordInherited
PROPERTIES AnswersStand
