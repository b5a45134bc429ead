SPECIFICATION MCFairSpec
CONSTANTS
    t1 = t1
    h1 = h1
    Cases = {"all"}
    None = None
    Workers = {w1, w2}
    Copies = {t1}
    Hashes = {h1}
    LastVersion = 2
    MaxAttempts = 2
    Faults = {}
PROPERTIES
    EventuallyFinished
