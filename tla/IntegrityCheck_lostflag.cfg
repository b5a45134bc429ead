SPECIFICATION MCSpec
CONSTANTS
    t1 = t1
    h1 = h1
    Cases = {"all"}
    None = None
    Workers = {w1}
    Copies = {t1}
    Hashes = {h1}
    LastVersion = 1
    MaxAttempts = 1
    Faults = {}
PROPERTIES
    FlagOutlivesDelete
