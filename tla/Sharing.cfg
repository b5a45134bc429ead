SPECIFICATION MCSpec
CONSTANTS
    u1 = u1
    u2 = u2
    g1 = g1
    g2 = g2
    t1 = t1
    t2 = t2
    Users = {u1, u2}
    Groups = {g1, g2}
    Handles = {h1}
    Orgs = {o1}
    Transcripts = {t1, t2}
    OwnerOf <- MCOwnerOf
    Modes = {"open", "verified_only", "curated"}
    Exits = {"user_choice", "mandatory"}
    OpenLimit = 1
    InvitesPerDay = 1
    MaxEvents = 3
    Nobody = Nobody
    None = None
    Cases = {"people", "pair", "batch"}
INVARIANTS TypeOK ReadsAgree AudienceEntitled RetractionHolds CreatorStays AnswerIsInvitees
PROPERTIES SubmissionUnderPolicy ConsentToWiden ContributionSpec
CHECK_DEADLOCK FALSE
