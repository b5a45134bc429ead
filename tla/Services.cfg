SPECIFICATION MCSpec
CONSTANTS
    i1 = i1  i2 = i2  bob = bob  bob2 = bob2  s1 = s1
    r1 = r1  r2 = r2  n1 = n1  d1 = d1  d2 = d2  v1 = v1  v2 = v2
    p1 = p1  p2 = p2  k1 = k1  h1 = h1  l1 = l1  x1 = x1  x2 = x2  g1 = g1  g2 = g2  o1 = o1  o2 = o2
    Scenarios = {"organizations", "logins", "names", "addresses", "notices", "deliveries",
                 "access", "binding", "commits", "migrations", "backfills", "locks"}
    NoUser = NoUser
    Identities = {i1, i2}
    AtGitHub = {i1}
    PlainLogin = {i1, i2}
    Candidates <- MCCandidates
    Reserved = {}
    MaxUsers = 2
    SignIns = {f1, f2}
    LoginSessions = {s1}
    Exchanges = {e1, e2}
    MaxCodes = 2
    MaxKeys = 2
    MaxSyncs = 2
    Orgs = {o1}
    People = {p1}
    Mailboxes = {a1, a2}
    AddressRequests = {r1, r2}
    Notices = {n1}
    MaxCodesMailed = 2
    verificationEmailsPerUserPerDay = 1
    invitationEmailsPerRecipientPerDay = 1
    Blank = Blank
    Deliveries = {d1, d2}
    Attempts = {t1, t2, t3}
    Event <- MCEvent
    NoDelivery = NoDelivery
    MaxCrashes = 1
    Viewers = {v1, v2}
    Reads = {1, 2, 3}
    MaxTime = 2
    repositoryAccessTTL = 1
    repositoryAccessBurst = 1
    repositoryAccessIdle = 0
    repositoryAccessMaxEntries = 1
    repositoryAccessMaxViewers = 1
    NoViewer = NoViewer
    Persons = {p1, p2}
    Collectives = {g1, g2}
    GitHubAccounts = {o1, o2}
    OwnAccount <- MCOwnAccount
    Repositories = {c1}
    InstalledOn <- MCInstalledOn
    MaxVersion = 3
    Creations = {k1}
    Handshakes = {h1}
    Linkings = {l1}
    Refreshes = {x1, x2}
    Unset = Unset
    Servers = {m1, m2}
    Versions = 2
    MaxRestarts = 2
    dictated = dictated  silent = silent  b1 = b1
    Sessions = {dictated, silent}
    Declared <- MCDeclared
    Classified <- MCClassified
    Prompt <- MCPrompt
    NoTitle = NoTitle
    Jobs = {"identity", "origin", "title"}
    JobKind <- MCJobKind
    MaxWrites = 3
    Workers = {"publish", "share", "group", "confirm"}
    Workloads <- MCWorkloads
    PoolSizes = {1, 2}
INVARIANTS EmailHolds AccessBounded ReposHold MaintenanceHolds
PROPERTIES CredentialsHold DeliveriesSettle LocksHold
CHECK_DEADLOCK FALSE
