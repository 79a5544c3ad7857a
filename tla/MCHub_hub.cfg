SPECIFICATION HubSpec
CONSTANTS
    None = None
    Nobody = Nobody
    Off = Off
    mail = mail
    auth = auth
    send = send
    purge = purge
    look = look
    login = login
    a1 = a1
    b1 = b1
    h = h
    x = x
    y = y
    c1 = c1
    c2 = c2
    m1 = m1
    m2 = m2
    o1 = o1
    s = s
    t1 = t1
    t2 = t2
    r1 = r1
    r2 = r2
    Connections = {mail, auth}
    Operations = {send, purge, look, login}
    On <- TwoStores
    Program <- Statements
    Faults = {"raise", "cancel", "commit"}
    Agents = {a1, b1}
    People = {s}
    Subscribers = {c1, c2}
    Owner <- MCOwner
    Messages = {m1, m2, o1}
    MaxListeners = 1
    QueueDepth = 2
    HubNames = {a1, b1}
    LocalName = a1
    Titles = {s}
    Empty = Off
    Operators = {c1}
    Needs = {m2, o1}
    Environments <- MCEnvironments
    Origins = {o1}
    Exchanges = {m1, m2}
    Shared = Off
    SharedToken <- MCSharedToken
    BoundToken <- MCBoundToken
    Horizon = 1
    Restarts = 1
    Remotes = {x, y}
    MaxRecipients = 3
    Attempts = 2
    Policies <- MCPolicies
    Broken = {"audit_log"}
    Outsiders = {c1}
    Conversations = {m1, m2}
    Minutes = 3
    Settle = 1
    Keeps = TRUE
    Failures = 1
    Everyone = everyone
    Actors = {a1, b1, h}
    Humans = {h}
    Sends <- MCSends
    Minting <- MCMinting
    Readers = {b1}
    Instants = 2
    MaxNest = 1
    Limit = 1
    Records = {m1}
    Recipients = {x}
    Timeout = 1
    Lease = 1
    ClockBound = 0
    Retried <- MCRetried
    Twins <- MCTwins
CHECK_DEADLOCK FALSE
INVARIANTS
    OnlyARollbackLoses
    ToldOnceInOrder
    DecidedAnew
    AdmittedIsKnown
    EveryRecipientAccounted
    HiddenStaysHidden
    ViewsAgree
    OneClaimant
PROPERTIES
    LockHandedBack
    SlotsComeBack
    KeySettles
    RetentionRuns
    KeepsItsPromise
    QueuedGetsAnEnding
