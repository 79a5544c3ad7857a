SPECIFICATION DeskSpec
CONSTANTS
    None = None
    Off = Off
    a = a
    b = b
    home = home
    work = work
    p1 = p1
    p2 = p2
    Hubs = {home, work}
    Engines = {a, b}
    Processes = {p1, p2}
    Commands <- MCCommands
    Turns = 1
    ann = ann
    ben = ben
    console = console
    anyone = anyone
    x = x
    Torn = Torn
    Crashes = 1
    UnlinkFails = TRUE
    Installers = {1, 2}
    Files <- MCFiles
    SharedFiles = {"claude"}
    Hidden = {"omp"}
    HookEvents = {"Stop", "Prompt"}
    Others = {x}
    Runs = 2
    Edits = 1
    Host = console
    Anyone = anyone
    People = {ann, ben}
    Parties = {ann, ben, console}
    Deployments <- MCDeployments
    Views = {"thread", "inbox"}
    Sids = {1, 2}
    Clicks = 1
    Failures = 1
    friend = friend
    stranger = stranger
    m1 = m1
    m2 = m2
    yes = yes
    no = no
    WakeEngines = {a}
    Hooks <- MCHooks
    News = {m1}
    Wakeful = {a}
    WaitTimeout = 1
    Poll = 1
    SlowPoll = 1
    SettleTime = 1
    HookTimeout = None
    Faults = 0
    Senders = {friend, stranger}
    WakeFrom = {friend}
    MaxPerMinute = 2
    Window = 2
    Horizon = 4
    Adapter = TRUE
    Messages = {m1, m2}
    Bodies = {yes, no}
    Batches <- MCBatches
    BatchCap = 1
    Calls = 3
    Sessions = {a}
    Ids = {1, 2}
    LastInstant = 2
    OneEach = FALSE
    PageSize = 1
    InboxViews = {"summary", "threads", "count", "full"}
    Pages = {p1}
    Depth = 1
    LostAfter = 2
    Lag = 2
CHECK_DEADLOCK FALSE
INVARIANTS
    NoWakeLost
    RateHeld
    RepliedOnce
    PassedWasShown
    WatchersAgree
    OneWriter
    IdentitiesKept
    HooksSurvive
    OneClickOneReply
PROPERTIES
    MailWakes
    LineComesBack
    ChosenHubKept
    CommandsEnd
