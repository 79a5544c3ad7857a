SPECIFICATION Spec
CONSTANTS
    None = None
    a = a
    b = b
    home = home
    work = work
    p1 = p1
    p2 = p2
    Hubs = {home, work}
    Engines = {a, b}
    Processes = {p1, p2}
    Commands <- MCCommands
    Turns = 2
    Crashes = 0
    UnlinkFails = FALSE
PROPERTIES
    RefusalStays
