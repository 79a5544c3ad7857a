SPECIFICATION FairSpec
CONSTANTS
    everyone = everyone
    ann = ann
    bob = bob
    hub2_bob = hub2_bob
    Everyone = everyone
    None = None
    Names = {ann}
    Groups = {}
    Remotes = {hub2_bob}
    Humans = {}
    Ids = {m1, m2}
    Clients = {c1, c2}
    Sweepers = {loop}
    Retention = 1
    Aims <- ToAnn
CHECK_DEADLOCK FALSE
INVARIANTS
    TurnKeepsItsPlace
PROPERTIES
    PurgeSparesTheRecent
    ThreadsGoWhole
    EveryMessageExpires
