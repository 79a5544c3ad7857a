SPECIFICATION Spec
CONSTANTS
    None = None
    admin = admin
    bob = bob
    b_ob = b_ob
    Admin = admin
    People = {bob}
    Legacy = {b_ob}
    Usable <- Renamed
    Offers = {o1}
    Clients = {c1, c2}
    Override = TRUE
SYMMETRY Symmetry
CHECK_DEADLOCK FALSE
INVARIANTS
    ActiveHasAuthenticator
    CodeAdmitsOnce
    HumanHasMailbox
PROPERTIES
    RemovedStaysGone
    RenameLosesNobody
