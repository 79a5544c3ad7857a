SPECIFICATION Spec
CONSTANTS
    None = None
    admin = admin
    bob = bob
    b_ob = b_ob
    Admin = admin
    People = {bob}
    Legacy = {b_ob}
    Usable <- Renamed
    Offers = {o1}
    Clients = {c1, c2}
    Override = TRUE
CHECK_DEADLOCK FALSE
INVARIANTS
    SomebodyCanSignIn
