SPECIFICATION Spec
CONSTANTS
    everyone = everyone
    ann = ann
    bob = bob
    hub2_bob = hub2_bob
    Everyone = everyone
    None = None
    Names = {ann, bob}
    Groups = {bob}
    Remotes = {hub2_bob}
    Humans = {}
    Ids = {m1, m2}
    Clients = {c1}
    Sweepers = {loop}
    Retention = 0
    Aims <- ToBobOrAll
SYMMETRY Symmetry
CHECK_DEADLOCK FALSE
INVARIANTS
    AudienceSettled
    AttachedByParty
    NoForeignParentShown
PROPERTIES
    NothingVanishes
