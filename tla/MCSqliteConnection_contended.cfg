SPECIFICATION Spec
CONSTANTS
    Nobody = Nobody
    mail = mail
    auth = auth
    send = send
    purge = purge
    look = look
    login = login
    Connections = {mail, auth}
    Operations = {send, purge, look, login}
    On <- TwoStores
    Program <- Statements
    Faults = {}
CHECK_DEADLOCK FALSE
INVARIANTS
    DoneIsDurable
