SPECIFICATION DeliverySpec
CONSTANTS
    Records = {note}
    Recipients = {bea}
    Mentions = {to}
    Backoff <- BACKOFF
    Timeout = 15
    Lease = 300
    ClockBound = 0
CHECK_DEADLOCK FALSE
INVARIANTS
    LateNotLost
