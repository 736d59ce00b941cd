SPECIFICATION Spec
CONSTANTS
    Beats = {b1, b2, b3}
    Routers = {r1}
    Tokens = {t1, t2}
    Owner <- OneOwner
    AdminStatuses = {"active", "decommissioned", "quarantined"}
    HasInflux = TRUE
    MaxTime = 2
    Never = Never
    Gone = Gone
    b1 = b1
    b2 = b2
    b3 = b3
    r1 = r1
    t1 = t1
    t2 = t2
SYMMETRY Symmetric
INVARIANTS
    TypeOK
    ShutOutLeavesNoTrace
    CommittedIsAcknowledged
PROPERTIES
    SeenGoesBackByOverlapOnly
