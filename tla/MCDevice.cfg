SPECIFICATION Spec
CONSTANTS
    b1 = b1
    b2 = b2
    q1 = q1
    q2 = q2
    q3 = q3
    None = None
    Boots = {b1, b2}
    Runs = {q1, q2}
    MaxFaults = 2
SYMMETRY Symmetric
INVARIANTS
    TypeOK
    SoloRunReports
    SomeoneRetries
    EnrolledPushes
