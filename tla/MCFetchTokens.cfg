SPECIFICATION Spec
CONSTANTS
    Mints = {m1, m2}
    Revokes = {v1}
    Downloads = {d1, d2}
    Labels = {bench}
    Blank = blank
    Prefixes = {pre}
    PrefixOf <- SharedPrefix
    Ttls = {0, 1}
    MaxTime = 2
    NoRow = NoRow
    m1 = m1
    m2 = m2
    v1 = v1
    d1 = d1
    d2 = d2
    d3 = d3
    bench = bench
    blank = blank
    pre = pre
SYMMETRY Symmetric
INVARIANTS
    TypeOK
    HiddenIsDead
    DeadTokenIsDead
    UseIsRecorded
PROPERTY RevokedForGood
