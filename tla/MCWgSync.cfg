SPECIFICATION Spec
CONSTANTS
    Runs = {p1, p2, p3}
    Temps = {t1, t2, t3}
    MaxTable = 1
    MaxEdits = 2
    None = None
    Part = Part
    p1 = p1
    p2 = p2
    p3 = p3
    t1 = t1
    t2 = t2
    t3 = t3
SYMMETRY Symmetric
INVARIANTS
    TypeOK
    FileWhole
    NoStrayFiles
    BlockSticks
    SoloSyncRepairs
PROPERTIES
    MirrorsTable
