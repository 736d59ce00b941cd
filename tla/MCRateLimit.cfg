SPECIFICATION Spec
CONSTANTS
    Buckets = {ip, serial}
    Capacity = 5
    Cost = 2
    Rate = 1
    MaxTime = 8
    MaxRestarts = 2
    NoBucket = NoBucket
    ip = ip
    serial = serial
SYMMETRY Symmetric
INVARIANTS
    TypeOK
    BurstBound
    NeverStarved
