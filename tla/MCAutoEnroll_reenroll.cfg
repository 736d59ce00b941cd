SPECIFICATION Spec
CONSTANTS
    r1 = r1
    r2 = r2
    r3 = r3
    c1 = c1
    s1 = s1
    s2 = s2
    k1 = k1
    k2 = k2
    k3 = k3
    NoRow = NoRow
    Reqs = {r1, r2, r3}
    Syncs = {}
    Serials = {s1, s2}
    Keys = {k1, k2, k3}
    Idents = {"conv1", "conv2", "default"}
    Convention = {"conv1", "conv2"}
    Payloads <- MCFleet
    Hosts = {1, 2, 3}
    ServerIP = 1
    PoolSize = 2
    AdminStatuses = {"quarantined"}
SYMMETRY Symmetric
INVARIANTS
    OneActiveToken
PROPERTIES
    TokenHandover
    KeepsPromise
