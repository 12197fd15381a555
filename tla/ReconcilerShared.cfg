SPECIFICATION Spec
CONSTANTS
    c1 = c1
    c2 = c2
    s1 = s1
    k1 = k1
    k2 = k2
    m1 = m1
    w1 = w1
    None = None
    Clients = {c1, c2}
    Slugs = {s1}
    Secrets = {k1}
    ConfigMaps = {m1}
    Keys = {"a", "b", "c"}
    Workloads = {w1}
    SourceKeys <- MCSourceKeys
    KeysOf <- MCKeysOf
    SpecsOf <- MCShared
    Signed = {}
    MaxConcurrentReconciles = 2
    Env = {"edit", "secretDeleted", "cmFault"}
    MaxVersion = 0
    MaxGeneration = 2
    MaxFaults = 1
INVARIANT ConditionsBacked
PROPERTY NoLostUpdate
