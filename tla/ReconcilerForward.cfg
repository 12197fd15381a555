SPECIFICATION Spec
CONSTANTS
    c1 = c1
    c2 = c2
    s1 = s1
    k1 = k1
    k2 = k2
    m1 = m1
    w1 = w1
    None = None
    Clients = {c1}
    Slugs = {s1}
    Secrets = {k1, k2}
    ConfigMaps = {m1}
    Keys = {"a", "b"}
    Workloads = {w1}
    SourceKeys <- MCSourceKeys
    KeysOf <- MCKeysOf
    SpecsOf <- MCForward
    Signed <- MCFirstSigned
    MaxConcurrentReconciles = 1
    Env = {"edit", "rotate", "delete", "crash", "tokenFault", "fetchFault", "applyFault", "cmFault", "rolloutFault", "statusFault"}
    MaxVersion = 1
    MaxGeneration = 3
    MaxFaults = 2
INVARIANTS InOrder OutcomesInOrder StatusNeverAhead ConditionsBacked
PROPERTIES Implements SecretNeverBackward EventuallySynced EventuallyRolledOut  EventuallyQuiet
