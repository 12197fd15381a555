SPECIFICATION Spec
CONSTANTS
    Workers = {v1, v2}
    Job = job
    None = None
    Deployments <- MCTypical
    Env = {"outage", "slow", "crash", "kubeFault", "deleted"}
    MaxKey = 1
    MaxFaults = 1
INVARIANTS TypeOK Recreating
PROPERTIES EventuallyServed SecretIsRead
