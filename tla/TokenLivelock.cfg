SPECIFICATION Spec
CONSTANTS
    Workers = {v1, v2}
    Job = job
    None = None
    Deployments <- MCComplete
    Env = {}
    MaxKey = 1
    MaxFaults = 0
PROPERTY NeverLost
