SPECIFICATION Spec
CONSTANTS
    Workers = {v1}
    Job = job
    None = None
    Deployments <- MCShipped
    Env = {}
    MaxKey = 1
    MaxFaults = 0
PROPERTY NeverLost
