\* Deployments of every kind, by hand and by the script, two ClickHouse servers
\* that come and go, and any ports taken.
SPECIFICATION DeploymentFairSpec
CONSTANTS
    MaxInFlight = 1
    MaxPending = 2
    t0 = t0
    t1 = t1
    alice = alice
    ka = ka
    nobody = nobody
    local = local
    remote = remote
    zero = zero
    garbage = garbage
    Tenants <- MCTenants
    DefaultTenant = t0
    Users = {alice}
    Keys = {ka}
    UsersFile <- MCUsersFile
    APIKeysFile <- MCAPIKeysFile
    Refused = nobody
    Urls = {local, remote}
    LocalUrl = local
    Zero = zero
    Garbage = garbage
    Deployments <- MCDeployments
INVARIANTS
    SuccessMeansComplete
    KeysUnlessTestMode
    OwnTelemetryTaken
    IngestionDrains
PROPERTIES
    RerunCompletes
    SignalEndsProcess
    TakenPortEndsService
CHECK_DEADLOCK FALSE
