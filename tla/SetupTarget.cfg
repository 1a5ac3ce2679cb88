\* setup-schema asked to work on another server than the local one.
SPECIFICATION DeploymentSpec
CONSTANTS
    MaxInFlight = 1
    MaxPending = 2
    t0 = t0
    t1 = t1
    alice = alice
    ka = ka
    nobody = nobody
    local = local
    remote = remote
    zero = zero
    garbage = garbage
    Tenants <- MCTenants
    DefaultTenant = t0
    Users = {alice}
    Keys = {ka}
    UsersFile <- MCUsersFile
    APIKeysFile <- MCAPIKeysFile
    Refused = nobody
    Urls = {local, remote}
    LocalUrl = local
    Zero = zero
    Garbage = garbage
    Deployments <- MCDeployments
INVARIANT
    SchemaWhereAsked
CHECK_DEADLOCK FALSE
