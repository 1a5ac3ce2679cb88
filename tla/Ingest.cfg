\* One export of any kind, sent up to three times, the service killed once.
SPECIFICATION FairSpec
CONSTANTS
    zero = zero
    acme = acme
    beta = beta
    alice = alice
    bob = bob
    carol = carol
    ka = ka
    kb = kb
    kc = kc
    nobody = nobody
    e1 = e1
    Tenants <- MCTenants
    DefaultTenant <- zero
    Users <- MCUsers
    Keys <- MCKeys
    UsersFile <- MCUsersFile
    APIKeysFile <- MCAPIKeysFile
    Refused <- nobody
    Exports <- MCExports
    Requests <- MCRequests
    MaxAttempts = 3
    MaxKills = 1
INVARIANTS
    AckedIsStored
    StoredForEntitled
    PoisonedNeverStored
PROPERTIES
    EveryCallAnswered
    DeliversAtLeastOnce
CHECK_DEADLOCK FALSE
