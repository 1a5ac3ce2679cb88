\* One request, every pipeline of MCQueries, all six batches in any order.
SPECIFICATION FairSpec
CONSTANTS
    acme = acme
    beta = beta
    r1 = r1
    t1 = t1
    t2 = t2
    none = none
    slow = slow
    fast = fast
    Tenants <- MCTenants
    Marks <- MCMarks
    Requests <- MCRequests
    TenantOf <- MCTenantOf
    Queries <- MCQueries
    Traces <- MCTraces
    NoTrace <- none
    Rows <- MCRows
    Batches <- MCBatches
    FreeAnswers <- MCFreeAnswers
INVARIANTS
    TenantIsolation
    ConditionsHonoured
    
    
    CorrelateComplete
    SupportedAnswered
PROPERTIES
    EveryRequestAnswered
    KeepsPromise
