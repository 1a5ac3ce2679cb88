\* A limit on spans without a sort, as the README shows it.
SPECIFICATION Spec
CONSTANTS
    acme = acme
    beta = beta
    r1 = r1
    t1 = t1
    t2 = t2
    none = none
    slow = slow
    fast = fast
    Tenants <- MCTenants
    Marks <- MCMarks
    Requests <- MCRequests
    TenantOf <- MCTenantOf
    Queries <- LimitQueries
    Traces <- MCTraces
    NoTrace <- none
    Rows <- MCRows
    Batches <- MCBatches
    FreeAnswers <- MCFreeAnswers
INVARIANT
    ApiAnswersDocumented
