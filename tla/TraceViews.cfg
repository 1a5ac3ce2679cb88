CONSTANTS
    Traces = {"t1", "t2"}
    Services = {"shop", "bank"}
    Nothing = Nothing
    Tenants = {"acme", "rival"}
    Tenant = "acme"
    Milli = 2
    Batches <- MCBatches
    Copies <- MCCopies
    Searches <- MCSearches
    Lists <- MCLists
    TagLimit = 2
    Requests = 2

SPECIFICATION Spec
INVARIANTS FoundOpens ListedValuesFind SummaryWithin TraceIsTrue OutlineReads
PROPERTIES NeverForgets
CHECK_DEADLOCK FALSE
