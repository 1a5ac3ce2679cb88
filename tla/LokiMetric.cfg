\* The metric queries that the documentation lists.
CONSTANTS
    Columns = {"log_level", "service_name"}
    Attributes = {"app"}
    ColumnOfLabel <- MCColumnOfLabel
    Values = {"", "error", "info", "shop", "web", "batch"}
    Bodies = {"refused", "timeout"}
    Tenants = {"t1", "t2"}
    Tenant = "t1"
    Second = 2
    Milli = 2
    MsAbove = 10
    NsAbove = 20
    Overflow = 64
    Now = 16
    DefaultLimit <- MCDefaultLimit
    Databases <- MCDatabases
    Requests <- MCRequests

SPECIFICATION Spec
INVARIANT MetricAnswered
CHECK_DEADLOCK FALSE
