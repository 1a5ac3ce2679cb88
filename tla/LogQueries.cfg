\* Log, metric and scalar queries as instant and range queries, and the lists
\* of labels and values, on every set of at most three of six lines.
CONSTANTS
    Columns = {"log_level", "service_name"}
    Attributes = {"app"}
    ColumnOfLabel <- MCColumnOfLabel
    Values = {"", "error", "info", "shop", "web", "batch"}
    Bodies = {"refused", "timeout"}
    Tenants = {"t1", "t2"}
    Tenant = "t1"
    Second = 2
    Milli = 2
    MsAbove = 10
    NsAbove = 20
    Overflow = 64
    Now = 16
    DefaultLimit <- MCDefaultLimit
    Databases <- MCDatabases
    Requests <- MCRequests

SPECIFICATION Spec
INVARIANTS LinesAsAsked CompleteUpToLimit ListedValuesFind SupportedAnswered
CHECK_DEADLOCK FALSE
