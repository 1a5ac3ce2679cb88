CONSTANTS
    Labels = {"name", "job"}
    MetricName = "name"
    LabelValues = {"cpu", "mem", "api", "web"}
    Values = {"low", "high"}
    Tenants = {"t1", "t2"}
    Tenant = "t1"
    Now = 10
    Second = 2
    MsAbove = 1
    Databases <- MCDatabases
    Queries <- MCQueries

SPECIFICATION Spec
INVARIANTS CountedOnce SamplesTrue SupportedAnswered
CHECK_DEADLOCK FALSE
