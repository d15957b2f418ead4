CONSTANTS
    Servers <- MCServers
    Operator = "operator"
    Latest = 2
    Known <- MCKnown
    MaxRetries = 1
    MaxCommands = 2
    MaxFaults = 2
    Syncers <- MCServers
    User = "user"
    Templates <- MCTemplates
    TableMetrics <- MCTableMetrics
    Gauges <- MCGauges
    Columns <- MCColumns
    PartMetrics <- MCPartMetrics
    MonitorMetrics <- MCMonitorMetrics
    MaxEdits = 2
SPECIFICATION Spec
CONSTRAINT MCPhases
CHECK_DEADLOCK FALSE
INVARIANT UpOnce
INVARIANT MonitorsOnce
PROPERTY LogImplemented
PROPERTY EditsKept
