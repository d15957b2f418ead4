SPECIFICATION Spec
CONSTANTS
    Queries <- MCQueries
    MetricMap <- MCMetricMap
    AttrValues = {"h1", "h2", "h3"}
    Rows <- MCRows
    MaxRows = 2
    TimeFilters <- MCTimeFilters
    Intervals <- MCIntervals
    NumberOf <- MCNumberOf
INVARIANTS
    LinearExact
    
    SeriesAligned
PROPERTIES
    ColumnsStable
CHECK_DEADLOCK FALSE
