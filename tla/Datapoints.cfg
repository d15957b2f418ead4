CONSTANTS
    Series <- MCSeries
    MetricOf <- MCMetricOf
    Attrs <- MCAttrs
    Source <- MCSource
    AttrNames <- MCAttrNames
    DropAttrs = {"host"}
    Total <- MCTotal
    Value <- MCValue
    Start <- MCStart
    BufferSize = 1
    BatchSize = 2
    CacheSize = 2
    Workers = {w1, w2}
    MaxPoints = 4
    MaxFaults = 1
SYMMETRY MCSymmetry
SPECIFICATION Spec
CHECK_DEADLOCK FALSE
INVARIANT DeltasAddUp
INVARIANT MetricsKnown
