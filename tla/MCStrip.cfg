SPECIFICATION Spec
CONSTANTS
    Lengths <- MCLengths
    Speeds <- MCSpeeds
    Orders <- MCOrders
    MaxSegmentData = 8192
INVARIANTS EffectsInBounds UsedIsData SparksDie SegmentsCovered
