CONSTANTS
    Elements <- LongRange
    Tolerance = 12
SPECIFICATION CordicSpec
INVARIANT
    CosineAccurate
