CONSTANTS
    Elements <- SmallSteps
    Tolerance = 12
SPECIFICATION CordicSpec
INVARIANTS
    StagesSound
    ConversionsExact
    CosineAccurate
