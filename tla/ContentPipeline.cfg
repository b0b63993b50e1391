SPECIFICATION FairSpec
CONSTANTS
    Order <- MCOrder
    Runnable = {"DRAFT", "FACT_CHECK", "BRAND_REVIEW", "QUALITY_REVIEW", "READY_FOR_APPROVAL",
                "REJECTED"}
    Attempts = 2
    MaxTexts = 5
    Scales <- MCAll
INVARIANTS
    ApprovedIsSeen
    ClaimsSeen
    GateHolds
    DoneOnce
PROPERTIES
    RunningEnds
CHECK_DEADLOCK FALSE
