SPECIFICATION FairSpec
CONSTANTS
    Order <- MCOrder
    Runnable = {"DRAFT", "FACT_CHECK", "BRAND_REVIEW", "QUALITY_REVIEW", "READY_FOR_APPROVAL"}
    Attempts = 2
    MaxTexts = 5
    Scales <- MCOneRun
INVARIANT ReadyIsClean
CHECK_DEADLOCK FALSE
