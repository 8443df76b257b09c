SPECIFICATION FairSpec
CONSTANTS
    Slots = {s1, s2}
    Configs <- MCConfigs
    Retrying = TRUE
INVARIANTS TypeOK ClosedOnce UfdsConfigPrevails
PROPERTIES ConnectionLossIsSurvived CallsOnLocalEnd
CHECK_DEADLOCK FALSE
