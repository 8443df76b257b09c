SPECIFICATION FairSpec
CONSTANTS
    Slots = {s1, s2}
    Configs <- TwoUrls
    Retrying = FALSE
PROPERTIES HungMasterIsRecycled
CHECK_DEADLOCK FALSE
