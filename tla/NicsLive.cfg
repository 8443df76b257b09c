SPECIFICATION FairSpec
CONSTANTS
    Slots = {s1, s2}
    Vms = {v1}
    Networks = {n1}
    Pools = {p1}
    Members <- PoolMembers
    Usable = {n1}
    Reachable <- AllReachable
    Macs = {m1, m2}
    JobIds = {j1, j2}
    NoMac = NoMac
    Rejecting = {"getVm", "getNetwork", "getNic", "listNics", "listServerNics", "provisionNic", "addNics", "removeNics"}
    Losing = {"addNics"}
    Crashes = FALSE
    Serial = FALSE
PROPERTIES RequestsEnd ProvisioningEnds
CHECK_DEADLOCK FALSE
