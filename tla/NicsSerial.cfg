SPECIFICATION Spec
CONSTANTS
    Slots = {s1, s2}
    Vms = {v1}
    Networks = {n1, n2}
    Pools = {}
    Members <- PoolMembers
    Usable = {n1, n2}
    Reachable <- AllReachable
    Macs = {m1, m2}
    JobIds = {j1, j2}
    NoMac = NoMac
    Rejecting = {"getVm", "listNics", "provisionNic", "deleteNic", "addNics", "removeNics"}
    Losing = {"provisionNic", "deleteNic", "removeNics"}
    Crashes = TRUE
    Serial = TRUE
INVARIANTS TypeOK OneNicPerNetwork
PROPERTIES LedgerSpec
CHECK_DEADLOCK FALSE
