SPECIFICATION Spec
CONSTANTS
    Slots = {s1, s2}
    Vms = {v1, v2}
    Networks = {n1}
    Pools = {p1}
    Members <- PoolMembers
    Usable = {n1, p1}
    Reachable <- PartlyReachable
    Macs = {m1, m2}
    JobIds = {j1, j2}
    NoMac = NoMac
    Rejecting = {"getVm", "listServerNics", "getNic", "provisionNic", "addNics"}
    Losing = {"removeNics"}
    Crashes = FALSE
    Serial = FALSE

INVARIANTS NoPhantomNic NoSharedMac NoStaleNic
PROPERTIES CreatedIsVisible
CHECK_DEADLOCK FALSE
