SPECIFICATION Spec
CONSTANTS
    r1 = r1
    r2 = r2
    p1 = p1
    Slots = {s1, s2}
    RoleIds = {r1, r2}
    Names = {"ops", "administrator"}
    Policies = {p1}
    Uuids = {u1, u2}
    NoUuid = NoUuid
    NoRole = NoRole
    Bodies <- MCBodies
    TagLists <- MCTagLists
    Callers <- MCCallers
    Rejecting = {"getResource", "getRole", "translateGroup", "preloadGroups", "addRole", "modifyRole", "deleteRole", "modifyResource"}
    Losing = {"addRole", "modifyRole", "deleteRole", "modifyResource"}
    Awaits = "end"
SYMMETRY Symmetry
INVARIANTS TypeOK OneEntryPerRole
PROPERTIES UpdatesKeepTags DeletedRolesLoseTags AdministratorGainsNoPolicies
CHECK_DEADLOCK FALSE
