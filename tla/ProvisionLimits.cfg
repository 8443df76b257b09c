SPECIFICATION Spec
CONSTANTS
    base = base
    newer = newer
    node = node
    windows = windows
    small = small
    large = large
    Images = {base, newer, node, windows}
    Packages = {small, large}
    NameOf <- MCNameOf
    OsOf <- MCOsOf
    Ram <- MCRam
    Quota <- MCQuota
    Defaults <- MCDefaults
    Custom <- MCCustom
    Legacy <- MCLegacy
    CapiDefaults <- MCCapiDefaults
    Offered <- MCOffered
    Fitting <- MCFitting
    Slots = {s1, s2}
    VmIds = {v1, v2, v3}
    FreePackages = {small}
    Eligible = TRUE
    IsAdmin = FALSE
    Plugins = {"provision_limits", "capi_limits", "jpc_free_tier"}
    Rejecting = {"load", "listLimits", "countVms", "listKeys", "createVm", "getVm"}
    Losing = {"createVm"}
    Kvm = {windows}
    Lag = "short"
SYMMETRY Symmetry
INVARIANTS TypeOK   
PROPERTIES RefusalsAreDue
CHECK_DEADLOCK FALSE
