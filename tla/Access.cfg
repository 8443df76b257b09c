SPECIFICATION FairSpec
CONSTANTS
    acct = acct
    root = root
    u1 = u1
    ops = ops
    Slots = {s1}
    Accounts = {acct}
    Admins = {root}
    Users = {u1}
    Owner = acct
    Roles = {ops}
    Initial <- MCInitial
    Requests <- MCRequests
    ReadOnly = FALSE
    HasMahi = TRUE
    MaxLog = 3
INVARIANTS TypeOK OwnAccountOnly AcceptedOnEvidence
PROPERTIES DecidedAsGranted DeletionsTakeEffect
