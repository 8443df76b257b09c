SPECIFICATION Spec
CONSTANTS
    Slots = {s1, s2}
    MaxJobs = 2
    MetaKeys = {"note"}
    TagKeys = {"tag"}
    Values = {v1, v2}
    Absent = Absent
    SnapNames = {"snap"}
    Created = {"root_authorized_keys"}
    Ops <- SomeOps
    Failures = {"rejected", "lost"}
SYMMETRY Symmetry
CONSTRAINT OnePartAndPower
INVARIANTS TypeOK CreatedKeysStay
PROPERTIES QuietRequestsTakeEffect CreatedSnapshotsExist
CHECK_DEADLOCK FALSE
