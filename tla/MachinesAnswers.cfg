SPECIFICATION Spec
CONSTANTS
    Slots = {s1, s2}
    MaxJobs = 1
    MetaKeys = {}
    TagKeys = {}
    Values = {}
    Absent = Absent
    SnapNames = {}
    Created = {}
    Ops = {"delete", "start", "stop"}
    Failures = {}
INVARIANT OneAnswer
CHECK_DEADLOCK FALSE
