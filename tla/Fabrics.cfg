SPECIFICATION Spec
CONSTANTS
    Slots = {s1, s2, s3}
    Fabric = {f1, f2, f3}
    Shared = {p1}
SYMMETRY Symmetry
INVARIANTS TypeOK DefaultNetworkExists
CHECK_DEADLOCK FALSE
