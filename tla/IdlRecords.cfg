CONSTANTS
    Records = {r1, r2, r3, r4}
    Unknown = Unknown
    None = None
SPECIFICATION Spec
CHECK_DEADLOCK FALSE
INVARIANTS InheritsAll
