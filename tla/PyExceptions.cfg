CONSTANTS
    Threads = {t1, t2}
    Keepers = {t2}
    Dels = {t2}
    Errs = {e1, e2}
    Handles = {h1, h2}
    Objs = {o1, o2}
    Kinds = {"prim", "iface", "data"}
    MaxDepth = 3
    AssertionError = AssertionError
    None = None
SPECIFICATION Spec
CHECK_DEADLOCK FALSE
SYMMETRY Symmetry
INVARIANTS TypeOK PendingInTransit HandleOwned
PROPERTIES ExceptionArrives
