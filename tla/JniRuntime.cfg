CONSTANTS
    JavaThreads = {j1, j2}
    CppThreads = {c1}
    Errs = {e1, e2}
    Objs = {o1, o2}
    Proxies = {p1}
    NInits = 2
    MaxDepth = 3
    None = None
SPECIFICATION Spec
CHECK_DEADLOCK FALSE
SYMMETRY Symmetry
INVARIANTS TypeOK InitBeforeUse NoCallPending RefsBalanced
PROPERTIES ExceptionArrives
