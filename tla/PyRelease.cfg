CONSTANTS
    Threads = {t1}
    PyObjs = {p1, p2}
    CppObjs = {c1}
    Ifaces = {i1}
    None = None
SPECIFICATION Spec
CHECK_DEADLOCK FALSE
PROPERTIES SetEmptied
