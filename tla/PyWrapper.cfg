CONSTANTS
    Threads = {t1, t2}
    PyObjs = {x1}
    CppObjs = {o1}
    Handles = {h1, h2}
    Wrappers = {w1, w2}
    CppProxies = {p1, p2}
    MaxLost = 1
    None = None
SPECIFICATION FairSpec
INVARIANTS TypeOK RefsCounted HandlesHeld RightObject
PROPERTIES ProxyFaithful WrapperFreed
