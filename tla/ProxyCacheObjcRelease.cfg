CONSTANTS
    Threads = {t1, t2}
    Finalizers = {}
    Tags = {g1}
    i1 = i1
    a1 = a1
    a2 = a2
    Impls = {i1}
    Addrs = {a1}
    AddrOf <- OneAddress
    Proxies = {p1, p2, p3}
    WeakKind = "objc_weak"
    AllocThrows = {}
    None = None
SPECIFICATION Spec
CHECK_DEADLOCK FALSE
INVARIANT NoSelfDeadlock
