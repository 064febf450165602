CONSTANTS
    Threads = {t1, t2}
    Finalizers = {}
    Tags = {g1}
    i1 = i1
    a1 = a1
    a2 = a2
    Impls = {i1, i2}
    Addrs = {a1}
    AddrOf <- OneAddress
    Proxies = {p1, p2, p3, p4}
    WeakKind = "weak_ptr"
    AllocThrows = {"early"}
    None = None
SPECIFICATION FairSpec
CHECK_DEADLOCK FALSE
INVARIANTS TypeOK OneLiveProxy NoStaleEntry
PROPERTIES LockReleased RefinesIdentity
