CONSTANTS
    Threads = {t1, t2}
    Finalizers = {}
    Tags = {g1, g2}
    i1 = i1
    a1 = a1
    a2 = a2
    Impls = {i1, i2, i3}
    Addrs = {a1, a2}
    AddrOf <- TwoAddresses
    Proxies = {p1, p2, p3}
    WeakKind = "objc_weak"
    AllocThrows = {"late"}
    None = None
SPECIFICATION Spec
CHECK_DEADLOCK FALSE
SYMMETRY Symmetry
INVARIANTS RightProxy LiveProxyIsCached
