CONSTANTS
    Threads = {t1, t2}
    Finalizers = {f1, f2}
    i1 = i1
    a1 = a1
    a2 = a2
    Impls = {i1, i2, i3}
    Addrs = {a1, a2}
    AddrOf <- TwoAddresses
    Proxies = {p1, p2}
    Closeable = {p1}
    Resurrectable = {p1}
    Asserts = FALSE
    None = None
SPECIFICATION FairSpec
CHECK_DEADLOCK FALSE
INVARIANTS TypeOK NoUseAfterFree HandleFreedOnce CacheFresh
PROPERTIES EventuallyFreed
