SPECIFICATION CacheSpec
CONSTANTS
    t1 = t1
    t2 = t2
    c1 = c1
    Threads = {t1, t2}
    Caches = {c1}
    CacheOf <- OneCache
    Objects = {o1, o2, o3}
    Null = Null
INVARIANT OneHolder
