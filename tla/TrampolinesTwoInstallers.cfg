CONSTANTS
    Threads = {t1, t2}
    Targets = {m1, m2}
    SizeOf <- X86SizeOf
    PageSize = 40
    MaxPages = 2
SPECIFICATION Spec
INVARIANTS ThunkIsIntact
