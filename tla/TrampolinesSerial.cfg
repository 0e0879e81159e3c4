CONSTANTS
    Threads = {t1}
    Targets = {m1, m2}
    SizeOf <- X86SizeOf
    PageSize = 40
    MaxPages = 2
SPECIFICATION Spec
INVARIANTS PageTypeOK ThunkIsIntact SlotFitsItsPage QuietThunkIsExecutable
