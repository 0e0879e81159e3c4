CONSTANTS
    t1 = t1
    t2 = t2
    Threads = {t1, t2}
    Boot = {framework}
    App = {ours}
    Trampolines = {x1}
    NoThread = NoThread
    NoRecord = NoRecord
    Libraries <- MCLibraries
SPECIFICATION Spec
INVARIANTS RefusesOnlyWithoutExports
SYMMETRY Symmetry
