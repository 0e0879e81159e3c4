CONSTANTS
    Methods = {m1, m2}
    Threads = {t1, t2}
    Code = {c1, c2}
    Trampolines = {x1, x2, x3}
    NoThread = NoThread
    NoRecord = NoRecord
    ArtRaces = TRUE
SPECIFICATION Spec
INVARIANTS TypeOK LiveTrampolineIsRecorded DisplacedHookIsNextBelow
SYMMETRY Symmetry
