CONSTANTS
    r1 = r1
    r2 = r2
    r3 = r3
    b1 = b1
    b2 = b2
    targetClass = targetClass
    hookClass = hookClass
    Targets = {m}
    Replacements = {r1, r2}
    Backups = {b1, b2}
    NonNative = {}
    NoBackup = NoBackup
    BackupOf <- MCBackupOf
    ClassOf <- MCClassOf
    Threads = {t1, t2}
    Trampolines = {x1, x2, x3, x4}
    NoThread = NoThread
    NoRecord = NoRecord
    MaxNudges = 2
    MaxMade <- MCMaxMadeChain
SPECIFICATION Spec
INVARIANTS NoStandingHookIsBypassed
