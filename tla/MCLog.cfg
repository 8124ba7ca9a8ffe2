SPECIFICATION Spec
CONSTANTS
    Threads = {t1, t2}
    Files = {f1, f2}
    Messages = {m1, m2, m3}
    None = None
    MAX_SETS = 2
    MAX_CRASHES = 2
SYMMETRY Symmetric
INVARIANTS
    TypeOK
    ConsoleLinesWhole
    FileLinesWhole
    ReturnedIsOnDisk
PROPERTIES
    ImplementsLineLog
