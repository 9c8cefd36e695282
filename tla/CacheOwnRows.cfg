SPECIFICATION Spec
CONSTANTS
    Worker = {w1}
    Matcher <- Single
    Addr = {a1, a2}
    Table = {t1, t2}
    None = None
    MaxVersion = 0
    MaxRefresh = 1
    MaxFailures = 0
    MaxReloads = 2
INVARIANTS OwnRows
