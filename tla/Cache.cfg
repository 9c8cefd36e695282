SPECIFICATION OnePlacement
CONSTANTS
    Worker = {w1, w2}
    Matcher <- Both
    Addr = {a1, a2}
    Table = {t1}
    None = None
    MaxVersion = 1
    MaxRefresh = 1
    MaxFailures = 1
    MaxReloads = 1
INVARIANTS Fresh LoadedOnce
PROPERTIES RefreshCompletes MatchEnds
