\* kbo_use_tor = FALSE: are the other sites scraped after KBO succeeded?
SPECIFICATION Spec
CONSTANTS
    Enterprise = {e1, e2}
    Site = {"statutes", "bnb"}
    Enabled = {"kbo", "statutes", "bnb"}
    KnownSources = TRUE
    UseTor = FALSE
    TorLoop = FALSE
    WithProfile = FALSE
SYMMETRY Symmetry
CHECK_DEADLOCK FALSE
INVARIANTS
    SkippedOnlyWithoutKbo
