\* sources = "statutes,bnb": are the two sites scraped?
SPECIFICATION Spec
CONSTANTS
    Enterprise = {e1, e2}
    Site = {"statutes", "bnb"}
    Enabled = {"statutes", "bnb"}
    KnownSources = TRUE
    UseTor = TRUE
    TorLoop = FALSE
    WithProfile = FALSE
SYMMETRY Symmetry
CHECK_DEADLOCK FALSE
INVARIANTS
    EnabledSiteRuns
