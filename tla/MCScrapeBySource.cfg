\* Two numbers, KBO over Tor with both its pages, and two more sites.
SPECIFICATION FairSpec
CONSTANTS
    Enterprise = {e1, e2}
    Site = {"statutes", "bnb"}
    Enabled = {"kbo", "statutes"}
    KnownSources = TRUE
    UseTor = TRUE
    TorLoop = FALSE
    WithProfile = TRUE
\* The run of a DAG ends.
CHECK_DEADLOCK FALSE
INVARIANTS
    TypeOK
    SitesAfterKbo
    StatutesStoredOnce
    SuccessIsKept
PROPERTIES
    ClaimsAreFinalized
