\* sources = "kbo,statuts": does finalize_scrape still give the claims back?
SPECIFICATION FairSpec
CONSTANTS
    Enterprise = {e1}
    Site = {"statutes", "bnb"}
    Enabled = {"kbo"}
    KnownSources = FALSE
    UseTor = TRUE
    TorLoop = FALSE
    WithProfile = FALSE
CHECK_DEADLOCK FALSE
PROPERTIES
    ClaimsAreFinalized
