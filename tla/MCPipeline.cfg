\* All programs, two sessions, two enterprises: claims against every program that
\* moves unclaimed rows; processes may be killed and programs may raise.
SPECIFICATION Spec
CONSTANTS
    Enterprise = {e1, e2}
    Session = {s1, s2}
    Nobody = Nobody
    Programs = {"ingest_csv", "scrape_batch", "scrape_by_source", "parse_batch",
                "force_scrape", "force_parse", "lifecycle_tick", "fanout"}
    Crashing = TRUE
    Raising = TRUE
    MaxVersion = 6
SYMMETRY Symmetry
INVARIANTS
    TypeOK
    ClaimExclusive
    HeldIsBusy
    StructuredHasEvidence
    IInv
PROPERTIES
    VersionGrows
    ImplementsLifecycle
    OnlyItsWorkerStrands
