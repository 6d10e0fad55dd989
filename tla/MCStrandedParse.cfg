\* No process is killed and no program raises for a reason of its own: can another
\* session make a parse raise, and leave its enterprise in PARSING with nobody to
\* take it out?
SPECIFICATION Spec
CONSTANTS
    Enterprise = {e1, e2}
    Session = {s1, s2}
    Nobody = Nobody
    Programs = {"ingest_csv", "scrape_batch", "parse_batch", "fanout", "lifecycle_tick"}
    Crashing = FALSE
    Raising = FALSE
    MaxVersion = 4
SYMMETRY Symmetry
INVARIANTS
    ParsingHasWorker
