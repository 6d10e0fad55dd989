\* The programs that lock rows they have not claimed, in any order, against the
\* claims: every session that starts comes to its end.
SPECIFICATION FairSpec
CONSTANTS
    Enterprise = {e1, e2}
    Session = {s1, s2}
    Nobody = Nobody
    Programs = {"ingest_csv", "scrape_by_source", "parse_batch", "lifecycle_tick"}
    Crashing = FALSE
    Raising = TRUE
    MaxVersion = 4
PROPERTIES
    ProgramsEnd
