\* The four programs, with and without direct connections and health checks.
SPECIFICATION FairSpec
CONSTANTS
    Number = {n1, n2}
    Thread = {t1, t2}
    Proxy = {p1, p2}
    Direct = Direct
    Nothing = Nothing
    Programs = {"sequential", "pool", "statutes", "batch"}
    Jobs = 2
    MaxRetries = 2
INVARIANTS
    TypeOK
    ReportIsTrue
    SuccessAnswersAll
    CaptchaFailsTask
PROPERTIES
    StopsAtBlock
    RequestsRunOut
    TaskEnds
    ImplementsTask
CHECK_DEADLOCK FALSE
