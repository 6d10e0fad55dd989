----------------------------- MODULE SourceTask ------------------------------
(***************************************************************************)
(* One task that scrapes numbers without Tor lanes (KboTorLanes has the    *)
(* other): _process_job with its attempts, fetch, validate_fetch, the      *)
(* proxy pool with its health-check thread, and the four ways the code     *)
(* goes through the numbers:                                               *)
(*   "sequential"  scrape_source_for_enterprises with one request at a time *)
(*   "pool"        the same with a ThreadPoolExecutor                      *)
(*   "statutes"    _scrape_statutes_direct_passes                          *)
(*   "batch"       scrape_batch and scrape_enterprise                      *)
(* What ScrapeBySource takes as one step, a number that succeeds, fails or *)
(* stops the task, is decided here.                                        *)
(*                                                                         *)
(* A proxy's weight is left out: it only biases the choice, and the code   *)
(* that is called keeps it positive (ban_proxy_label and                   *)
(* prepare_proxy_pool have no caller).  Delays and metrics are left out.   *)
(***************************************************************************)
EXTENDS Naturals, FiniteSets

CONSTANTS
    Number,         \* the enterprise numbers of the task
    Thread,         \* the threads of the executor; one is used when sequential
    Proxy,          \* the entries of the proxy pool
    Direct,         \* no proxy: the connection of the host itself
    Nothing,        \* no number
    Programs,       \* those of the four that may be run
    Jobs,           \* the pages build_urls names for a number; statutes have one
    MaxRetries      \* ACQUISITION_MAX_RETRIES

ASSUME DirectAssumption == Direct \notin Proxy
ASSUME NothingAssumption == Nothing \notin Number
ASSUME ProgramsAssumption ==
    Programs # {} /\ Programs \subseteq {"sequential", "pool", "statutes", "batch"}
ASSUME JobsAssumption == Jobs \in Nat \ {0}
ASSUME MaxRetriesAssumption == MaxRetries \in Nat \ {0}

VARIABLES
    program,        \* the program that runs
    allowDirect,    \* ACQUISITION_ALLOW_DIRECT
    existing,       \* the numbers whose page an earlier run has stored
    healthy,        \* the proxies pick may return
    check,          \* the proxies the health-check thread has yet to write
    task,           \* the state of the task
    todo,           \* the numbers nobody has taken
    thread,         \* the request each thread is at
    stored,         \* the pages stored by this task
    outcome,        \* what is known of each number
    blocked         \* a captcha has been met

pool == <<healthy, check>>
requests == <<todo, thread, stored>>
fixed == <<program, allowDirect, existing>>
vars == <<fixed, pool, task, todo, thread, stored, outcome, blocked>>

JobsOf(prog) == IF prog = "statutes" THEN 1 ELSE Jobs
AllJobs(n) == {<<n, j>> : j \in 1 .. JobsOf(program)}

\* A thread between two numbers; job_ok of _scrape_one_enterprise_for_source is ok.
Idle == [at |-> "idle", number |-> Nothing, job |-> 1, attempt |-> 1, via |-> Direct, ok |-> TRUE]

Outcome == {"none", "ok", "failed", "already_stored", "captcha", "worker_error"}

TypeOK ==
    /\ program \in Programs
    /\ allowDirect \in BOOLEAN
    /\ existing \subseteq Number
    /\ healthy \subseteq Proxy
    /\ check \subseteq Proxy
    /\ task \in {"running", "success", "failed"}
    /\ todo \subseteq Number
    /\ thread \in [Thread -> [at : {"idle", "picking", "requesting"},
                              number : Number \cup {Nothing}, job : 1 .. Jobs,
                              attempt : 1 .. MaxRetries, via : Proxy \cup {Direct},
                              ok : BOOLEAN]]
    /\ stored \subseteq Number \X (1 .. Jobs)
    /\ outcome \in [Number -> Outcome]
    /\ blocked \in BOOLEAN

\* from_config: every entry starts healthy; the check may be switched on.
Init ==
    /\ program \in Programs
    /\ allowDirect \in BOOLEAN
    /\ existing \in SUBSET Number
    /\ program # "statutes" => existing = {}
    /\ healthy = Proxy
    /\ check \in {{}, Proxy}
    /\ task = "running"
    /\ todo = Number
    /\ thread = [t \in Thread |-> Idle]
    /\ stored = {}
    /\ outcome = [n \in Number |-> "none"]
    /\ blocked = FALSE

------------------------------------------------------------------------------
(* validate_fetch.                                                         *)

\* What a request brings: an error has status 0; a body is told apart by what the
\* checks find in it.  "denied" passes validate_fetch and is refused by the store.
Response ==
    {[status |-> s, body |-> "empty"] : s \in {0, 301, 403, 404, 410, 429, 503}} \cup
    {[status |-> 200, body |-> b] :
        b \in {"empty", "foreign", "captcha", "short", "marker", "denied", "page"}}

Verdict(action, reason) == [action |-> action, reason |-> reason]

Decision(r) ==
    CASE r.status = 0 -> Verdict("RETRY", "FETCH_ERROR")
      [] r.status = 404 -> Verdict("DROP", "HTTP_404")
      [] r.status = 403 -> Verdict("RETRY", "CAPTCHA_SUSPECT")
      [] r.status = 429 -> Verdict("RETRY", "HTTP_4XX")
      [] r.status \in 400 .. 499 \ {403, 404, 429} -> Verdict("DROP", "HTTP_4XX")
      [] r.status >= 500 -> Verdict("RETRY", "HTTP_5XX")
      [] r.status \in 300 .. 399 -> Verdict("DROP", "HTTP_OTHER")
      [] r.status = 200 /\ r.body \in {"empty", "short"} -> Verdict("RETRY", "EMPTY_BODY")
      [] r.status = 200 /\ r.body = "foreign" -> Verdict("DROP", "CONTENT_TYPE_MISMATCH")
      [] r.status = 200 /\ r.body = "captcha" -> Verdict("RETRY", "CAPTCHA_SUSPECT")
      [] r.status = 200 /\ r.body = "marker" -> Verdict("DROP", "HTML_ERROR_MARKER")
      [] OTHER -> Verdict("STORE", "HTTP_2XX")

\* is_tor_escalation_reason.
Escalates(reason) == reason \in {"CAPTCHA_SUSPECT", "HTTP_4XX"}

------------------------------------------------------------------------------
(* The proxy pool.                                                         *)

\* The health-check thread writes a proxy without the pool's lock, once, whatever the
\* jobs have found out about it in the meantime: an answer older than a failure brings the
\* proxy back.
HealthCheck(p) ==
    /\ p \in check
    /\ check' = check \ {p}
    /\ healthy' \in {healthy \cup {p}, healthy \ {p}}
    /\ UNCHANGED <<fixed, task, todo, thread, stored, outcome, blocked>>

\* record_failure takes a proxy out of the pool, record_success puts none in.
HealthyAfter(p, r) == IF r.status = 0 THEN healthy \ {p} ELSE healthy

------------------------------------------------------------------------------
(* The loops over the numbers.                                             *)

Busy == {t \in Thread : thread[t].at # "idle"}

\* Only an executor works on several numbers.
MayTake(t) == thread[t].at = "idle" /\ (program # "pool" => Busy = {})

Take(t, n) ==
    /\ task = "running"
    /\ MayTake(t)
    /\ n \in todo
    /\ todo' = todo \ {n}
    /\ IF n \in existing
       THEN /\ outcome' = [outcome EXCEPT ![n] = "already_stored"]
            /\ UNCHANGED thread
       ELSE /\ thread' = [thread EXCEPT ![t] = [Idle EXCEPT !.at = "picking", !.number = n]]
            /\ UNCHANGED outcome
    /\ UNCHANGED <<fixed, pool, task, stored, blocked>>

\* Deviation: an attempt that meets an error is not counted.
Uncounted(t, r) == IF r.status = 0 THEN thread[t].attempt ELSE thread[t].attempt + 1

NextAttempt(t, r) == thread[t].attempt + 1

Retry(t, r) ==
    thread' = [thread EXCEPT ![t].at = "picking", ![t].attempt = NextAttempt(t, r),
                             ![t].via = Direct]

\* Deviation: the outcome of a number is that of its last page.
LastJobOk(t, ok) == ok

\* job_ok.
AllOk(t, ok) == thread[t].ok /\ ok

\* The page is settled: the next one of the number is begun, or the number is settled.
\* A reason to escalate stops the task of the statutes, with success.
EndJob(t, ok, reason) ==
    LET n == thread[t].number
        more == thread[t].job < JobsOf(program)
    IN /\ thread' = [thread EXCEPT ![t] =
                        IF more THEN [Idle EXCEPT !.at = "picking", !.number = n,
                                                  !.job = thread[t].job + 1,
                                                  !.ok = AllOk(t, ok)]
                        ELSE Idle]
       /\ outcome' = IF more THEN outcome
                     ELSE [outcome EXCEPT ![n] = IF AllOk(t, ok) THEN "ok" ELSE "failed"]
       /\ task' = IF program = "statutes" /\ Escalates(reason) THEN "success" ELSE task

\* Deviations: the sequential loops keep an exception for its number and go on, or
\* leave the loop and report what they have.
GoesOn == task
LeavesQuietly == IF program \in {"sequential", "statutes"} THEN "success" ELSE task

\* Where an exception that leaves _process_job ends: scrape_enterprise and the
\* executor's loop keep it for its number, the sequential loops do not catch it.
AfterError == IF program \in {"sequential", "statutes"} THEN "failed" ELSE task

\* Deviation: the executor's loop keeps every error for its number, a captcha too.
KeptInPool(error) ==
    CASE program = "batch" -> "failed" [] program = "pool" -> "worker_error" [] OTHER -> error

\* What is known of a number whose request has raised.
Kept(error) == IF program = "batch" THEN "failed" ELSE error

Raise(t, error) ==
    /\ thread' = [thread EXCEPT ![t] = Idle]
    /\ outcome' = [outcome EXCEPT ![thread[t].number] = Kept(error)]
    /\ task' = AfterError

------------------------------------------------------------------------------
(* _process_job.                                                           *)

\* What pick may return; without a proxy the host itself asks, if it may.
Exits ==
    IF program = "statutes" \/ (healthy = {} /\ allowDirect) THEN {Direct} ELSE healthy

Pick(t) ==
    /\ thread[t].at = "picking"
    /\ \E p \in Exits : thread' = [thread EXCEPT ![t].at = "requesting", ![t].via = p]
    /\ UNCHANGED <<fixed, pool, task, todo, stored, outcome, blocked>>

\* Deviation: the loop makes an attempt too many.
OneMoreLeft(t, r) == NextAttempt(t, r) <= MaxRetries + 1

AttemptsLeft(t, r) == NextAttempt(t, r) <= MaxRetries

\* RETRY, as long as attempts are left.
Again(t, r, reason) ==
    IF AttemptsLeft(t, r)
    THEN Retry(t, r) /\ UNCHANGED <<task, outcome>>
    ELSE EndJob(t, FALSE, reason)

\* no_proxy_available: the attempt counts without a request.
NoProxy(t) ==
    /\ thread[t].at = "picking"
    /\ Exits = {}
    /\ Again(t, [status |-> 0, body |-> "empty"], "FETCH_ERROR")
    /\ UNCHANGED <<fixed, pool, todo, stored, blocked>>

\* A page that passes is stored; store_raw_bundle may raise, before or after the row is
\* there (module RawStore).
Store(t, r, reason) ==
    LET page == <<thread[t].number, thread[t].job>>
    IN \/ /\ r.body # "denied"
          /\ stored' = stored \cup {page}
          /\ EndJob(t, TRUE, reason)
       \/ /\ stored' = stored \/ (r.body # "denied" /\ stored' = stored \cup {page})
          /\ Raise(t, "worker_error")

\* Everything but the statutes raises at a captcha.
Blocked(t) ==
    /\ blocked' = TRUE
    /\ IF program = "statutes" THEN EndJob(t, FALSE, "CAPTCHA_SUSPECT") ELSE Raise(t, "captcha")
    /\ UNCHANGED stored

Answer(t, r) ==
    /\ thread[t].at = "requesting"
    /\ healthy' = HealthyAfter(thread[t].via, r)
    /\ LET verdict == Decision(r)
       IN IF verdict.reason = "CAPTCHA_SUSPECT" THEN Blocked(t)
          ELSE /\ \/ verdict.action = "STORE" /\ Store(t, r, verdict.reason)
                  \/ /\ verdict.action = "DROP"
                     /\ EndJob(t, FALSE, verdict.reason)
                     /\ UNCHANGED stored
                  \/ /\ verdict.action = "RETRY"
                     /\ Again(t, r, verdict.reason)
                     /\ UNCHANGED stored
               /\ UNCHANGED blocked
    /\ UNCHANGED <<fixed, check, todo>>

\* The loop is over.  An executor has run every future by then, and a captcha among
\* them is raised again; the other loops have already ended with theirs.
Finish ==
    /\ task = "running"
    /\ todo = {} /\ Busy = {}
    /\ task' = IF \E n \in Number : outcome[n] = "captcha" THEN "failed" ELSE "success"
    /\ UNCHANGED <<fixed, pool, todo, thread, stored, outcome, blocked>>

ThreadStep(t) ==
    \/ \E n \in Number : Take(t, n)
    \/ Pick(t)
    \/ NoProxy(t)
    \/ \E r \in Response : Answer(t, r)

Next ==
    \/ \E t \in Thread : ThreadStep(t)
    \/ \E p \in Proxy : HealthCheck(p)
    \/ Finish

Spec == Init /\ [][Next]_vars

\* Requests have timeouts, threads are scheduled.
FairSpec == Spec /\ WF_vars(Finish) /\ \A t \in Thread : WF_vars(ThreadStep(t))

------------------------------------------------------------------------------
(* Properties.                                                             *)

\* A number that is reported ok has all its pages stored by this task, however often
\* pages were retried, dropped or refused by the store in between; finalize and the
\* sites after KBO rely on it.
ReportIsTrue ==
    \A n \in Number : outcome[n] = "ok" => AllJobs(n) \subseteq stored

\* A task that succeeds has answered for every number, except where statutes stopped
\* at a block: an exception in one number (the store refuses a page) loses no other.
SuccessAnswersAll ==
    task = "success" /\ program # "statutes" => \A n \in Number : outcome[n] # "none"

\* A captcha that the programs of a site task meet fails the task, although the
\* executor finishes every other number first; statutes stop with what they have and
\* scrape_batch answers for each number (CaptchaBlockedError).
CaptchaFailsTask ==
    blocked /\ task = "success" => program \in {"statutes", "batch"}

\* The programs that go through numbers one by one ask the site nothing more once a
\* request has met a captcha, and statutes once a number has ended with a 4xx.
StopsAtBlock ==
    [][(blocked \/ task # "running") /\ program \in {"sequential", "statutes"} =>
          UNCHANGED requests]_vars

\* The requests that can still be made for the number a thread works on.
RequestsLeft(t) ==
    IF thread[t].at = "idle" THEN 0
    ELSE (JobsOf(program) - thread[t].job) * MaxRetries + MaxRetries + 1 - thread[t].attempt

\* A thread gets to the end of its number: whatever it meets, an answer, an exception or
\* an empty pool, uses up one of the requests left, so the retries of a page never start
\* again and a page is never gone back to.
RequestsRunOut ==
    [][\A t \in Thread : thread[t].at # "idle" /\ thread'[t] # thread[t] =>
          \/ RequestsLeft(t)' < RequestsLeft(t)
          \/ /\ thread[t].at = "picking" /\ thread'[t].at = "requesting"
             /\ RequestsLeft(t)' = RequestsLeft(t)]_vars

\* The task ends, whatever the site answers, with the pool exhausted or not.
TaskEnds == <>(task # "running")

------------------------------------------------------------------------------
(***************************************************************************)
(* The task as ScrapeBySource sees it.  A number whose captcha waits for   *)
(* the executor to end is still open there: the task raises with it.       *)
(***************************************************************************)
SourceName == IF program = "statutes" THEN "statutes" ELSE "kbo"

\* The profile comes before the main page.
JobOf(page) == IF page = "main" THEN JobsOf(program) ELSE 1

SitePages ==
    {page \in Number \X {"statutes", "kbo"} \X {"main", "profile"} :
        page[3] = "main" \/ (page[2] = "kbo" /\ Jobs = 2)}

IsFetched(page) ==
    /\ page[2] = SourceName
    /\ page[1] \in existing \/ <<page[1], JobOf(page[3])>> \in stored

Fetched == {page \in SitePages : IsFetched(page)}

Open == IF task = "running" THEN {n \in Number : outcome[n] \in {"none", "captcha"}} ELSE {}

Succeeded ==
    IF task = "failed" THEN {} ELSE {n \in Number : outcome[n] \in {"ok", "already_stored"}}

\* KBO before the statutes has succeeded for every number, the statutes after KBO have
\* not begun.
Of(own, kbo, statutes) ==
    [src \in {"statutes", "kbo"} |->
        IF src = SourceName THEN own ELSE IF src = "kbo" THEN kbo ELSE statutes]

SiteTasks ==
    [t \in {"prepare", "kbo", "statutes", "finalize"} |->
        IF t = SourceName THEN IF task = "failed" THEN "retry" ELSE task
        ELSE IF t \in {"prepare", "kbo"} THEN "success" ELSE "none"]

SiteRows ==
    [page \in SitePages |->
        IF IsFetched(page) \/ (page[2] = "kbo" /\ SourceName = "statutes") THEN 1 ELSE 0]

Dag(tor) ==
    INSTANCE ScrapeBySource WITH
        Enterprise <- Number, Site <- {"statutes"}, Enabled <- {"kbo", "statutes"},
        KnownSources <- TRUE, UseTor <- tor, TorLoop <- FALSE, WithProfile <- Jobs = 2,
        state <- [n \in Number |-> "SCRAPING"], rows <- SiteRows, task <- SiteTasks,
        claimed <- Number, tries <- Of(1, 1, 0), todo <- Of(Open, {}, {}),
        stored <- Of(Fetched, {}, {}), ok <- Of(Succeeded, Number, {}), exhausted <- FALSE,
        kboOk <- IF program = "statutes" THEN Number ELSE {}

(***************************************************************************)
(* What ScrapeBySource says of a task is what the loops do: they begin as  *)
(* its Start leaves them, and each step of theirs is one of its steps or   *)
(* invisible.  A number gets its only answer with its last page, an        *)
(* exception ends the task with everything it had answered, and nobody is  *)
(* left out when the task succeeds.  (KBO comes to these loops without Tor *)
(* only, statutes only after a KBO over Tor; scrape_batch is no task.)     *)
(***************************************************************************)
ImplementsTask ==
    /\ /\ task = "running" /\ Succeeded = {}
       /\ program \in {"sequential", "pool"} =>
             Open = Dag(FALSE)!Numbers("kbo") /\ Fetched = Dag(FALSE)!AlreadyStored("kbo")
       /\ program = "statutes" =>
             /\ Open = Dag(TRUE)!Numbers("statutes")
             /\ Fetched = Dag(TRUE)!AlreadyStored("statutes")
    /\ [][/\ program \in {"sequential", "pool"} => Dag(FALSE)!Run("kbo")
          /\ program = "statutes" => Dag(TRUE)!Run("statutes")]_(Dag(TRUE)!vars)

==============================================================================
