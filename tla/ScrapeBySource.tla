---------------------------- MODULE ScrapeBySource ---------------------------
(***************************************************************************)
(* One run of the DAG 02_scrape_by_source (08_full_pipeline has the same   *)
(* tasks): prepare_claim claims enterprises, scrape_kbo scrapes them on    *)
(* the KBO site, one task per other site scrapes those whose KBO pages     *)
(* succeeded, and finalize_scrape decides their state from the rows of     *)
(* raw_documents.  A scrape task that raises is retried once.  The tasks   *)
(* are processes of Airflow and share only the database and the results    *)
(* (XCom) of the earlier tasks.                                            *)
(*                                                                         *)
(* Module Pipeline has the claims and crashes of the same programs; here   *)
(* the enterprises are those nobody else touches, the documents are told   *)
(* apart by page, and the parameter wire_bridge has its default TRUE.      *)
(***************************************************************************)
EXTENDS Naturals

CONSTANTS
    Enterprise,     \* enterprise numbers in the queue
    Site,           \* the sites besides KBO: SECONDARY_SCRAPE_TASKS
    Enabled,        \* the parameter sources
    KnownSources,   \* FALSE when the parameter sources names an unknown one
    UseTor,         \* the parameter kbo_use_tor
    TorLoop,        \* the parameter tor_loop
    WithProfile     \* the environment variable KBO_INCLUDE_PROFILE

Source == Site \cup {"kbo"}

ASSUME SiteAssumption == Site # {} /\ Site \cap {"kbo", "prepare", "finalize"} = {}
ASSUME EnabledAssumption == Enabled \subseteq Source /\ Enabled # {}
ASSUME ParameterAssumption == {KnownSources, UseTor, TorLoop, WithProfile} \subseteq BOOLEAN

VARIABLES
    state,      \* the enterprises' states
    rows,       \* how many SUCCESS rows raw_documents has for a page, up to Counted
    task,       \* the state of each task instance
    claimed,    \* XCom of prepare_claim
    tries,      \* how often a scrape task was started
    todo,       \* the numbers the task has yet to scrape
    stored,     \* the pages this try need not fetch: existing_success, and what it stored
    ok,         \* the numbers the task scraped with success
    exhausted,  \* a number has used up all Tor lanes
    kboOk       \* kbo_ok_numbers in the XCom of scrape_kbo

scraping == <<tries, todo, stored, ok, exhausted>>
vars == <<state, rows, task, claimed, scraping, kboOk>>

\* The jobs of build_urls.
Pages(src) == IF src = "kbo" /\ WithProfile THEN {"main", "profile"} ELSE {"main"}
Page == {page \in Enterprise \X Source \X {"main", "profile"} : page[3] \in Pages(page[2])}
PagesOf(e, src) == {e} \X {src} \X Pages(src)

\* Bounds: the rows of statutes are counted up to 2, of another page up to 1.
MaxRows == 2
Counted(page) == IF page[2] = "statutes" THEN MaxRows ELSE 1

Task == Source \cup {"prepare", "finalize"}
TaskState ==
    {"none", "running", "retry", "success", "failed", "skipped", "upstream_failed"}
\* Deviation: finalize_scrape waits for tasks that were never started.
DoneStarted == {"success", "failed", "skipped"}
Done == {"success", "failed", "skipped", "upstream_failed"}
MaxTries == 2

TypeOK ==
    /\ state \in [Enterprise -> {"QUEUED_SCRAPE", "SCRAPING", "QUEUED_PARSE", "FAILED_SCRAPE"}]
    /\ rows \in [Page -> 0 .. MaxRows]
    /\ task \in [Task -> TaskState]
    /\ claimed \subseteq Enterprise
    /\ tries \in [Source -> 0 .. MaxTries]
    /\ todo \in [Source -> SUBSET Enterprise]
    /\ stored \in [Source -> SUBSET Page]
    /\ ok \in [Source -> SUBSET Enterprise]
    /\ exhausted \in BOOLEAN
    /\ kboOk \subseteq Enterprise

\* Earlier runs may have left a document of any page.
Init ==
    /\ state = [e \in Enterprise |-> "QUEUED_SCRAPE"]
    /\ rows \in [Page -> {0, 1}]
    /\ task = [t \in Task |-> "none"]
    /\ claimed = {}
    /\ tries = [src \in Source |-> 0]
    /\ todo = [src \in Source |-> {}]
    /\ stored = [src \in Source |-> {}]
    /\ ok = [src \in Source |-> {}]
    /\ exhausted = FALSE
    /\ kboOk = {}

SetTask(t, value) == task' = [task EXCEPT ![t] = value]

------------------------------------------------------------------------------
(***************************************************************************)
(* prepare_claim: claim_enterprises_for_scrape and its COMMIT.  The        *)
(* parameter sources is parsed after it; an unknown name makes the task    *)
(* fail, without an XCom for the others.                                   *)
(***************************************************************************)
Prepare(S) ==
    /\ task["prepare"] = "none"
    /\ state' = [e \in Enterprise |-> IF e \in S THEN "SCRAPING" ELSE state[e]]
    /\ claimed' = IF KnownSources THEN S ELSE {}
    /\ SetTask("prepare", IF KnownSources THEN "success" ELSE "failed")
    /\ UNCHANGED <<rows, scraping, kboOk>>

------------------------------------------------------------------------------
(* A scrape task.                                                          *)

\* prepare >> scrape_kbo >> sites, with the default rule all_success.
Upstream(src) == IF src = "kbo" THEN "prepare" ELSE "kbo"

\* Airflow settles a task whose upstream did not succeed without starting it.
PassOver(src) ==
    /\ task[src] = "none"
    /\ task[Upstream(src)] \in {"skipped", "failed", "upstream_failed"}
    /\ SetTask(src, IF task[Upstream(src)] = "skipped" THEN "skipped" ELSE "upstream_failed")
    /\ UNCHANGED <<state, rows, claimed, scraping, kboOk>>

\* Deviation: every claimed number is asked of every site.
AllNumbers(src) == claimed

Numbers(src) == IF src # "kbo" /\ "kbo" \in Enabled THEN claimed \cap kboOk ELSE claimed

\* Deviation: fetch_success_raw_keys_for_source is read only by the first try.
ReadOnce(src) ==
    IF src = "statutes" /\ tries[src] = 0
    THEN {page \in Page : page[2] = src /\ rows[page] > 0} ELSE {}

\* skip_if_already_stored and fetch_success_raw_keys_for_source.
AlreadyStored(src) ==
    IF src = "statutes" THEN {page \in Page : page[2] = src /\ rows[page] > 0} ELSE {}

Skipped(src) ==
    \/ src \notin Enabled
    \/ src # "kbo" /\ "kbo" \in Enabled /\ Numbers(src) = {}

CanStart(src) == task[src] \in {"none", "retry"} /\ task[Upstream(src)] = "success"

Skip(src) ==
    /\ CanStart(src) /\ Skipped(src)
    /\ SetTask(src, "skipped")
    /\ UNCHANGED <<state, rows, claimed, scraping, kboOk>>

Start(src) ==
    /\ CanStart(src) /\ ~Skipped(src)
    /\ SetTask(src, "running")
    /\ tries' = [tries EXCEPT ![src] = @ + 1]
    /\ todo' = [todo EXCEPT ![src] = Numbers(src)]
    /\ stored' = [stored EXCEPT ![src] = AlreadyStored(src)]
    /\ ok' = [ok EXCEPT ![src] = {}]
    /\ exhausted' = IF src = "kbo" THEN FALSE ELSE exhausted
    /\ UNCHANGED <<state, rows, claimed, kboOk>>

(***************************************************************************)
(* The pages P of a number are fetched and stored, a row of raw_documents  *)
(* each.  Pages are fetched one by one: any of them may have been stored   *)
(* when the number fails, or when the task stops, and a row is there while *)
(* other numbers go on.  Over Tor a number may be asked again on the next  *)
(* lane; the second row of a page this can add is not counted.             *)
(***************************************************************************)
StorePages(src, e, P) ==
    /\ task[src] = "running" /\ e \in todo[src]
    /\ P \subseteq PagesOf(e, src) \ stored[src]
    /\ stored' = [stored EXCEPT ![src] = @ \cup P]
    /\ rows' = [page \in Page |->
                    IF page \in P /\ rows[page] < Counted(page) THEN rows[page] + 1 ELSE rows[page]]

\* A page that is not the last one of its number.
ScrapePage(src, e, page) ==
    /\ StorePages(src, e, {page})
    /\ PagesOf(e, src) \ stored[src] # {page}
    /\ UNCHANGED <<state, task, claimed, tries, todo, ok, exhausted, kboOk>>

NextNumber(src, e) == todo' = [todo EXCEPT ![src] = @ \ {e}]

ScrapeSucceeds(src, e) ==
    /\ StorePages(src, e, PagesOf(e, src) \ stored[src])
    /\ NextNumber(src, e)
    /\ ok' = [ok EXCEPT ![src] = @ \cup {e}]
    /\ UNCHANGED <<state, task, claimed, tries, exhausted, kboOk>>

\* A page is rejected or stays unreachable; over Tor, the lanes may be used up.
ScrapeFails(src, e, P) ==
    /\ StorePages(src, e, P)
    /\ PagesOf(e, src) \ stored[src] # {}
    /\ NextNumber(src, e)
    /\ exhausted' \in IF src = "kbo" /\ UseTor THEN {exhausted, TRUE} ELSE {exhausted}
    /\ UNCHANGED <<state, task, claimed, tries, ok, kboOk>>

\* _scrape_statutes_direct_passes: a captcha ends the loop, and the task with success.
StopGracefully(e) ==
    /\ "statutes" \in Site
    /\ PagesOf(e, "statutes") \ stored["statutes"] # {}
    /\ StorePages("statutes", e, {})
    /\ todo' = [todo EXCEPT !["statutes"] = {}]
    /\ SetTask("statutes", "success")
    /\ UNCHANGED <<state, claimed, tries, ok, exhausted, kboOk>>

\* Deviation: one try too many.
RetriedTwice(src) == IF tries[src] <= MaxTries THEN "retry" ELSE "failed"

Retried(src) == IF tries[src] < MaxTries THEN "retry" ELSE "failed"

\* A captcha without Tor, or storing raises.
TaskRaises(src, e, P) ==
    /\ StorePages(src, e, P)
    /\ PagesOf(e, src) \ stored[src] # {}
    /\ todo' = [todo EXCEPT ![src] = {}]
    /\ ok' = [ok EXCEPT ![src] = {}]
    /\ SetTask(src, Retried(src))
    /\ UNCHANGED <<state, claimed, tries, exhausted, kboOk>>

\* The end of _scrape_kbo_tor_passes, of _scrape_statutes_direct_passes or of
\* scrape_source_for_enterprises: only the first returns kbo_ok_numbers.
EndTask(src) ==
    /\ task[src] = "running" /\ todo[src] = {}
    /\ IF src = "kbo" /\ UseTor /\ ~TorLoop /\ exhausted
       THEN /\ ok' = [ok EXCEPT ![src] = {}]
            /\ SetTask(src, Retried(src))
            /\ UNCHANGED kboOk
       ELSE /\ SetTask(src, "success")
            /\ kboOk' = IF src = "kbo" /\ UseTor THEN ok[src] ELSE kboOk
            /\ UNCHANGED ok
    /\ UNCHANGED <<state, rows, claimed, tries, todo, stored, exhausted>>

------------------------------------------------------------------------------
\* Deviation: finalize_scrape forgets the parameter sources.
RequiresAll(e) == \A src \in Source : \E page \in PagesOf(e, src) : rows[page] > 0

\* One SUCCESS document of every enabled source, of this run or of an earlier one.
Covered(e) == \A src \in Enabled : \E page \in PagesOf(e, src) : rows[page] > 0

\* finalize_scrape, with the rule all_done over the sites.  It parses sources too.
Finalize ==
    /\ task["finalize"] = "none"
    /\ \A src \in Site : task[src] \in Done
    /\ state' = [e \in Enterprise |->
                    IF e \notin claimed THEN state[e]
                    ELSE IF Covered(e) THEN "QUEUED_PARSE" ELSE "FAILED_SCRAPE"]
    /\ SetTask("finalize", IF KnownSources THEN "success" ELSE "failed")
    /\ UNCHANGED <<rows, claimed, scraping, kboOk>>

Run(src) ==
    \/ PassOver(src) \/ Skip(src) \/ Start(src) \/ EndTask(src)
    \/ \E e \in Enterprise :
        \/ \E page \in PagesOf(e, src) : ScrapePage(src, e, page)
        \/ ScrapeSucceeds(src, e)
        \/ \E P \in SUBSET PagesOf(e, src) : ScrapeFails(src, e, P) \/ TaskRaises(src, e, P)
        \/ src = "statutes" /\ StopGracefully(e)

Next ==
    \/ \E S \in SUBSET Enterprise : Prepare(S)
    \/ \E src \in Source : Run(src)
    \/ Finalize

Spec == Init /\ [][Next]_vars

\* Airflow starts what can start, fetches time out, and a task that runs goes on.
Fairness == (\A src \in Source : WF_vars(Run(src))) /\ WF_vars(Finalize)

FairSpec == Spec /\ Fairness

------------------------------------------------------------------------------
(* Properties.                                                             *)

(***************************************************************************)
(* RUN_ORDER.md: the other sites are asked only for numbers whose KBO      *)
(* pages succeeded.  A site that works on a number, or has, finds all its  *)
(* KBO pages in raw_documents, whichever try of scrape_kbo stored them and *)
(* whatever it returned.                                                   *)
(***************************************************************************)
SitesAfterKbo ==
    "kbo" \in Enabled =>
        \A src \in Site : \A e \in todo[src] \cup ok[src] :
            \A page \in PagesOf(e, "kbo") : rows[page] > 0

(***************************************************************************)
(* A statutes page that is stored is never downloaded again, although the  *)
(* stored pages are read once per try and the try that failed has stored   *)
(* some more.                                                              *)
(***************************************************************************)
StatutesStoredOnce == \A page \in Page : page[2] = "statutes" => rows[page] <= 1

(***************************************************************************)
(* finalize_scrape reads the database, not what the tasks returned; still  *)
(* an enterprise that every enabled source scraped with success in this    *)
(* run never ends in FAILED_SCRAPE.                                        *)
(***************************************************************************)
SuccessIsKept ==
    \A e \in Enterprise :
        state[e] = "FAILED_SCRAPE" => \E src \in Enabled : e \notin ok[src]

(***************************************************************************)
(* Every claimed enterprise leaves SCRAPING: whatever task raises, is      *)
(* retried, skipped or passed over, finalize_scrape still comes.           *)
(***************************************************************************)
ClaimsAreFinalized ==
    \A e \in Enterprise : state[e] = "SCRAPING" ~> state[e] # "SCRAPING"

(***************************************************************************)
(* A site is skipped only if no number had its KBO pages scraped in this   *)
(* run, as the message of _scrape_one_source says ("Aucun BCE avec KBO     *)
(* reussi dans ce run").                                                   *)
(***************************************************************************)
SkippedOnlyWithoutKbo ==
    \A src \in Site \cap Enabled : task[src] = "skipped" => ok["kbo"] = {}

(***************************************************************************)
(* A site that is enabled without KBO is scraped: _scrape_one_source has a *)
(* case for it, all the claimed numbers.                                   *)
(***************************************************************************)
EnabledSiteRuns ==
    "kbo" \notin Enabled /\ claimed # {} =>
        \A src \in Site \cap Enabled : task[src] # "skipped"

==============================================================================
