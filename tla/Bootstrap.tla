------------------------------ MODULE Bootstrap -------------------------------
(***************************************************************************)
(* The first run on an empty volume: the DAG 09_platform_bootstrap with    *)
(* run_platform_bootstrap.  A DAG run has two tasks, a gate and the        *)
(* bootstrap itself, both in ingest_pool, whose only slot keeps two runs   *)
(* from working at once but not from taking turns between gate and         *)
(* bootstrap.  The program ingests every CSV file, scrapes and extracts in *)
(* batches until nothing is queued, refreshes the analytics and writes the *)
(* marker; it may raise in the middle, and the worker may die anywhere.    *)
(*                                                                         *)
(* Claims, pages and parses are one step each; Pipeline, ScrapeBySource,   *)
(* KboTorLanes and SourceTask open them.  Other DAGs are left out.  Of the *)
(* two on a schedule, 07_analytics_refresh moves no enterprise, and        *)
(* 06_lifecycle_refresh re-queues one at rest when its last SUCCESS page   *)
(* is LIFECYCLE_MAX_AGE_DAYS (14) old, which no page of a bootstrap is     *)
(* that ends sooner.  The others are started by hand.                      *)
(***************************************************************************)
EXTENDS Naturals, FiniteSets, Sequences

CONSTANTS
    Run,            \* DAG runs of 09_platform_bootstrap
    Nobody,         \* not a run: who holds an enterprise of no batch
    Enterprise,
    Files,          \* the numbers of each CSV file that has a column for them
    Sites,          \* the sites after KBO, in order
    Limit,          \* PLATFORM_BOOTSTRAP_SCRAPE_BATCH, PLATFORM_BOOTSTRAP_EXTRACT_BATCH
    MaxBatches,     \* the limit a run may set on its batches
    SafetyCap       \* 10 000: the batches of a run that sets none

ASSUME NobodyAssumption == Nobody \notin Run
ASSUME FilesAssumption == Files # {} /\ Files \subseteq SUBSET Enterprise /\ {} \notin Files
ASSUME SitesAssumption ==
    Sites # <<>> /\ Sites \in Seq({"moniteur", "statutes", "bnb"})
ASSUME EnterpriseAssumption == IsFiniteSet(Enterprise)
ASSUME LimitAssumption == Limit \in Nat \ {0}
ASSUME MaxBatchesAssumption == MaxBatches \in Nat \ {0}
ASSUME SafetyCapAssumption == SafetyCap \in Nat \ {0}

VARIABLES
    force,          \* the parameter force of each run
    bounded,        \* the run sets a limit on its batches
    stage,          \* where each run is
    blind,          \* the runs whose last check got no answer from the database
    state,          \* processing_state of each enterprise
    pages,          \* the sites each enterprise has a stored page of
    marker,         \* the runs that have written data/.platform_initialized
    files,          \* the files the running bootstrap has yet to ingest
    numbers,        \* the enterprises of its batch
    okNumbers,      \* those KBO succeeded for
    batch,          \* batch_index
    began,          \* history: the runs that have committed a row
    settled         \* history: the enterprises a finalize has decided

params == <<force, bounded>>
program == <<files, numbers, okNumbers, batch>>
vars == <<params, stage, blind, state, pages, marker, program, began, settled>>

SiteSet == {Sites[i] : i \in DOMAIN Sites}
Sources == {"kbo"} \cup SiteSet
Csv == UNION Files

\* The stages of run_platform_bootstrap; a site is the stage of its branch.
Working == {"ingest", "prepare", "kbo", "finalize", "extract", "parse", "analytics", "mark"}
           \cup SiteSet
Over == {"skipped", "success", "failed"}

State == {"ABSENT", "QUEUED_SCRAPE", "SCRAPING", "FAILED_SCRAPE",
          "QUEUED_PARSE", "PARSING", "STRUCTURED", "FAILED_PARSE"}

In(s) == {n \in Enterprise : state[n] = s}

\* The batches a run may do.
MaxOf(r) == IF bounded[r] THEN MaxBatches ELSE SafetyCap

TypeOK ==
    /\ force \in [Run -> BOOLEAN]
    /\ bounded \in [Run -> BOOLEAN]
    /\ stage \in [Run -> {"gate", "ready"} \cup Working \cup Over]
    /\ blind \subseteq Run
    /\ state \in [Enterprise -> State]
    /\ pages \in [Enterprise -> SUBSET Sources]
    /\ marker \subseteq Run
    /\ files \subseteq Files
    /\ numbers \subseteq Enterprise
    /\ Cardinality(numbers) <= Limit
    /\ okNumbers \subseteq numbers
    /\ batch \in Nat
    /\ \A r \in Run : stage[r] \in Working => batch <= MaxOf(r)
    /\ began \subseteq Run
    /\ settled \subseteq Enterprise

Init ==
    /\ force \in [Run -> BOOLEAN]
    /\ bounded \in [Run -> BOOLEAN]
    /\ stage = [r \in Run |-> "gate"]
    /\ blind = {}
    /\ state = [n \in Enterprise |-> "ABSENT"]
    /\ pages = [n \in Enterprise |-> {}]
    /\ marker = {}
    /\ files = {}
    /\ numbers = {}
    /\ okNumbers = {}
    /\ batch = 0
    /\ began = {}
    /\ settled = {}

------------------------------------------------------------------------------
(* The volume and its gate.                                                *)

\* ingest_pool has one slot.
SlotFree == \A r \in Run : stage[r] \notin Working

\* is_data_volume_uninitialized; without an answer of the database the count is None.
Uninitialized(answers) ==
    /\ marker = {}
    /\ \A n \in Enterprise : pages[n] = {}
    /\ answers => \A n \in Enterprise : state[n] = "ABSENT"

\* _gate_fresh_volume.
Gate(r) ==
    /\ stage[r] = "gate" /\ SlotFree
    /\ \E answers \in BOOLEAN :
          stage' = [stage EXCEPT ![r] = IF force[r] \/ Uninitialized(answers)
                                        THEN "ready" ELSE "skipped"]
    /\ UNCHANGED <<params, blind, state, pages, marker, program, began, settled>>

\* Deviation: run_platform_bootstrap relies on the gate.
MayStartAnyhow(r, answers) == TRUE

MayStart(r, answers) == force[r] \/ Uninitialized(answers)

\* run_platform_bootstrap checks again; a volume in use ends the task with success.
Start(r) ==
    /\ stage[r] = "ready" /\ SlotFree
    /\ \E answers \in BOOLEAN :
          /\ blind' = IF answers THEN blind ELSE blind \cup {r}
          /\ IF MayStart(r, answers)
             THEN /\ stage' = [stage EXCEPT ![r] = "ingest"]
                  /\ files' = Files
             ELSE /\ stage' = [stage EXCEPT ![r] = "success"]
                  /\ UNCHANGED files
    /\ UNCHANGED <<params, state, pages, marker, numbers, okNumbers, batch, began, settled>>

------------------------------------------------------------------------------
(* run_ingest_all_csv.                                                     *)

\* Rows that exist keep their state (ON CONFLICT DO NOTHING).
Ingested(found) ==
    [n \in Enterprise |->
        IF n \in found /\ state[n] = "ABSENT" THEN "QUEUED_SCRAPE" ELSE state[n]]

IngestFile(r) ==
    /\ stage[r] = "ingest"
    /\ \E f \in files :
          /\ state' = Ingested(f)
          /\ files' = files \ {f}
    /\ began' = began \cup {r}
    /\ stage' = IF files' = {} THEN [stage EXCEPT ![r] = "prepare"] ELSE stage
    /\ UNCHANGED <<params, blind, pages, marker, numbers, okNumbers, batch, settled>>

------------------------------------------------------------------------------
(* run_bootstrap_scrape_until_idle and run_scrape_by_source_cycle.         *)

\* What a claim may return of the rows in a queue.
Batches(queue) ==
    {s \in SUBSET queue :
        Cardinality(s) = IF Cardinality(queue) < Limit THEN Cardinality(queue) ELSE Limit}

\* run_scrape_prepare commits its claims; an empty batch ends the loop.
Prepare(r) ==
    /\ stage[r] = "prepare"
    /\ \E s \in Batches(In("QUEUED_SCRAPE")) :
          /\ numbers' = s
          /\ state' = [n \in Enterprise |-> IF n \in s THEN "SCRAPING" ELSE state[n]]
          /\ stage' = [stage EXCEPT ![r] = IF s = {} THEN "extract" ELSE "kbo"]
          /\ batch' = IF s = {} THEN 0 ELSE batch + 1
    /\ UNCHANGED <<params, blind, pages, marker, files, okNumbers, began, settled>>

\* A branch stores pages of some of its enterprises.
StorePages(source, found) ==
    pages' = [n \in Enterprise |-> IF n \in found THEN pages[n] \cup {source} ELSE pages[n]]

\* The KBO branch; a site is not asked when KBO succeeded for nobody.
ScrapeKbo(r) ==
    /\ stage[r] = "kbo"
    /\ \E found \in SUBSET numbers :
          /\ StorePages("kbo", found)
          /\ \E ok \in SUBSET found :
                /\ okNumbers' = ok
                /\ stage' = [stage EXCEPT ![r] =
                                 IF ok = {} THEN "finalize" ELSE Head(Sites)]
    /\ UNCHANGED <<params, blind, state, marker, files, numbers, batch, began, settled>>

ScrapeSite(r) ==
    /\ \E i \in DOMAIN Sites :
          /\ stage[r] = Sites[i]
          /\ stage' = [stage EXCEPT ![r] = IF i = Len(Sites) THEN "finalize" ELSE Sites[i + 1]]
    /\ \E found \in SUBSET okNumbers : StorePages(stage[r], found)
    /\ UNCHANGED <<params, blind, state, marker, program, began, settled>>

\* Deviation: finalize gets kbo_ok_numbers, like the sites.
FinalizesOk == okNumbers

Finalizes == numbers

\* Deviation: a batch KBO succeeded for nobody in ends the loop too.
MoreUnlessNoneOk(r) == batch < MaxOf(r) /\ okNumbers # {}

\* Deviation: the limit is compared with <= .
MoreByOne(r) == batch <= MaxOf(r)

\* The loop goes on until an empty batch, or until its batches are used up.
More(r) == batch < MaxOf(r)

\* run_scrape_finalize: every site has a page, or the enterprise has failed.
Finalize(r) ==
    /\ stage[r] = "finalize"
    /\ state' = [n \in Enterprise |->
                    IF n \notin Finalizes THEN state[n]
                    ELSE IF pages[n] = Sources THEN "QUEUED_PARSE" ELSE "FAILED_SCRAPE"]
    /\ settled' = settled \cup Finalizes
    /\ numbers' = {}
    /\ okNumbers' = {}
    /\ IF More(r)
       THEN stage' = [stage EXCEPT ![r] = "prepare"] /\ UNCHANGED batch
       ELSE stage' = [stage EXCEPT ![r] = "extract"] /\ batch' = 0
    /\ UNCHANGED <<params, blind, pages, marker, files, began>>

------------------------------------------------------------------------------
(* run_bootstrap_extract_until_idle.                                       *)

ClaimForParse(r) ==
    /\ stage[r] = "extract"
    /\ \E s \in Batches(In("QUEUED_PARSE")) :
          /\ numbers' = s
          /\ state' = [n \in Enterprise |-> IF n \in s THEN "PARSING" ELSE state[n]]
          /\ stage' = [stage EXCEPT ![r] = IF s = {} THEN "analytics" ELSE "parse"]
          /\ batch' = IF s = {} THEN 0 ELSE batch + 1
    /\ UNCHANGED <<params, blind, pages, marker, files, okNumbers, began, settled>>

\* Deviation: a link queues its enterprise whatever state that is in.
ParsedUnasked(n, to, links) ==
    [m \in Enterprise |->
        IF m = n THEN to
        ELSE IF to = "STRUCTURED" /\ m \in links THEN "QUEUED_SCRAPE" ELSE state[m]]

\* What a parse makes of its row: a rolled back one leaves it in PARSING.  A parse that
\* succeeds queues the linked enterprises that are new or have failed.
Parsed(n, to, links) ==
    [m \in Enterprise |->
        IF m = n THEN to
        ELSE IF to = "STRUCTURED" /\ m \in links
                /\ state[m] \in {"ABSENT", "FAILED_SCRAPE", "FAILED_PARSE"}
        THEN "QUEUED_SCRAPE" ELSE state[m]]

ParseOne(r) ==
    /\ stage[r] = "parse"
    /\ \E n \in numbers, to \in {"STRUCTURED", "FAILED_PARSE", "PARSING"},
          links \in SUBSET Enterprise :
          /\ state' = Parsed(n, to, links)
          /\ numbers' = numbers \ {n}
    /\ IF numbers' # {} THEN UNCHANGED <<stage, batch>>
       ELSE IF batch < MaxOf(r)
       THEN stage' = [stage EXCEPT ![r] = "extract"] /\ UNCHANGED batch
       ELSE stage' = [stage EXCEPT ![r] = "analytics"] /\ batch' = 0
    /\ UNCHANGED <<params, blind, pages, marker, files, okNumbers, began, settled>>

------------------------------------------------------------------------------
(* The end.                                                                *)

RefreshAnalytics(r) ==
    /\ stage[r] = "analytics"
    /\ stage' = [stage EXCEPT ![r] = "mark"]
    /\ UNCHANGED <<params, blind, state, pages, marker, program, began, settled>>

\* mark_data_volume_initialized.
Mark(r) ==
    /\ stage[r] = "mark"
    /\ marker' = marker \cup {r}
    /\ stage' = [stage EXCEPT ![r] = "success"]
    /\ UNCHANGED <<params, blind, state, pages, program, began, settled>>

\* No marker is written after a failure; a worker that dies writing it leaves the file.
MarkerAfterFailure(r) ==
    IF stage[r] = "mark" THEN {marker, marker \cup {r}} ELSE {marker}

\* What a stage may have committed before it fails: a part of a file, some pages.
PartlyDone(r) ==
    \/ /\ stage[r] = "ingest"
       /\ \E f \in files : \E some \in SUBSET f :
             /\ state' = Ingested(some)
             /\ began' = IF some = {} THEN began ELSE began \cup {r}
       /\ UNCHANGED pages
    \/ /\ stage[r] = "kbo"
       /\ \E found \in SUBSET numbers : StorePages("kbo", found)
       /\ UNCHANGED <<state, began>>
    \/ /\ stage[r] \in SiteSet
       /\ \E found \in SUBSET okNumbers : StorePages(stage[r], found)
       /\ UNCHANGED <<state, began>>
    \/ stage[r] \in Working /\ UNCHANGED <<state, pages, began>>

\* An exception, or the death of the worker: no stage catches one and the task is not
\* retried, so what is left of the run is what it has committed.
Fail(r) ==
    /\ PartlyDone(r)
    /\ stage' = [stage EXCEPT ![r] = "failed"]
    /\ files' = {} /\ numbers' = {} /\ okNumbers' = {} /\ batch' = 0
    /\ marker' \in MarkerAfterFailure(r)
    /\ UNCHANGED <<params, blind, settled>>

Next ==
    \E r \in Run :
        \/ Gate(r)
        \/ Start(r)
        \/ IngestFile(r)
        \/ Prepare(r)
        \/ ScrapeKbo(r)
        \/ ScrapeSite(r)
        \/ Finalize(r)
        \/ ClaimForParse(r)
        \/ ParseOne(r)
        \/ RefreshAnalytics(r)
        \/ Mark(r)
        \/ Fail(r)

Spec == Init /\ [][Next]_vars

------------------------------------------------------------------------------
(* Properties.                                                             *)

\* An enterprise left in SCRAPING by no running batch is the trace of a failed run: a
\* cycle that comes to its end gives back every claim, with KBO or without.
LeftBehindOnlyByFailure ==
    \A n \in In("SCRAPING") : n \in numbers \/ \E r \in Run : stage[r] = "failed"

\* Two runs may both pass the gate before one of them starts.  Of the runs that were not
\* forced and whose last check the database answered, at most one ever commits a row.
FreshVolumeOnce ==
    \A r, s \in {q \in began : ~force[q] /\ q \notin blind} : r = s

Unlimited(r) == ~bounded[r] /\ SafetyCap * Limit >= Cardinality(Enterprise)

\* A run that writes the marker has read every file, and unless it set a limit every
\* enterprise of the files has been decided by a finalize, or was lost in SCRAPING by an
\* earlier run, and no stored enterprise waits for its parse.
MarkerMeansDone ==
    [][\A r \in marker' \ marker :
          /\ In("ABSENT") \cap Csv = {}
          /\ Unlimited(r) => /\ Csv \subseteq settled \cup In("SCRAPING")
                             /\ In("QUEUED_PARSE") = {}]_vars

\* The batch in hand is claimed by the run that works.
WorkingRun == CHOOSE r \in Run : stage[r] \in Working
ClaimHolder == [n \in Enterprise |-> IF n \in numbers THEN WorkingRun ELSE Nobody]

Lifecycle ==
    INSTANCE EnterpriseLifecycle WITH Worker <- Run, holder <- ClaimHolder

(***************************************************************************)
(* The bootstrap drives the same batches through scrape and parse as the   *)
(* DAGs that run one by one, and keeps to EnterpriseLifecycle as they do:  *)
(* a batch is claimed whole, decided by its run and nobody else, or left   *)
(* behind; what a file or a parse adds to the queue was in no batch.       *)
(***************************************************************************)
ImplementsLifecycle == Lifecycle!Spec

==============================================================================
