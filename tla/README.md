# A verification of the Belgian enterprise pipeline

The platform keeps a register of Belgian enterprises. It reads enterprise numbers from CSV files, scrapes public
sites (KBO, Moniteur, statutes, BNB), stores the pages, parses them into snapshots, discovers linked enterprises and
refreshes old ones. Airflow DAGs, command lines and a dashboard run these programs, in processes that share nothing
but a PostgreSQL database and a directory of raw documents.

This directory holds TLA+ modules translated from the code under `src/`, the configurations that check them with TLC,
and theorems about them checked by TLAPS. `PROJECT.json` says which lines each definition stands for.

    tlc -config MCPipeline.cfg MCPipeline          # any run of the table below
    tlapm Pipeline_proofs.tla                      # each about a minute or less from nothing
    tlapm Pipeline_refinement.tla
    tlapm KboTorLanes_proofs.tla
    tlapm ScrapeBySource_proofs.tla
    tlapm SourceTask_proofs.tla
    tlapm RawStore_proofs.tla
    tlapm EnterpriseRecord_proofs.tla
    tlapm Bootstrap_proofs.tla

## The system

| Part | State | Operations | Interaction | What makes it correct |
|---|---|---|---|---|
| Processing-state store (`packages/persistence`) | one row per enterprise: state, version, lock_owner, lock_until | `transition_state`, `claim_enterprises_for_scrape/_parse`, `upsert_enterprise` | called by every program, in the program's transaction | exclusive claims, no lost update, only the promised transitions |
| Raw registry (`insert_raw_document_*`, `bridge.py`) | rows of `raw_documents` | insert on a storage event, look up SUCCESS rows | a session of its own per document | a SUCCESS row only for a stored page |
| Scraping (`packages/acquisition/worker.py`) | a claim, pages stored so far | `scrape_batch`, or prepare / one task per source / finalize | claims, stores pages, finishes with QUEUED_PARSE or FAILED_SCRAPE | the result reflects the pages; the claim is given back |
| KBO egress lanes (`tor_strategy.py`) | current lane, cycle, lock | `current_lane`, `escalate_on_captcha`, `restart_loop_cycle` | shared by the threads of one task | forward only, ends, gives up only when out of lanes |
| Fetching (`worker.py`, `fetch.py`, `validate.py`, `proxy_pool.py`) | health and weights of proxies, results of the numbers | `_process_job`, `fetch`, `validate_fetch`, the health-check thread, the loops over the numbers | one task per site, threads inside it | bounded attempts, true reports, silence after a block |
| Raw bundles (`packages/storage`) | files: document, sidecar | `store_raw_bundle`, `read_raw_bundle` | emits the storage event | what the registry names can be read |
| Scrape-by-source DAG (`airflow/dags`) | task states, XCom | prepare, scrape tasks, finalize | Airflow retries, skips and trigger rules | KBO first, claims always finalized |
| Extraction (`packages/extraction`) | snapshots | `parse_batch`, `_parse_enterprise`, `consolidate_parsed_documents` | reads documents, calls discovery in its transaction | STRUCTURED only with a snapshot; identity from the newest KBO page |
| Discovery (`packages/discovery`) | rows of discoveries | `enqueue_if_new`, fan-out | inserts or re-queues other enterprises | never disturbs a claim |
| Lifecycle (`packages/lifecycle`) | - | `select_due_enterprises`, `lifecycle_tick` | re-queues old enterprises | never disturbs a claim |
| Ingestion (`packages/ingestion`) | quarantine file, counters | `ingest_csv` | inserts in batches | each number once, counters add up |
| Dashboard (`packages/dashboard`) | - | `force_scrape_enterprise`, `force_parse_enterprise`, `get_enterprise_detail` | claims one enterprise directly; reads state, documents and snapshot one after the other | refuses busy enterprises; shows nothing that was not so |
| Bootstrap (`bootstrap_workflow.py`, `volume_bootstrap.py`) | marker file | ingest, scrape cycles, parse on an empty volume | calls all the programs | fills a volume once; the marker means done |
| Analytics (`packages/analytics`) | aggregate tables | `analytics_refresh` | reads all snapshots | counts enterprises, not snapshots |
| Parsers, monitoring, translations, migrations, infrastructure | - | - | - | - |

What is hard here: the programs run at the same time and take their decisions on rows they have read without a lock;
a claim is committed long before the work on it ends, so a raise or a kill leaves it behind; SQLAlchemy's identity
map hands out old objects; inserts of the same key and row locks taken in different orders collide; the threads of a
scrape share one lane; Airflow retries, skips and passes over tasks. Each such place is a hazard in `PROJECT.json`
with the properties that watch it, or the reason why none does yet.

## The modules

`EnterpriseLifecycle` - the abstract specification. One enterprise has a state and at most one holder. It is
enqueued, claimed, released with a result, or abandoned, and while it is held nobody else changes its state.

`StateStore` - the table of states as sessions see it. `db` is what is committed, `heap` the latest row with the
writes of the session that locks it, `lock` that session. Each operator is one repository function:
`TransitionState` with its test `Applies` (the state and the version of the row object the ORM hands over),
`SelectSkipLocked`, `InsertRow`, `Commit`, `Rollback`.

`Pipeline` - the programs as sessions over `StateStore`: `ingest_csv`, `scrape_batch`, `scrape_by_source`
(prepare and finalize), `parse_batch`, `force_scrape`, `force_parse`, `fanout`, `lifecycle_tick`. One action is one
statement, or several under the same row lock; any other session may run between two of them. `seen` is the stale object of a
lookup: `enqueue_if_new`, `lifecycle_tick` and `_requeue` keep it in a variable across the later `FOR UPDATE`, so
the ORM returns that object and not the current row. `Fail` is the `except` of the batch loops (roll back, go on) and
the end of the others; `Raise` is the same for an exception that no other session causes: an unknown name in
`sources`, found when the claims are already committed (`belgian_scrape_by_source.py:71`), a site branch that raises
before `run_scrape_finalize` (`bootstrap_workflow.py:46`), a lost connection, a document that cannot be stored. `Crash`
is a killed process; `AbortDeadlock` is PostgreSQL's deadlock detector.
What pages contain is left out: a scrape or a parse ends in any way the code can end it. A scrape may end in
QUEUED_PARSE without a row in `raw_documents`, because `scrape_batch` can be run without the bridge.

`KboTorLanes` - one pass over the KBO site: threads, the coordinator with its lock, which `restart_loop_cycle` holds
while it sleeps. A fetch leaves some of the number's pages stored, the profile and the main page (`WithProfile` is
`KBO_INCLUDE_PROFILE`), and the number is ok when it has brought all of them. `cycle`, `blockedAt` and `walks` are
history variables: the cycle in which a thread was given its lane, the place of the last captcha on its number, and how
often the run has come to its last lane. One thread
is the code's sequential loop, in which a raise ends the pass.

`SourceTask` - the requests of every other task: `_process_job` with its attempts, `fetch` through a proxy or directly,
the verdict of `validate_fetch`, the pool whose proxies fail and are brought back by the health-check thread, and the
four loops over the numbers (one request at a time, a thread pool, statutes, `scrape_batch`). A site's answer is one of
the kinds the code tells apart; `Decision` is what `validate_fetch` makes of it. The health check tests the proxies at
one moment and writes the results one by one, without the pool's lock, as the thread does. What `ScrapeBySource` takes
as one step (a number succeeds, fails, or stops the task) is decided here.

`ScrapeBySource` - one run of the DAG `02_scrape_by_source` (`08_full_pipeline` has the same tasks): task states, the
XCom of prepare and of KBO, the rows of `raw_documents` by page, retries, skips and trigger rules. A page is a step of
its own (`ScrapePage`), the answer for its number another. It looks at the
enterprises of one run, which `Pipeline` shows that nobody else touches; crashes of prepare and finalize are in
`Pipeline`.

`DocumentRegistry` - the abstract specification of `raw_documents` with the files behind it: a document appears at
once, whole, with a date of its own, and never changes.

`RawStore` - how that is done: `store_raw_bundle` writes the document, then the sidecar, then emits the event whose
listener inserts the row in a session of its own. A file is torn while it is written; an exception or a killed process
may end a call anywhere, and the answer to the COMMIT may be lost. `Content` is what `read_raw_bundle` returns.

`EnterpriseRecord` extends it to what one enterprise's documents become: `_parse_enterprise` reads the rows, takes the
newest of each kind, consolidates them and commits snapshot and state; `get_enterprise_detail` reads state, documents
and latest snapshot in three statements and draws its conclusions. Documents go on arriving all the while, because a
task that Airflow has given up may still run. Snapshots of earlier parsers are part of the initial states.

`Bootstrap` - the DAG `09_platform_bootstrap`: gate, second check, ingestion file by file, scrape cycles and
extraction batches until nothing is queued, analytics, marker; several runs that share the single slot of
`ingest_pool`; an exception or a death anywhere, in the middle of a file or while the marker is written. `began` and
`settled` are history variables. Claims, pages and parses are one step each, opened by the modules above.

`PipelineInvariant` holds the inductive invariant of `Pipeline`, so that TLC can check what `Pipeline_proofs` proves.
The MC modules add symmetry and the values a configuration file cannot write. A definition marked "Deviation" is a
plausible mistake at that place, used to test that a property would notice it; no specification uses it.

How the modules fit together, each arrow a refinement that a run checks and a theorem states:

    Pipeline over StateStore  ->  EnterpriseLifecycle       all sessions: claim, release, abandon, enqueue
    Bootstrap                 ->  EnterpriseLifecycle       the batches of 09_platform_bootstrap
    SourceTask                ->  ScrapeBySource!Run        scrape_statutes, or scrape_kbo without Tor
    KboTorLanes               ->  ScrapeBySource!Run        scrape_kbo over Tor
    RawStore                  ->  DocumentRegistry          files, event and row; EnterpriseRecord extends it

`ScrapeBySource` also rests on what `Pipeline` shows of claims: nobody else touches the enterprises of a run. Which
pages a site's task stores, in which order, and what it reports, is decided in `SourceTask` and `KboTorLanes`; the two
`ImplementsTask` say that this is what the DAG's module takes for granted. (The mapping of `SourceTask` names `scrape_kbo`
for the two common loops; BNB and Moniteur go through the same ones, with one page for each number.)

## The runs

| Run | Instance | What it shows |
|---|---|---|
| `pipeline` | 2 enterprises, 2 sessions, all programs, crashes and exceptions | `ClaimExclusive`, `HeldIsBusy`, `StructuredHasEvidence`, `VersionGrows`, the inductive invariant `IInv`, `OnlyItsWorkerStrands`, and that the sessions implement `EnterpriseLifecycle` |
| `pipeline_live` | 2 enterprises, 2 sessions, the programs that lock rows in different orders, no crashes, but exceptions | `ProgramsEnd`: no session waits for ever |
| `stranded_parse` | 2 enterprises, no crashes, no exception but those other sessions cause | **violated**: a parse that raises leaves its enterprise in PARSING |
| `lanes` | 2 threads, 2 numbers of 2 pages, 3 lanes, 3 cycles, fair | `NeverBackToABlockedLane`, `GiveUpAfterWalks`, `PassEnds`; `ImplementsTask`: the pass is a `scrape_kbo` of `ScrapeBySource` |
| `lane_burned` | 2 threads, 4 lanes, no `tor_loop` | **violated**: a lane is left on which no request was made |
| `source_task` | 2 numbers, 2 threads, 2 proxies, 2 pages, 2 attempts, all four loops, fair | `ReportIsTrue`, `SuccessAnswersAll`, `CaptchaFailsTask`, `StopsAtBlock`, `RequestsRunOut`, `TaskEnds`; `ImplementsTask`: a loop is a task of `ScrapeBySource` |
| `by_source` | 2 numbers, KBO with both pages over Tor, 2 more sites, one disabled | `SitesAfterKbo`, `StatutesStoredOnce`, `SuccessIsKept`, `ClaimsAreFinalized` |
| `kbo_without_tor` | `kbo_use_tor = FALSE` | **violated**: the other sites are skipped after KBO succeeded |
| `sites_without_kbo` | `sources = statutes,bnb` | **violated**: an enabled site is never started |
| `misspelled_source` | an unknown name in `sources` | **violated**: the claims are never given back |
| `raw_store` | 2 documents, 3 kinds, a good, a broken and a refused page, 2 snapshots | `RegisteredIsReadable`, `SuccessIsRegistered`, `ImplementsRegistry`; `InconsistencyIsReal`, `KboPageNeverGoesBack` |
| `bootstrap` | 2 runs, 4 enterprises, 2 files that share one, 2 sites, batches of 2 | `LeftBehindOnlyByFailure`, `FreshVolumeOnce`, `MarkerMeansDone`; `ImplementsLifecycle` for its batches |

The violated runs each state a sentence of the documentation or of a docstring; `PROJECT.json` quotes it under
"findings" next to what the code does.

Bounds. Two sessions are enough for every conflict on one row, and two enterprises for opposite lock orders;
each session runs any program after another, so longer histories of programs come from the same two. `MaxVersion`
stops the re-queueing of old rows: an enterprise is structured at version 5, so that in the run `pipeline`, with 6, it
goes back to a queue from STRUCTURED as well as from both failures and is forced out of the parse queue, while another
session may still have the object it read before; the liveness and the violated runs need no more than 4, which only
failed scrapes go back from. With three lanes there is a first, a middle and a last one, with three cycles a cycle that
is neither the first nor the last, and each of the two threads may answer for both numbers; a number that waits for a
thread does not act on the others, which the proofs show for any number of them. `MaxRows` (2) tells "no row", "one" and
"more" apart for the statutes, whose rows are not to be doubled; of the other pages only "none" and "some" matters
(`Counted`). `MaxTries` (2) is the `retries=1` of the tasks. In `source_task` two numbers, pages, proxies and
attempts each have a first and a last; all proxies can be out, and one can come back while the other fails. Two
documents are an older and a newer one of the same or of different kinds, two snapshots an earlier and a later; a third
statement of the dashboard can see what the first did not. In `bootstrap` one batch is full and one partial, the limit
of a limited run (1) and the cap of the others (2) are both reached, one enterprise is in two files and one in none, so
that only a parse can discover it. The proofs have none of these bounds.

Fairness. A program that has started is scheduled: fetches have timeouts, and PostgreSQL serves the waiters of a row
lock in order (strong fairness of `Continue`, because a row lock is free again and again). Nothing makes a program start.
Threads of a pool are scheduled, and `threading.Lock` is granted in the end (strong fairness of a thread's steps).
A request of `SourceTask` has a timeout and its thread is scheduled, and the executor's loop comes to its end (weak
fairness of `ThreadStep` and `Finish`); nothing makes the health check run. Airflow starts a task when its trigger rule
allows and a running task goes on (weak fairness). A killed process is not assumed to be restarted: nothing in the code
does it. `EnterpriseRecord` and `Bootstrap` are checked for safety only and assume no fairness.

`CHECK_DEADLOCK FALSE` is set for `ScrapeBySource`, `SourceTask` and `Bootstrap` only: a run of a DAG ends, a task ends,
and every run of the bootstrap ends.

## What is proved

`Pipeline_proofs`, for any number of enterprises and sessions, any set of programs, any `MaxVersion`, with or without
crashes and exceptions: `TypeCorrect`, `ClaimsAreExclusive`, `HeldStaysBusy`, `StructuredKeepsEvidence`, `VersionsGrow`.
The only assumptions are those of the constants: `Nobody` is no session, `Programs` are programs that exist, `Crashing`
and `Raising` are TRUE or FALSE.

`HeldIsBusy` alone is not inductive. These facts carry it (`IInv`):
- `HeldIsUncontested`: nobody else locks a claimed row. A program that moves unclaimed rows must find them, under the
  lock, in the resting or queued state it read; a claimed row is busy, so the test fails;
- `HeapIsNewer` and `FreeRowsAreCommitted`: an uncommitted write has a higher version than the committed row and
  exists only under a lock. Hence a stale object whose state happens to be current again still fails the version test;
- `StructuredIsDrafted`: STRUCTURED is written only by a session about to commit that has the snapshot in the same
  transaction;
- `SessionInv`: what a session locks and holds at each place of its program.

The proof has one lemma per action. `PrivateStep` covers the steps that touch only the session's own variables,
`OwnWrite` those that write one row under its lock, `RollbackPreserves` and `CommitPreserves` the two ends of a
transaction. `VersionsGrow` follows from the invariant, because only `Commit` changes `db`, and it publishes
rows that `HeapIsNewer` holds for.

A scrape does strand its enterprises in SCRAPING when it is killed, and also when it raises between its committed claim
and its finalize; `misspelled_source` shows one such way, `bootstrap_workflow.py:46` is another, and the rule of
`acquisition/FREEZE.md:47` (an exception ends in FAILED_SCRAPE) is kept by `scrape_enterprise` for what it raises while it
fetches, not by the three steps of prepare, sites and finalize. What holds for every step, with kills and exceptions anywhere, is `OthersStrandNothing`: an enterprise is left in SCRAPING without a worker
only by a fault of its own worker, at a moment when that worker could still have ended the claim (`CanEnd`: it waits for
nobody, the row is free or its own, and the transition would pass its tests). No lock, commit, rollback or aborted
deadlock of another session strands it, and no scrape that comes to its end. A second invariant (`ScrapeInv`, theorem
`ScrapersEndTheirClaims`) carries it: a row reads SCRAPING without being committed so only under the lock of a session
that is claiming, and a scraper lets go of an enterprise only in a transaction that has taken it out of SCRAPING. A parse
has no such theorem: `stranded_parse` shows another session's insert leave an enterprise in PARSING.

`Pipeline_refinement`, under the same assumptions: `Refinement`, that `Pipeline` implements `EnterpriseLifecycle`. The
mapping shows the committed state of each enterprise (`CommittedState`) and the session that has committed a claim on it
(`ClaimHolder`). A commit is a claim, a release or an enqueueing, a rollback or a killed process abandons claims, and
every other statement is a stutter. `IInv` says what a session may do next, not from where it came; a commit has to be
a legal step from the state that was committed before, so a second invariant (`RInv`, theorem `Origins`) records
for every place of a program from which committed states the open transaction has moved its rows. `OthersKeep` shows
once that a step of one session does not disturb this for the others; then there is one lemma per action again.

`KboTorLanes_proofs`, for any number of threads, numbers, lanes and cycles: `TypeCorrect`, `GoesForward`,
`GivesUpAfterWalks`. The invariant says that the position of the run, its cycle and its lane, never moves back, and that
the place where a thread was stopped is behind it by the time the thread asks again: another thread may have moved
the run on, never back, because whoever restarts a cycle also counts it.
`CyclesCounted` is what a walk over the lanes may cost: every thread that has run out of lanes may begin a cycle, so while
the run is on its last lane each thread is owed one (`Owed`), and the cycles begun and owed are at most one for each
thread and each walk (`WalkInv`). A number given up on the last lane, with no cycle left, has then seen one in so many of
the cycles allowed walked to the end. Without `TorLoop` there is one cycle, walked once; this case is in the theorem only.

Three more theorems go beyond single positions. `NumbersApart` ties each number under way to one thread and says that
its main page is missing until it has its answer. With it, `NobodyIsStuck`: `restart_loop_cycle` sleeps with the lock
held, but while the pass runs the caller or some thread can always go on. And `Refinement`: a pass implements
`ScrapeBySource!Run("kbo")`, a fetch being the storing of pages, an answer the end of a number, the caller's return or a
raise the end of a try. `OneThreadLeavesNoLane` is the boundary of the finding `lane_burned`: with one thread the
docstring of `KboTorLaneCoordinator` is right. The pool is assumed finite and not empty (`max(1, min(.., 32))` in
`worker.py`).

`ScrapeBySource_proofs`, for any enterprises, any sites beside `kbo`, `prepare` and `finalize`, any parameters of the
run and any rows left by earlier ones: `TypeCorrect`, `KboComesFirst`, `RetriesStoreNoStatutesTwice`,
`FinalizeKeepsSuccess`. `TaskOrder` says which tasks have ended when another starts, `OkIsStored` that what a try counts
as stored has a row, whichever try left it, `StatutesAwaited` that what a running statutes task may still store has none.
`OrderHolds` adds which task waits for which and what `kbo_ok_numbers` is (`Order`, `KboResult`). From it
`NoTaskWaitsForEver`, what is safe in `ClaimsAreFinalized`: until every site is settled, so that `finalize_scrape` may
start, some task has a step to make whatever was skipped, passed over or retried. And `OverTorNoSiteIsLost`, the boundary
of the finding `kbo_without_tor`: with `UseTor` no site is skipped after KBO succeeded for a number.

`SourceTask_proofs`, for any numbers, threads, proxies, pages and attempts and any answers: `TypeCorrect`,
`ReportsAreTrue`, `SuccessIsComplete`, `CaptchasFail`, `BlocksSilence`. `ThreadInv` ties `job_ok` to
the pages stored so far, `Apart` keeps two threads off one number, `Awaited` says that a number without an answer is
waiting or worked on, `EndedInv` and `BlockedInv` what is left when the task is over and after a captcha.
`RequestsAreUsedUp` is what is safe in `TaskEnds`: with any retry limits, every answer and every look at an empty pool
uses up one of finitely many requests. `Refinement` says that a task does to the DAG what `ScrapeBySource` has it do. It
needs `PagesInOrder` (`PagesBehind`: pages come in order, none for a number that waits, and one is missing when a
captcha is raised) and the hypothesis that a number has at most two pages, as many as `ScrapeBySource` names: `kbo.py:36`
builds one or two, the other sites one.

`RawStore_proofs`, for any number of calls, kinds and pages, and any interruption: `TypeCorrect`, `RowsAreReadable`,
`SuccessLeavesARow`, and `Refinement`, that `RawStore` implements `DocumentRegistry`. `CallInv` says how far the files
are at each place of a call, `DatesDiffer` that no two calls have the same `scraped_at`; that the clock gives each call a
date of its own is an assumption of the model. `EnterpriseRecord_proofs` shows that the parse and the dashboard leave
the store alone (`UsesTheStore`, so the theorems above hold there as well), and `InconsistenciesAreReal` and
`KboPagesDoNotGoBack` for any number of documents. For the first, whoever has read STRUCTURED will find a snapshot
(`ViewInv`), since none is ever deleted; for the second, a parse has read every row that an earlier snapshot took its
identity from (`ParserInv`), so that it prefers only a newer page of the same kind.

`Bootstrap_proofs`, for any number of runs, files and sites, any finite set of enterprises, any size and number of
batches: `TypeCorrect`, `OnlyFailuresLeaveClaims`, `VolumeIsFilledOnce`, `MarkerComesLast`. The last rests on a count:
while a queue is not empty, what is in it and what the batches so far have taken out of it are together no more than
all enterprises (`Suffices`), so the cap is not reached before the queue is empty. This needs that the set
of enterprises is finite, and that nothing enters the queue of a phase that is under way. `Refinement` says that
concurrent bootstraps, with failures anywhere, move enterprises as `EnterpriseLifecycle` allows, the same specification
the sessions of `Pipeline` implement; `BatchIsBusy` carries it: the batch in hand is in the busy state of its stage, and
only one run, the one with the slot of `ingest_pool`, has a batch.

Only model-checked: the liveness properties (`ProgramsEnd`, `PassEnds`, `TaskEnds`, `ClaimsAreFinalized`), which the
provers cannot reason about under fairness. For the last three the theorems `NobodyIsStuck`, `RequestsAreUsedUp` and
`NoTaskWaitsForEver` are the part that needs no fairness. Every safety property, every action property and all five
refinements that a passing run checks are also proved.

## What the models show besides

Read off the code while modelling it, and represented as it is:

- A captcha in one thread of a pool does not stop the others: the executor finishes every other number before the task
  fails (`worker.py:680`), although `models.py:54` calls for an immediate failure. HTTP 429 is retried on the same
  connection up to the maximum, although `worker.py:519` speaks of an immediate stop. `StopsAtBlock` states what does
  hold: the loops with one request at a time are silent after a block that ends a job.
- Threads that run out of lanes together each restart the cycle, so two threads can spend two cycles on one walk. When
  one restarts into the last cycle, at lane 0, and another then finds no cycle left (`can_loop_again`), the other gives
  its number up as `tor_lanes_exhausted` with every lane of that cycle untried. `GiveUpAfterWalks` bounds the loss.
- The answer of the health check to a proxy may be older than a failure a job has recorded, and then brings the
  proxy back, once for each proxy. `TaskEnds` and `RequestsRunOut` hold whatever it writes.
- The store has markers of error pages that `validate_fetch` has not, so a page can be accepted and then refused by an
  exception; the pool's loop keeps that for its number, the sequential loops end the task.
- `sha256` is written into sidecar and row and compared by nobody; what makes a row lead to a whole page is only the
  order of the writes. A host that loses files it had acknowledged (there is no fsync) is outside the model.
- The newest detail page masks the older ones even when it cannot be parsed or names nobody.
- The dashboard's list of documents may be older than the snapshot beside it; its conclusions are not wrong for it.
- A cycle of the bootstrap that raises leaves its claims in SCRAPING; `LeftBehindOnlyByFailure` says this is
  the only way. A database that does not answer counts as an empty one in the second check (`blind`). What a parse in
  the extraction phase discovers or puts back is not scraped by that bootstrap any more.

## Not modelled

- Ages and clocks: a due enterprise is any resting one with a document. `lock_until` and `lock_owner` are left out
  because nothing reads them. An enterprise in FAILED_SCRAPE without any document is never due again
  (`scheduler.py:40`); the documents do not say whether it should be.
- RAW_STORED and FAILED_VALIDATE: no code assigns them.
- The failure `empty_snapshot_payload` in `_parse_enterprise`: `consolidate_parsed_documents` always returns an
  `enterprise_detail`, so the branch is not reached.
- The weights of proxies, which bias a choice that is free here; `ban_proxy_label` and `prepare_proxy_pool`, which
  nothing calls; `store_raw_bundle` with `wire_bridge=False`, which leaves a bundle without a row on purpose.
- Rows of `discoveries` and of business status: written, never read by the pipeline.
- Other DAGs beside a bootstrap. Two are on a daily schedule. `07_analytics_refresh` moves no enterprise.
  `06_lifecycle_refresh` would re-queue an enterprise at rest whose last SUCCESS page is `LIFECYCLE_MAX_AGE_DAYS` (14)
  old; a bootstrap begins with no page, so none is due before it is 14 days old, unless `force` starts it on a volume in
  use. `MarkerMeansDone` says nothing of those cases, nor of a DAG started by hand meanwhile. (`Pipeline` has the tick
  and the others beside every scrape and parse.)
- The counters and the quarantine file of `ingest_csv`: reported, never read by the pipeline.
- Parsing of HTML, CSV decoding, HTTP transport, logging, monitoring, views, translations, migrations: data or pure I/O.

## Plan

1. Done: every component that moves an enterprise or a document, the refinements that join the modules, and the proofs
   above.
2. `Analytics`: two refreshes that delete and insert the same aggregates, several snapshots of one enterprise.
3. `IngestBatches`: each number counted once over batches and repeats of a file.
4. `EnterpriseRecord` inside `Pipeline`: several parses of one enterprise at once are excluded there by the claim;
   the composition would replace the one parser of `EnterpriseRecord` by that theorem.
