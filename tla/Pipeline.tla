------------------------------ MODULE Pipeline -------------------------------
(***************************************************************************)
(* The programs that move enterprises through their states, as concurrent  *)
(* database sessions over StateStore: CSV ingestion, the two ways to       *)
(* scrape, parsing, the dashboard's forced scrape and parse, the discovery *)
(* fan-out and the lifecycle tick.  One action is one database statement,  *)
(* or several that hold the same row lock; between two of them any other   *)
(* session may run.  What a page contains is not modelled: a scrape or a   *)
(* parse ends in any of the ways the code can end it.                      *)
(***************************************************************************)
EXTENDS StateStore

CONSTANTS
    Programs,       \* the programs that are run, a subset of AllPrograms
    Crashing,       \* TRUE when processes may be killed
    Raising,        \* TRUE when a program may raise for reasons of its own
    MaxVersion      \* only rows below this version are put back in a queue

Scrapers == {"scrape_batch", "scrape_by_source", "force_scrape"}
Parsers == {"parse_batch", "force_parse"}
Forced == {"force_scrape", "force_parse"}
AllPrograms == Scrapers \cup Parsers \cup {"ingest_csv", "fanout", "lifecycle_tick"}

ASSUME ProgramsAssumption == Programs \subseteq AllPrograms
ASSUME FaultsAssumption == Crashing \in BOOLEAN /\ Raising \in BOOLEAN
ASSUME MaxVersionAssumption == MaxVersion \in Nat

VARIABLES
    program,    \* the program each session runs
    pc,         \* how far it is
    held,       \* the enterprises whose claim it has committed
    todo,       \* the enterprises its open transaction has yet to handle
    current,    \* the claimed enterprise its open transaction scrapes or parses
    draft,      \* the snapshots its open transaction has added
    focus,      \* the enterprise it looks up
    seen,       \* the row object it has read for focus
    docs,       \* enterprises with a SUCCESS row in raw_documents
    snaps       \* enterprises with a snapshot

sessionVars == <<program, pc, held, todo, current, draft, focus, seen>>
vars == <<storeVars, sessionVars, docs, snaps>>

PC == {"idle", "inserting", "walking", "moving", "forcing", "claiming",
       "working", "closing"}

TypeOK ==
    /\ StoreTypeOK
    /\ program \in [Session -> AllPrograms \cup {"none"}]
    /\ pc \in [Session -> PC]
    /\ held \in [Session -> SUBSET Enterprise]
    /\ todo \in [Session -> SUBSET Enterprise]
    /\ current \in [Session -> Enterprise \cup {Nobody}]
    /\ draft \in [Session -> SUBSET Enterprise]
    /\ focus \in [Session -> Enterprise \cup {Nobody}]
    /\ seen \in [Session -> Row]
    /\ docs \subseteq Enterprise
    /\ snaps \subseteq Enterprise

Init ==
    /\ StoreInit
    /\ program = [s \in Session |-> "none"]
    /\ pc = [s \in Session |-> "idle"]
    /\ held = [s \in Session |-> {}]
    /\ todo = [s \in Session |-> {}]
    /\ current = [s \in Session |-> Nobody]
    /\ draft = [s \in Session |-> {}]
    /\ focus = [s \in Session |-> Nobody]
    /\ seen = [s \in Session |-> NoRow]
    /\ docs = {}
    /\ snaps = {}

Resting == {"STRUCTURED", "FAILED_SCRAPE", "FAILED_PARSE"}
QueueOf(prog) == IF prog \in Scrapers THEN "QUEUED_SCRAPE" ELSE "QUEUED_PARSE"
BusyOf(prog) == IF prog \in Scrapers THEN "SCRAPING" ELSE "PARSING"

Young(e) == db[e].version < MaxVersion

------------------------------------------------------------------------------
(* How a program starts, goes on and ends.                                 *)

Start(s, prog, label, S) ==
    /\ pc[s] = "idle"
    /\ prog \in Programs
    /\ program' = [program EXCEPT ![s] = prog]
    /\ pc' = [pc EXCEPT ![s] = label]
    /\ todo' = [todo EXCEPT ![s] = S]

GoTo(s, label) == pc' = [pc EXCEPT ![s] = label]

\* The transaction is over; the session goes on with the claims it still holds,
\* or ends.
Resume(s, claims) ==
    /\ held' = [held EXCEPT ![s] = claims]
    /\ pc' = [pc EXCEPT ![s] = IF claims = {} THEN "idle" ELSE "working"]
    /\ program' = [program EXCEPT ![s] = IF claims = {} THEN "none" ELSE @]
    /\ todo' = [todo EXCEPT ![s] = {}]
    /\ current' = [current EXCEPT ![s] = Nobody]
    /\ draft' = [draft EXCEPT ![s] = {}]
    /\ focus' = [focus EXCEPT ![s] = Nobody]
    /\ seen' = [seen EXCEPT ![s] = NoRow]

(***************************************************************************)
(* An exception leaves the transaction of enterprise e.  The batch loops   *)
(* log it, roll back and take the next enterprise; e is no longer theirs,  *)
(* but its row keeps the busy state.  Every other program ends.            *)
(***************************************************************************)
Fail(s, e) ==
    /\ Rollback(s)
    /\ Resume(s, IF program[s] \in {"scrape_batch", "parse_batch"}
                 THEN held[s] \ {e} ELSE {})

(***************************************************************************)
(* The exceptions for which no other session is the reason: an unknown     *)
(* name in sources, found when the claims are already committed, a site    *)
(* branch that raises before run_scrape_finalize, a lost connection, a     *)
(* document that cannot be stored.                                         *)
(***************************************************************************)
Raise(s) ==
    /\ Raising /\ pc[s] # "idle"
    /\ \E e \in IF pc[s] = "working" THEN held[s] ELSE {current[s]} : Fail(s, e)
    /\ UNCHANGED <<docs, snaps>>

\* Deviation: the snapshot is added in a transaction that is never committed.
PublishWithoutSnapshot(s) == Commit(s) /\ UNCHANGED snaps

\* The session commits, and with the writes its snapshots become visible.
Publish(s) ==
    /\ Commit(s)
    /\ snaps' = snaps \cup draft[s]

------------------------------------------------------------------------------
(* Claims.                                                                 *)

\* claim_enterprises_for_scrape / _for_parse, the SELECT.
BeginClaim(s, prog, S) ==
    /\ prog \in (Scrapers \cup Parsers) \ Forced
    /\ S # {} /\ S \subseteq Unlocked(QueueOf(prog))
    /\ Start(s, prog, "claiming", S)
    /\ SelectSkipLocked(s, S)
    /\ UNCHANGED <<held, current, draft, focus, seen, docs, snaps>>

(***************************************************************************)
(* The transition of one claimed row.  A forced command that found the row *)
(* in its queue comes here without its lock: the row may have moved, and   *)
(* then the command fails.                                                 *)
(***************************************************************************)
ClaimOne(s, e) ==
    /\ pc[s] = "claiming" /\ e \in todo[s]
    /\ CanLock(s, e)
    /\ IF Applies(e, heap[e], QueueOf(program[s]))
       THEN /\ TransitionState(s, e, heap[e], BusyOf(program[s]))
            /\ todo' = [todo EXCEPT ![s] = @ \ {e}]
            /\ UNCHANGED <<program, pc, held, current, draft, focus, seen>>
       ELSE Fail(s, e)
    /\ UNCHANGED <<docs, snaps>>

CommitClaim(s) ==
    /\ pc[s] = "claiming" /\ todo[s] = {}
    /\ Commit(s)
    /\ held' = [held EXCEPT ![s] = Locked(s)]
    /\ todo' = [todo EXCEPT ![s] = IF program[s] = "scrape_by_source" THEN Locked(s) ELSE {}]
    /\ GoTo(s, "working")
    /\ UNCHANGED <<program, current, draft, focus, seen, docs, snaps>>

------------------------------------------------------------------------------
(* The end of a claim: the transition out of the busy state, and COMMIT.   *)

Finish(s, e, result) ==
    /\ CanLock(s, e)
    /\ IF Applies(e, heap[e], BusyOf(program[s]))
       THEN /\ TransitionState(s, e, heap[e], result)
            /\ current' = [current EXCEPT ![s] = e]
            /\ GoTo(s, "closing")
            /\ UNCHANGED <<program, held, todo, draft, focus, seen>>
       ELSE Fail(s, e)
    /\ UNCHANGED <<docs, snaps>>

CommitOne(s) ==
    /\ pc[s] = "closing"
    /\ Publish(s)
    /\ Resume(s, held[s] \ {current[s]})
    /\ UNCHANGED docs

------------------------------------------------------------------------------
(* Scraping.                                                               *)

\* bridge._on_raw_stored: the document's row is committed by a session of its own.
StoreRawDocument(s, e) ==
    /\ pc[s] = "working" /\ program[s] \in Scrapers
    /\ e \in held[s] /\ Locked(s) = {}
    /\ docs' = docs \cup {e}
    /\ UNCHANGED <<storeVars, sessionVars, snaps>>

(***************************************************************************)
(* scrape_enterprise, its last transition: QUEUED_PARSE when every job     *)
(* succeeded (the bridge that records documents may be off), FAILED_SCRAPE *)
(* when one failed or raised.                                              *)
(***************************************************************************)
FinishScrape(s, e, result) ==
    /\ pc[s] = "working" /\ program[s] \in {"scrape_batch", "force_scrape"}
    /\ e \in held[s]
    /\ Finish(s, e, result)

\* Deviation: a number without a document is left as it is.
FinalizesDocumented(e) == e \in docs /\ Applies(e, heap[e], "SCRAPING")

\* Only a StateTransitionError leaves a number out.
Finalizes(e) == Applies(e, heap[e], "SCRAPING")

(***************************************************************************)
(* finalize_scrape_for_enterprises: one transaction for the whole run, one *)
(* row per step.  A row that is not in SCRAPING is reported and skipped.   *)
(***************************************************************************)
FinalizeOne(s, e, result) ==
    /\ pc[s] = "working" /\ program[s] = "scrape_by_source" /\ e \in todo[s]
    /\ CanLock(s, e)
    /\ result = "QUEUED_PARSE" => e \in docs
    /\ IF Finalizes(e)
       THEN TransitionState(s, e, heap[e], result)
       ELSE SelectSkipLocked(s, {e})
    /\ todo' = [todo EXCEPT ![s] = @ \ {e}]
    /\ UNCHANGED <<program, pc, held, current, draft, focus, seen, docs, snaps>>

CommitFinalize(s) ==
    /\ pc[s] = "working" /\ program[s] = "scrape_by_source" /\ todo[s] = {}
    /\ Commit(s)
    /\ Resume(s, {})
    /\ UNCHANGED <<docs, snaps>>

------------------------------------------------------------------------------
(* Parsing.  The transaction of one enterprise reads its documents, adds a *)
(* snapshot, registers or enqueues the enterprises it links to, and        *)
(* finishes it.                                                            *)

\* No raw document, or none that parses.
ParseFails(s, e) ==
    /\ pc[s] = "working" /\ program[s] \in Parsers /\ e \in held[s]
    /\ Finish(s, e, "FAILED_PARSE")

\* append_snapshot; D are the discovery candidates of the documents.
ParseDocuments(s, e, D) ==
    /\ pc[s] = "working" /\ program[s] \in Parsers /\ e \in held[s]
    /\ e \in docs
    /\ D \subseteq {x \in Enterprise : Young(x)} \ {e}
    /\ current' = [current EXCEPT ![s] = e]
    /\ draft' = [draft EXCEPT ![s] = {e}]
    /\ todo' = [todo EXCEPT ![s] = D]
    /\ GoTo(s, "walking")
    /\ UNCHANGED <<storeVars, program, held, focus, seen, docs, snaps>>

FinishParse(s) ==
    /\ pc[s] = "walking" /\ program[s] \in Parsers /\ todo[s] = {}
    /\ Finish(s, current[s], "STRUCTURED")

------------------------------------------------------------------------------
(* The programs that walk over enterprises they have not claimed.          *)

\* ingest_csv: a batch of numbers of the file.
BeginIngest(s, S) ==
    /\ S # {}
    /\ Start(s, "ingest_csv", "walking", S)
    /\ UNCHANGED <<storeVars, held, current, draft, focus, seen, docs, snaps>>

\* fanout_from_recent_snapshots: the links in recent snapshots.
BeginFanout(s, D) ==
    /\ D # {}
    /\ \A x \in D : Young(x) /\ snaps \ {x} # {}
    /\ Start(s, "fanout", "walking", D)
    /\ UNCHANGED <<storeVars, held, current, draft, focus, seen, docs, snaps>>

\* lifecycle_tick: select_due_enterprises, one plain SELECT.
BeginTick(s, S) ==
    /\ S # {}
    /\ \A e \in S : Young(e) /\ e \in docs /\ db[e].state \in Resting
    /\ Start(s, "lifecycle_tick", "walking", S)
    /\ UNCHANGED <<storeVars, held, current, draft, focus, seen, docs, snaps>>

\* What the walk does with a row, by the state a plain SELECT of it returns.
Inserts(s, row) == program[s] = "ingest_csv" \/ row.state = "ABSENT"
\* Deviation: a row that looks stuck in its busy state is put back in the queue.
RequeuesBusy(s, row) ==
    /\ ~Inserts(s, row)
    /\ row.state \in {"SCRAPING", "PARSING", "FAILED_SCRAPE", "FAILED_PARSE"}

Requeues(s, row) ==
    /\ ~Inserts(s, row)
    /\ row.state \in IF program[s] = "lifecycle_tick" THEN Resting
                     ELSE {"NEW", "FAILED_SCRAPE", "FAILED_PARSE"}

LookUpToInsert(s, x) ==
    /\ pc[s] = "walking" /\ x \in todo[s]
    /\ Inserts(s, Visible(s, x))
    /\ focus' = [focus EXCEPT ![s] = x]
    /\ GoTo(s, "inserting")
    /\ UNCHANGED <<storeVars, program, held, todo, current, draft, seen, docs, snaps>>

LookUpToRequeue(s, x) ==
    /\ pc[s] = "walking" /\ x \in todo[s]
    /\ Requeues(s, Visible(s, x))
    /\ focus' = [focus EXCEPT ![s] = x]
    /\ seen' = [seen EXCEPT ![s] = Visible(s, x)]
    /\ GoTo(s, "moving")
    /\ UNCHANGED <<storeVars, program, held, todo, current, draft, docs, snaps>>

LookUpToSkip(s, x) ==
    /\ pc[s] = "walking" /\ x \in todo[s]
    /\ ~Inserts(s, Visible(s, x)) /\ ~Requeues(s, Visible(s, x))
    /\ todo' = [todo EXCEPT ![s] = @ \ {x}]
    /\ UNCHANGED <<storeVars, program, pc, held, current, draft, focus, seen, docs, snaps>>

WalkOn(s) ==
    /\ todo' = [todo EXCEPT ![s] = @ \ {focus[s]}]
    /\ focus' = [focus EXCEPT ![s] = Nobody]
    /\ seen' = [seen EXCEPT ![s] = NoRow]
    /\ GoTo(s, "walking")
    /\ UNCHANGED <<program, held, current, draft>>

(***************************************************************************)
(* The INSERT of an enterprise.  It waits while another session is         *)
(* inserting the same key.  Ingestion ignores a key that exists (ON        *)
(* CONFLICT DO NOTHING) and inserts in QUEUED_SCRAPE; discovery inserts    *)
(* NEW and moves the row, locked by now, to QUEUED_SCRAPE, and a key that  *)
(* exists violates the primary key.                                        *)
(***************************************************************************)
Insert(s) ==
    LET x == focus[s]
        exists == db[x].state # "ABSENT"
        firstVersion == IF program[s] = "ingest_csv" THEN 1 ELSE 2
    IN  /\ pc[s] = "inserting"
        /\ exists \/ CanLock(s, x)
        /\ \/ /\ ~exists
              /\ InsertRow(s, x, [state |-> "QUEUED_SCRAPE", version |-> firstVersion])
              /\ WalkOn(s)
           \/ /\ exists /\ program[s] = "ingest_csv"
              /\ WalkOn(s)
              /\ UNCHANGED storeVars
           \/ /\ exists /\ program[s] # "ingest_csv"
              /\ Fail(s, current[s])
        /\ UNCHANGED <<docs, snaps>>

\* enqueue_if_new and lifecycle_tick: the transition to QUEUED_SCRAPE of a row
\* object read earlier.
Requeue(s) ==
    LET x == focus[s]
    IN  /\ pc[s] = "moving"
        /\ CanLock(s, x)
        /\ IF Applies(x, seen[s], seen[s].state)
           THEN TransitionState(s, x, seen[s], "QUEUED_SCRAPE") /\ WalkOn(s)
           ELSE Fail(s, current[s])
        /\ UNCHANGED <<docs, snaps>>

EndWalk(s) ==
    /\ pc[s] = "walking" /\ program[s] \notin Parsers /\ todo[s] = {}
    /\ Publish(s)
    /\ Resume(s, {})
    /\ UNCHANGED docs

------------------------------------------------------------------------------
(* The dashboard's scrape and parse buttons.                               *)

\* The states from which _requeue puts a row in the queue, but for that queue itself.
ForcedFrom(prog) ==
    IF prog = "force_scrape" THEN Resting \cup {"QUEUED_PARSE"}
    ELSE {"STRUCTURED", "FAILED_PARSE"}

\* force_scrape_enterprise, force_parse_enterprise and the read of _requeue, with
\* the two ways to go on.
BeginForce(s, prog, e) ==
    /\ prog \in Forced /\ Young(e)
    /\ \/ /\ db[e].state = QueueOf(prog)
          /\ Start(s, prog, "claiming", {e})
          /\ UNCHANGED <<focus, seen>>
       \/ /\ db[e].state \in ForcedFrom(prog)
          /\ Start(s, prog, "forcing", {e})
          /\ focus' = [focus EXCEPT ![s] = e]
          /\ seen' = [seen EXCEPT ![s] = db[e]]
    /\ UNCHANGED <<storeVars, held, current, draft, docs, snaps>>

\* The transition to the queue; that to the busy state follows in the same
\* transaction.
ForceRequeue(s) ==
    LET e == focus[s]
    IN  /\ pc[s] = "forcing"
        /\ CanLock(s, e)
        /\ IF Applies(e, seen[s], seen[s].state)
           THEN /\ TransitionState(s, e, seen[s], QueueOf(program[s]))
                /\ focus' = [focus EXCEPT ![s] = Nobody]
                /\ seen' = [seen EXCEPT ![s] = NoRow]
                /\ GoTo(s, "claiming")
                /\ UNCHANGED <<program, held, todo, current, draft>>
           ELSE Fail(s, e)
        /\ UNCHANGED <<docs, snaps>>

------------------------------------------------------------------------------
(* The database and the operating system.                                  *)

\* The row each session waits for, when it waits.
WaitsFor(s) ==
    CASE pc[s] = "inserting" /\ db[focus[s]].state = "ABSENT" -> {focus[s]}
      [] pc[s] \in {"moving", "forcing"} -> {focus[s]}
      [] pc[s] = "claiming" -> todo[s]
      [] OTHER -> {}

Blocked(s, t) == t # s /\ \E e \in WaitsFor(s) : lock[e] = t

\* A cycle of sessions in which each waits for the next: a set in which each
\* waits for a member, and no smaller one.
Deadlocked(C) ==
    /\ C # {} /\ \A s \in C : \E t \in C : Blocked(s, t)
    /\ \A D \in SUBSET C : D \notin {{}, C} => \E s \in D : \A t \in D : ~Blocked(s, t)

\* PostgreSQL aborts one session of the cycle.
AbortDeadlock(s) ==
    /\ \E C \in SUBSET Session : s \in C /\ Deadlocked(C)
    /\ Fail(s, current[s])
    /\ UNCHANGED <<docs, snaps>>

\* The process is killed: its transaction is rolled back and its claims are lost.
Crash(s) ==
    /\ Crashing /\ pc[s] # "idle"
    /\ Rollback(s)
    /\ Resume(s, {})
    /\ UNCHANGED <<docs, snaps>>

------------------------------------------------------------------------------
Begin(s) ==
    \/ \E S \in SUBSET Enterprise :
        \/ \E prog \in Programs : BeginClaim(s, prog, S)
        \/ BeginIngest(s, S)
        \/ BeginFanout(s, S)
        \/ BeginTick(s, S)
    \/ \E prog \in Programs, e \in Enterprise : BeginForce(s, prog, e)

\* A step of a transaction already open.
Continue(s) ==
    \/ \E e \in Enterprise :
        \/ ClaimOne(s, e)
        \/ LookUpToInsert(s, e) \/ LookUpToRequeue(s, e) \/ LookUpToSkip(s, e)
    \/ CommitClaim(s) \/ CommitOne(s) \/ CommitFinalize(s)
    \/ FinishParse(s) \/ Insert(s) \/ Requeue(s) \/ EndWalk(s)
    \/ ForceRequeue(s) \/ AbortDeadlock(s)

\* The work on a claimed enterprise, and its result.
Work(s) ==
    \E e \in Enterprise :
        \/ ParseFails(s, e)
        \/ \E D \in SUBSET Enterprise : ParseDocuments(s, e, D)
        \/ \E result \in {"QUEUED_PARSE", "FAILED_SCRAPE"} :
            FinishScrape(s, e, result) \/ FinalizeOne(s, e, result)

Next ==
    \E s \in Session :
        \/ Begin(s) \/ Continue(s) \/ Work(s) \/ Raise(s) \/ Crash(s)
        \/ \E e \in Enterprise : StoreRawDocument(s, e)

Spec == Init /\ [][Next]_vars

(***************************************************************************)
(* A program that has started runs: fetches and parses time out or return, *)
(* and PostgreSQL serves a row lock's queue in order, so that a session is *)
(* not overtaken at it for ever.  Nothing makes a program start.           *)
(***************************************************************************)
Fairness == \A s \in Session : SF_vars(Continue(s)) /\ WF_vars(Work(s))

FairSpec == Spec /\ Fairness

------------------------------------------------------------------------------
(* Properties.                                                             *)

(***************************************************************************)
(* No two sessions hold a claim on the same enterprise, although neither   *)
(* lock_owner nor lock_until is ever compared: the skip-locked SELECT and  *)
(* the state checks of every other program have to suffice.                *)
(***************************************************************************)
ClaimExclusive ==
    \A s, t \in Session : s # t => held[s] \cap held[t] = {}

(***************************************************************************)
(* As long as a session holds a claim the committed row is in the busy     *)
(* state of its program, whatever ingestion, discovery, the lifecycle tick *)
(* or the dashboard do meanwhile: the result a worker writes at the end    *)
(* always finds SCRAPING or PARSING.                                       *)
(***************************************************************************)
HeldIsBusy ==
    \A s \in Session : \A e \in held[s] : db[e].state = BusyOf(program[s])

(***************************************************************************)
(* A structured enterprise has a committed snapshot and a raw document it  *)
(* was parsed from: the snapshot is not lost with a rolled-back parse and  *)
(* the state is not committed without it.                                  *)
(***************************************************************************)
StructuredHasEvidence ==
    \A e \in Enterprise : db[e].state = "STRUCTURED" => e \in docs /\ e \in snaps

(***************************************************************************)
(* Every committed change of a row raises its version.  A session that     *)
(* writes from a row object read before another session's commit would     *)
(* take the version back; the version test of transition_state stops it    *)
(* even when the state is again the one it read.                           *)
(***************************************************************************)
VersionGrows ==
    [][\A e \in Enterprise : db'[e] # db[e] => db'[e].version > db[e].version]_vars

\* The state of each enterprise and its worker, as the other programs can know them.
CommittedState == [e \in Enterprise |-> db[e].state]
ClaimHolder ==
    [e \in Enterprise |->
        IF \E s \in Session : e \in held[s]
        THEN CHOOSE s \in Session : e \in held[s] ELSE Nobody]

Lifecycle ==
    INSTANCE EnterpriseLifecycle WITH
        Worker <- Session, state <- CommittedState, holder <- ClaimHolder

(***************************************************************************)
(* Seen through the committed rows and the claims, the sessions do what    *)
(* EnterpriseLifecycle promises.                                           *)
(***************************************************************************)
ImplementsLifecycle == Lifecycle!Spec

(***************************************************************************)
(* A program that has started ends: no session waits for a row lock for    *)
(* ever.  The programs lock rows in different orders, so this rests on     *)
(* PostgreSQL's deadlock detection.                                        *)
(***************************************************************************)
ProgramsEnd == \A s \in Session : pc[s] # "idle" ~> pc[s] = "idle"

\* SCRAPING with nobody to take it out.
Stranded(e) == db[e].state = "SCRAPING" /\ \A s \in Session : e \notin held[s]

\* Nothing keeps s from writing the last transition of its claim on e.
CanEnd(s, e) ==
    /\ \A t \in Session : ~Blocked(s, t)
    /\ CanLock(s, e)
    /\ lock[e] = s \/ Applies(e, heap[e], BusyOf(program[s]))

(***************************************************************************)
(* An enterprise is left in SCRAPING without a worker only when its own    *)
(* worker is killed or raises, and only while that worker could still have *)
(* ended the claim: never because another session's lock, commit, rollback *)
(* or aborted deadlock got in its way, and never by a scrape that ends.    *)
(***************************************************************************)
OnlyItsWorkerStrands ==
    [][\A e \in Enterprise :
        Stranded(e)' /\ ~Stranded(e) =>
            \E s \in Session : e \in held[s] /\ CanEnd(s, e) /\ (Crash(s) \/ Raise(s))]_vars

(***************************************************************************)
(* A failed parse leaves FAILED_PARSE (packages/extraction/FREEZE.md,      *)
(* "Echec : FAILED_PARSE"): no enterprise is in PARSING without a session  *)
(* that will take it out.                                                  *)
(***************************************************************************)
ParsingHasWorker ==
    \A e \in Enterprise :
        db[e].state = "PARSING" => \E s \in Session : e \in held[s]

==============================================================================
