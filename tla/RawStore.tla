------------------------------ MODULE RawStore -------------------------------
(***************************************************************************)
(* store_raw_bundle and read_raw_bundle (packages/storage) with the bridge *)
(* to the table raw_documents.  A call writes the document, then its       *)
(* metadata sidecar, then emits an event whose listener inserts a row in a *)
(* session of its own.  Nothing makes the three one: a file is torn while  *)
(* it is written, any step can raise, and the process can be killed        *)
(* between any two.  A page that is scraped again gets a new run_id, hence *)
(* a new directory.                                                        *)
(*                                                                         *)
(* Paths are abstracted to the run they contain; the row's paths, sizes    *)
(* and HTTP status are left out.  The enterprise is one the table knows,   *)
(* and the process is wired to the registry (wire_storage_events).         *)
(***************************************************************************)
EXTENDS Naturals

CONSTANTS
    Run,            \* run_id values, one for each call
    Key,            \* the (source, doc_type) a page is stored under
    Page,           \* answers of a site that validate_fetch lets through
    Refused,        \* those that reject_invalid_raw_content refuses
    Answer,         \* the pages each key can be answered with
    Stamp,          \* values of scraped_at
    Missing,        \* a file that does not exist
    Torn,           \* a file whose writing has begun and not ended
    NoRow           \* the entry of a run without a row

ASSUME PageAssumption == Refused \subseteq Page /\ Missing \notin Page /\ Torn \notin Page
ASSUME AnswerAssumption == Answer \subseteq Key \X Page
ASSUME StampAssumption == Stamp \subseteq Nat

Metadata == [key : Key, stamp : Stamp, sha256 : Page]
ASSUME FileAssumption == Missing \notin Metadata /\ Torn \notin Metadata /\ Missing # Torn
ASSUME RowAssumption == NoRow \notin Metadata \cup [key : Key, stamp : Stamp, page : Page]

VARIABLES
    step,           \* where each call of store_raw_bundle is
    job,            \* what it was called with; sha256 stands for the bytes
    clock,          \* the next value of scraped_at
    document,       \* the file document.html of each run's directory
    sidecar,        \* the file metadata.json
    raw_documents   \* the committed row of each run

files == <<document, sidecar>>
rawVars == <<step, job, clock, document, sidecar, raw_documents>>

Live == {"called", "document", "hashed", "sidecar", "bundled"}
Step == Live \cup {"idle", "stored", "stopped"}

RawTypeOK ==
    /\ step \in [Run -> Step]
    /\ job \in [Run -> Metadata \cup {NoRow}]
    /\ clock \in Nat
    /\ document \in [Run -> Page \cup {Missing, Torn}]
    /\ sidecar \in [Run -> Metadata \cup {Missing, Torn}]
    /\ raw_documents \in [Run -> Metadata \cup {NoRow}]

RawInit ==
    /\ step = [r \in Run |-> "idle"]
    /\ job = [r \in Run |-> NoRow]
    /\ clock = 1
    /\ document = [r \in Run |-> Missing]
    /\ sidecar = [r \in Run |-> Missing]
    /\ raw_documents = [r \in Run |-> NoRow]

GoTo(r, next) == step' = [step EXCEPT ![r] = next]

------------------------------------------------------------------------------
(* store_raw_bundle.                                                       *)

\* _build_metadata takes the time, then _process_job calls store_raw_bundle.
Call(r, key, page) ==
    /\ step[r] = "idle"
    /\ clock \in Stamp
    /\ <<key, page>> \in Answer
    /\ job' = [job EXCEPT ![r] = [key |-> key, stamp |-> clock, sha256 |-> page]]
    /\ clock' = clock + 1
    /\ GoTo(r, "called")
    /\ UNCHANGED <<files, raw_documents>>

\* Deviation: nothing is refused at the boundary of the store.
RefusesNothing(page) == FALSE

Refuses(page) == page \in Refused

\* reject_invalid_raw_content raises before anything is written.
Refuse(r) ==
    /\ step[r] = "called"
    /\ Refuses(job[r].sha256)
    /\ GoTo(r, "stopped")
    /\ UNCHANGED <<job, clock, files, raw_documents>>

\* ensure_dir, then put_bytes creates the file and writes into it.
OpenDocument(r) ==
    /\ step[r] = "called"
    /\ ~Refuses(job[r].sha256)
    /\ document' = [document EXCEPT ![r] = Torn]
    /\ GoTo(r, "document")
    /\ UNCHANGED <<job, clock, sidecar, raw_documents>>

CloseDocument(r) ==
    /\ step[r] = "document"
    /\ document' = [document EXCEPT ![r] = job[r].sha256]
    /\ GoTo(r, "hashed")
    /\ UNCHANGED <<job, clock, sidecar, raw_documents>>

\* write_metadata_sidecar: its required fields are those of _build_metadata.
OpenSidecar(r) ==
    /\ step[r] = "hashed"
    /\ sidecar' = [sidecar EXCEPT ![r] = Torn]
    /\ GoTo(r, "sidecar")
    /\ UNCHANGED <<job, clock, document, raw_documents>>

CloseSidecar(r) ==
    /\ step[r] = "sidecar"
    /\ sidecar' = [sidecar EXCEPT ![r] = job[r]]
    /\ GoTo(r, "bundled")
    /\ UNCHANGED <<job, clock, document, raw_documents>>

\* Deviation: the event is emitted before the sidecar is written.
EmitsEarly(r) == step[r] \in {"hashed", "bundled"}

Emits(r) == step[r] = "bundled"

(***************************************************************************)
(* _emit_stored_event calls the listeners in turn; that of the bridge      *)
(* inserts the row, unless one has the same run, and commits.  The answer  *)
(* to the COMMIT may be lost; then the call raises with the row in place.  *)
(***************************************************************************)
Register(r) ==
    /\ Emits(r)
    /\ raw_documents' =
        [raw_documents EXCEPT ![r] = IF raw_documents[r] = NoRow THEN job[r] ELSE @]
    /\ \E end \in {"stored", "stopped"} : GoTo(r, end)
    /\ UNCHANGED <<job, clock, files>>

\* Deviation: the bridge logs the error of the database and does not raise it again.
Swallows(r) == IF step[r] = "bundled" THEN "stored" ELSE "stopped"

\* How a call ends that meets an error.
Ends(r) == "stopped"

(***************************************************************************)
(* An OSError, an error of the database (the bridge logs it and raises it  *)
(* again), or a killed process: what the call has written stays.           *)
(***************************************************************************)
Stop(r) ==
    /\ step[r] \in Live
    /\ GoTo(r, Ends(r))
    /\ UNCHANGED <<job, clock, files, raw_documents>>

------------------------------------------------------------------------------
(* read_raw_bundle.                                                        *)

\* The call raises: no sidecar, a sidecar that is no JSON, or no document.
Unreadable(r) == sidecar[r] \in {Missing, Torn} \/ document[r] = Missing

\* The bytes it returns; it does not compare them with sha256.
Content(r) == IF Unreadable(r) THEN Missing ELSE document[r]

RawStep(r) ==
    \/ \E key \in Key, page \in Page : Call(r, key, page)
    \/ Refuse(r)
    \/ OpenDocument(r)
    \/ CloseDocument(r)
    \/ OpenSidecar(r)
    \/ CloseSidecar(r)
    \/ Register(r)
    \/ Stop(r)

RawNext == \E r \in Run : RawStep(r)

RawSpec == RawInit /\ [][RawNext]_rawVars

------------------------------------------------------------------------------
(* Properties.                                                             *)

Registered == {r \in Run : raw_documents[r] # NoRow}

\* Whatever was interrupted, a row of raw_documents leads to a bundle that can be read
\* back whole, and sidecar and row say the same about it.
RegisteredIsReadable ==
    \A r \in Registered :
        /\ Content(r) = raw_documents[r].sha256
        /\ sidecar[r] = raw_documents[r]

\* A job that reports success (the caller counts the page as stored) has left a row
\* that a parse will find; a refused page never has.
SuccessIsRegistered ==
    /\ \A r \in Run : step[r] = "stored" => r \in Registered
    /\ \A r \in Registered : raw_documents[r].sha256 \notin Refused

\* What a reader of the table and of the files finds for each run.
Found ==
    [r \in Run |->
        IF r \in Registered
        THEN [key |-> raw_documents[r].key, stamp |-> raw_documents[r].stamp,
              page |-> Content(r)]
        ELSE NoRow]

Registry == INSTANCE DocumentRegistry
    WITH Valid <- Page \ Refused, Unpublished <- NoRow, registry <- Found

\* Document, sidecar, event and row together implement a registry in which a
\* document appears at once and never changes.
ImplementsRegistry == Registry!Spec

==============================================================================
