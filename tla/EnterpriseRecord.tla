-------------------------- MODULE EnterpriseRecord ---------------------------
(***************************************************************************)
(* One enterprise from its raw documents to the page the dashboard shows:  *)
(* the calls of RawStore that store its pages, the parse that reads them   *)
(* back and consolidates them into a snapshot (extraction/worker.py,       *)
(* consolidate.py), and get_enterprise_detail, which reads the state, the  *)
(* documents and the latest snapshot in three statements of a READ         *)
(* COMMITTED transaction while the others go on.                           *)
(*                                                                         *)
(* Module Pipeline has the claims and the sessions of the parse, which is  *)
(* one transaction; so there is one parser here, and it commits in one     *)
(* step.  Pages may be stored at any time: a task Airflow has given up may *)
(* still be running.  Field extraction is abstracted to whether a page can *)
(* be parsed and whether it names the enterprise.                          *)
(***************************************************************************)
EXTENDS RawStore, Sequences

CONSTANTS
    Parseable,      \* the pages parse_raw_document gets fields from
    Named,          \* those with a legal name or the address of the seat
    MaxSnapshots    \* bound: no parse begins with so many snapshots

ASSUME ParseableAssumption == Parseable \subseteq Page /\ Named \subseteq Parseable
ASSUME KeyAssumption == {"enterprise_detail", "profile"} \subseteq Key

VARIABLES
    state,          \* the state of the enterprise
    snapshots,      \* its snapshots, oldest first; none is ever deleted
    parser,         \* where the parse is
    seen,           \* the rows it has read
    view            \* what get_enterprise_detail has read

parsing == <<parser, seen>>
recordVars == <<state, snapshots, parsing, view>>
vars == <<rawVars, recordVars>>

\* KBO's keys; every other key belongs to another source.
KboKey == {"enterprise_detail", "profile"}

\* The two forms of payload, and one with neither enterprise_detail nor documents.
Snapshot == [form : {"consolidated", "legacy", "empty"}, named : BOOLEAN,
             kbo : Run \cup {NoRow}]

RecordState == {"SCRAPING", "QUEUED_PARSE", "PARSING", "STRUCTURED", "FAILED_PARSE"}

\* What the page tells apart in the latest snapshot, and what view is before it is read.
Shown == {"none", "empty", "named", "nameless"}
Unread == "unread"
Unstarted == [next |-> 1, state |-> Unread, documents |-> FALSE, snapshot |-> "none"]

TypeOK ==
    /\ RawTypeOK
    /\ state \in RecordState
    /\ snapshots \in Seq(Snapshot)
    /\ parser \in {"idle", "claimed", "read"}
    /\ seen \subseteq Run
    /\ view.next \in 1 .. 3
    /\ view.state \in RecordState \cup {Unread}
    /\ view.documents \in BOOLEAN
    /\ view.snapshot \in Shown

\* A snapshot an earlier version of the parser has left.
Earlier(form, named) == [form |-> form, named |-> named, kbo |-> NoRow]

Init ==
    /\ RawInit
    /\ \/ state = "SCRAPING" /\ snapshots = <<>>
       \/ state = "STRUCTURED"
          /\ snapshots \in {<<Earlier("legacy", TRUE)>>, <<Earlier("empty", FALSE)>>}
    /\ parser = "idle"
    /\ seen = {}
    /\ view = Unstarted

------------------------------------------------------------------------------
(* The other programs (module Pipeline).                                   *)

\* A scrape ends, or an enterprise at rest is scraped again.
OtherProgram ==
    /\ \/ state = "SCRAPING" /\ state' = "QUEUED_PARSE"
       \/ state \in {"STRUCTURED", "FAILED_PARSE"} /\ state' = "SCRAPING"
    /\ UNCHANGED <<rawVars, snapshots, parsing, view>>

------------------------------------------------------------------------------
(* _parse_enterprise.                                                      *)

Claim ==
    /\ parser = "idle"
    /\ state = "QUEUED_PARSE"
    /\ Len(snapshots) < MaxSnapshots
    /\ state' = "PARSING"
    /\ parser' = "claimed"
    /\ UNCHANGED <<rawVars, snapshots, seen, view>>

ReadRows ==
    /\ parser = "claimed"
    /\ IF Registered = {}
       THEN state' = "FAILED_PARSE" /\ parser' = "idle"
       ELSE parser' = "read" /\ UNCHANGED state
    /\ seen' = Registered
    /\ UNCHANGED <<rawVars, snapshots, view>>

KeyOf(r) == raw_documents[r].key

\* Deviation: the rows are taken in the order they were scraped.
OldestFirst(r, other) == raw_documents[r].stamp <= raw_documents[other].stamp

\* order_by(scraped_at.desc()): r is met no later than other.
MetFirst(r, other) == raw_documents[r].stamp >= raw_documents[other].stamp

Skips(key, docs) ==
    key = "profile" /\ \E r \in docs : KeyOf(r) = "enterprise_detail"

\* The rows whose bundles are read: the first of each key, readable or not.
Chosen(docs) ==
    {r \in docs :
        /\ ~Skips(KeyOf(r), docs)
        /\ \A other \in docs : KeyOf(other) = KeyOf(r) => MetFirst(r, other)}

\* parse_raw_document returns a document; an unreadable bundle is passed over.
Parsed(docs) == {r \in Chosen(docs) : Content(r) \in Parseable}

\* Deviation: the list of KBO documents is returned, not its first.
PickAllKbo(parsed) == {r \in parsed : KeyOf(r) \in KboKey}

\* _pick_kbo_document prefers the detail page.
PickKbo(parsed) ==
    LET kbo == {r \in parsed : KeyOf(r) \in KboKey}
        detail == {r \in kbo : KeyOf(r) = "enterprise_detail"}
    IN IF kbo = {} THEN NoRow
       ELSE CHOOSE r \in IF detail # {} THEN detail ELSE kbo : TRUE

\* consolidate_parsed_documents.
Consolidated(parsed) ==
    [form |-> "consolidated",
     named |-> \E r \in parsed : r = PickKbo(parsed) /\ Content(r) \in Named,
     kbo |-> PickKbo(parsed)]

\* Snapshot and state are committed together.
Parse ==
    /\ parser = "read"
    /\ IF Parsed(seen) = {}
       THEN state' = "FAILED_PARSE" /\ UNCHANGED snapshots
       ELSE /\ state' = "STRUCTURED"
            /\ snapshots' = Append(snapshots, Consolidated(Parsed(seen)))
    /\ parser' = "idle"
    /\ seen' = {}
    /\ UNCHANGED <<rawVars, view>>

\* The transaction is rolled back; the claim was committed before it.
ParseRaises ==
    /\ parser \in {"claimed", "read"}
    /\ parser' = "idle"
    /\ seen' = {}
    /\ UNCHANGED <<rawVars, state, snapshots, view>>

------------------------------------------------------------------------------
(* get_enterprise_detail.                                                  *)

\* Deviation: the snapshot is looked up before the state.
SnapshotFirst == <<"snapshot", "documents", "state">>

\* The order of its SELECTs.
Statements == <<"state", "documents", "snapshot">>

\* _view_from_consolidated and _view_from_legacy_documents: has_data is the name.
LatestSnapshot ==
    IF snapshots = <<>> THEN "none"
    ELSE LET latest == snapshots[Len(snapshots)]
         IN IF latest.form = "empty" THEN "empty"
            ELSE IF latest.named THEN "named" ELSE "nameless"

\* view after its next SELECT, which sees what is committed at that moment.
Selected ==
    LET read == Statements[view.next]
    IN [next |-> view.next + 1,
        state |-> IF read = "state" THEN state ELSE view.state,
        documents |-> IF read = "documents" THEN Registered # {} ELSE view.documents,
        snapshot |-> IF read = "snapshot" THEN LatestSnapshot ELSE view.snapshot]

Select ==
    /\ view.next < 3
    /\ view' = Selected
    /\ UNCHANGED <<rawVars, state, snapshots, parsing>>

\* The last SELECT; the page is built and shown, and another may be asked for.
Show ==
    /\ view.next = 3
    /\ view' = Unstarted
    /\ UNCHANGED <<rawVars, state, snapshots, parsing>>

\* build_structured_summary: the reason for which a parse is pending, or what is shown.
Summary(page) ==
    CASE page.snapshot = "none" -> IF page.documents THEN "no_snapshot" ELSE "nothing"
      [] page.snapshot = "empty" -> IF page.documents THEN "legacy_payload" ELSE "empty"
      [] page.snapshot = "named" -> "content"
      [] OTHER -> IF page.documents THEN "incomplete_registry" ELSE "no_data"

\* registry_summary_has_content.
HasRegistry(page) == Summary(page) = "content"

RegistryInconsistent(page) ==
    page.state = "STRUCTURED" /\ ~HasRegistry(page) /\ page.documents

NeedsParse(page) ==
    \/ RegistryInconsistent(page)
    \/ Summary(page) \in {"no_snapshot", "legacy_payload", "incomplete_registry"}
    \/ page.state = "QUEUED_PARSE" /\ page.documents

------------------------------------------------------------------------------
Next ==
    \/ RawNext /\ UNCHANGED recordVars
    \/ OtherProgram
    \/ Claim
    \/ ReadRows
    \/ Parse
    \/ ParseRaises
    \/ Select
    \/ Show

Spec == Init /\ [][Next]_vars

------------------------------------------------------------------------------
(* Properties.                                                             *)

\* A page that calls an enterprise inconsistent (structured, with documents, without
\* data), or offers to parse a structured one, has found a snapshot without data:
\* never because a parse was committed between two of its SELECTs.
InconsistencyIsReal ==
    [][LET page == Selected
       IN view.next = 3 /\ page.state = "STRUCTURED" /\ NeedsParse(page) =>
             page.snapshot \in {"empty", "nameless"}]_view

\* Documents arrive in any order and pages are stored again and again: a later
\* snapshot never takes its identity from an older KBO page of the same kind than
\* the one before, and never returns from the detail page to the profile.
KboPageNeverGoesBack ==
    [][\A old \in {snapshots[i] : i \in 1 .. Len(snapshots)} :
          LET new == snapshots'[Len(snapshots')]
          IN snapshots' # snapshots /\ old.kbo # NoRow /\ new.kbo # NoRow =>
                /\ KeyOf(old.kbo) = "enterprise_detail" =>
                       KeyOf(new.kbo) = "enterprise_detail"
                /\ KeyOf(old.kbo) = KeyOf(new.kbo) =>
                       raw_documents[old.kbo].stamp <= raw_documents[new.kbo].stamp]_vars

==============================================================================
