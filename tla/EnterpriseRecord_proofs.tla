----------------------- MODULE EnterpriseRecord_proofs ------------------------
(***************************************************************************)
(* Theorems about EnterpriseRecord, for any number of documents, kinds and *)
(* pages: what the parse chooses while documents come in, and what the     *)
(* page of the dashboard may conclude from three SELECTs.                  *)
(***************************************************************************)
EXTENDS EnterpriseRecord, RawStore_proofs

USE ParseableAssumption, KeyAssumption, StampAssumption DEF KboKey

(***************************************************************************)
(* The inductive invariant.                                                *)
(***************************************************************************)

\* The rows the parse has read are there, and among them every row an earlier
\* snapshot took its identity from.
SnapshotRows == {snapshots[i].kbo : i \in 1 .. Len(snapshots)} \ {NoRow}

ParserInv ==
    /\ seen \subseteq Registered
    /\ SnapshotRows \subseteq Registered
    /\ parser = "read" => SnapshotRows \subseteq seen

\* Who has seen STRUCTURED will find a snapshot.
ViewInv ==
    /\ state = "STRUCTURED" => snapshots # <<>>
    /\ view.state = "STRUCTURED" => snapshots # <<>>

RecordInv == Inv /\ TypeOK /\ ParserInv /\ ViewInv

------------------------------------------------------------------------------
(* The store below.                                                        *)

\* Every step of the record is one of the store, or leaves it alone.
LEMMA StoreStep == [Next]_vars => [RawNext]_rawVars
BY DEF Next, vars, OtherProgram, Claim, ReadRows, Parse, ParseRaises, Select, Show

\* The parse, the other programs and the dashboard are readers of the store: what is
\* proved of RawStore holds here.
THEOREM UsesTheStore == Spec => RawSpec
<1>1. Init => RawInit
  BY DEF Init
<1>2. QED
  BY <1>1, StoreStep, PTL DEF Spec, RawSpec

\* A row that is there stays as it is.
LEMMA RowsStay ==
    ASSUME Inv, [RawNext]_rawVars
    PROVE  \A r \in Registered : r \in Registered' /\ raw_documents'[r] = raw_documents[r]
<1>1. CASE UNCHANGED rawVars
  BY <1>1 DEF rawVars, Registered
<1>2. ASSUME NEW q \in Run, RawStep(q)
      PROVE  \A r \in Registered : r \in Registered' /\ raw_documents'[r] = raw_documents[r]
  <2>1. CASE Register(q)
    BY <2>1 DEF Register, Registered, Inv, RawTypeOK
  <2>2. CASE ~Register(q)
    BY <1>2, <2>2 DEF RawStep, Call, Refuse, OpenDocument, CloseDocument, OpenSidecar,
                      CloseSidecar, Stop, Registered
  <2>3. QED
    BY <2>1, <2>2
<1>3. QED
  BY <1>1, <1>2 DEF RawNext

------------------------------------------------------------------------------
(* What a parse makes of the rows it has read.                             *)

\* The identity comes from a row the parse chose, and there is one if it has a KBO page.
LEMMA PickedIsKbo ==
    ASSUME NEW parsed \in SUBSET Run, PickKbo(parsed) # NoRow
    PROVE  PickKbo(parsed) \in parsed /\ KeyOf(PickKbo(parsed)) \in KboKey
<1> DEFINE kbo == {r \in parsed : KeyOf(r) \in KboKey}
           detail == {r \in kbo : KeyOf(r) = "enterprise_detail"}
           from == IF detail # {} THEN detail ELSE kbo
<1>1. kbo # {} /\ PickKbo(parsed) = CHOOSE r \in from : TRUE
  BY DEF PickKbo
<1>2. from # {} /\ from \subseteq kbo
  BY <1>1
<1> HIDE DEF from
<1>3. PickKbo(parsed) \in from
  BY <1>1, <1>2
<1>4. QED
  BY <1>2, <1>3

LEMMA ConsolidatedIsSnapshot ==
    ASSUME NEW parsed \in SUBSET Run
    PROVE  /\ Consolidated(parsed) \in Snapshot
           /\ Consolidated(parsed).kbo = PickKbo(parsed)
<1>1. PickKbo(parsed) \in Run \cup {NoRow}
  BY PickedIsKbo
<1>2. QED
  BY <1>1 DEF Consolidated, Snapshot

LEMMA ParsedIsSeen ==
    \A docs : Parsed(docs) \subseteq Chosen(docs) /\ Chosen(docs) \subseteq docs
BY DEF Parsed, Chosen

\* A parse adds one snapshot, whose identity comes from a row it has read.
LEMMA ParseAppends ==
    ASSUME RecordInv, Parse, Parsed(seen) # {}
    PROVE  /\ Parsed(seen) \in SUBSET Run
           /\ snapshots' = Append(snapshots, Consolidated(Parsed(seen)))
           /\ Consolidated(Parsed(seen)) \in Snapshot
           /\ snapshots' \in Seq(Snapshot) /\ snapshots' # <<>>
           /\ SnapshotRows' \subseteq SnapshotRows \cup seen
           /\ snapshots'[Len(snapshots')].kbo = PickKbo(Parsed(seen))
<1> DEFINE new == Consolidated(Parsed(seen))
<1>1. Parsed(seen) \in SUBSET Run /\ Parsed(seen) \subseteq seen
  BY ParsedIsSeen DEF RecordInv, TypeOK
<1>2. /\ new \in Snapshot /\ new.kbo = PickKbo(Parsed(seen))
      /\ new.kbo # NoRow => new.kbo \in seen
  BY <1>1, ConsolidatedIsSnapshot, PickedIsKbo
<1>3. snapshots' = Append(snapshots, new) /\ snapshots \in Seq(Snapshot)
  BY DEF Parse, RecordInv, TypeOK
<1> HIDE DEF new
<1>4. /\ snapshots' \in Seq(Snapshot) /\ Len(snapshots') = Len(snapshots) + 1
      /\ Len(snapshots) \in Nat /\ snapshots'[Len(snapshots')] = new
      /\ \A i \in 1 .. Len(snapshots) : snapshots'[i] = snapshots[i]
  BY <1>2, <1>3
<1>5. ASSUME NEW r \in SnapshotRows' PROVE r \in SnapshotRows \cup seen
  <2>1. PICK i \in 1 .. Len(snapshots') : r = snapshots'[i].kbo /\ r # NoRow
    BY <1>5 DEF SnapshotRows
  <2>2. CASE i = Len(snapshots')
    BY <1>2, <1>4, <2>1, <2>2
  <2>3. CASE i # Len(snapshots')
    BY <1>4, <2>1, <2>3 DEF SnapshotRows
  <2>4. QED
    BY <2>2, <2>3
<1>6. snapshots' # <<>>
  BY <1>4
<1>7. QED
  BY <1>1, <1>2, <1>3, <1>4, <1>5, <1>6 DEF new

------------------------------------------------------------------------------
(* The invariant.                                                          *)

LEMMA RecordInit == Init => RecordInv
<1> SUFFICES ASSUME Init PROVE RecordInv
  OBVIOUS
<1> USE DEF Init
<1>1. Inv
  BY InitInv
<1>2. snapshots \in Seq(Snapshot) /\ SnapshotRows = {}
  <2>1. CASE snapshots = <<>>
    BY <2>1 DEF SnapshotRows
  <2>2. ASSUME NEW form \in {"legacy", "empty"}, NEW named \in BOOLEAN,
               snapshots = <<Earlier(form, named)>>
        PROVE  snapshots \in Seq(Snapshot) /\ SnapshotRows = {}
    <3>1. Earlier(form, named) \in Snapshot /\ Earlier(form, named).kbo = NoRow
      BY DEF Earlier, Snapshot
    <3>2. Len(snapshots) = 1 /\ snapshots[1].kbo = NoRow /\ snapshots \in Seq(Snapshot)
      BY <2>2, <3>1
    <3>3. QED
      BY <3>2 DEF SnapshotRows
  <2>3. QED
    BY <2>1, <2>2
<1>3. TypeOK
  <2>1. /\ view.next = 1 /\ view.state = Unread /\ view.documents = FALSE
        /\ view.snapshot = "none"
    BY DEF Unstarted
  <2>2. view.documents \in BOOLEAN
    BY <2>1
  <2>3. RawTypeOK /\ state \in RecordState /\ parser = "idle" /\ seen \subseteq Run
    BY <1>1 DEF Inv, RecordState
  <2>4. view.next \in 1 .. 3
    BY <2>1
  <2>5. view.snapshot \in Shown
    BY <2>1 DEF Shown
  <2>6. QED
    BY <1>2, <2>1, <2>2, <2>3, <2>4, <2>5, Zenon DEF TypeOK
<1>4. snapshots = <<>> => state = "SCRAPING"
  OBVIOUS
<1>5. ParserInv /\ ViewInv
  BY <1>2, <1>4 DEF ParserInv, ViewInv, Unstarted, Unread
<1>6. QED
  BY <1>1, <1>3, <1>5 DEF RecordInv

LEMMA RecordNext == RecordInv /\ [Next]_vars => RecordInv'
<1> SUFFICES ASSUME RecordInv, [Next]_vars PROVE RecordInv'
  OBVIOUS
<1>1. /\ Inv /\ TypeOK /\ ParserInv /\ ViewInv /\ [RawNext]_rawVars
      /\ \A r \in Registered : r \in Registered'
  BY StoreStep, RowsStay DEF RecordInv
<1>2. Inv' /\ RawTypeOK'
  BY <1>1, NextPreserves DEF Inv
<1>3. Registered \subseteq Run /\ Registered' \subseteq Run
  BY DEF Registered
<1> USE DEF RecordState
<1>4. CASE UNCHANGED recordVars
  BY <1>1, <1>2, <1>4 DEF recordVars, parsing, RecordInv, TypeOK, ParserInv, ViewInv,
                          SnapshotRows
<1>5. CASE OtherProgram
  BY <1>1, <1>2, <1>5 DEF OtherProgram, parsing, RecordInv, TypeOK, ParserInv, ViewInv,
                          SnapshotRows
<1>6. CASE Claim
  BY <1>1, <1>2, <1>6 DEF Claim, RecordInv, TypeOK, ParserInv, ViewInv, SnapshotRows
<1>7. CASE ReadRows
  BY <1>1, <1>2, <1>3, <1>7 DEF ReadRows, RecordInv, TypeOK, ParserInv, ViewInv, SnapshotRows
<1>8. CASE Parse
  <2> USE <1>8
  <2>1. CASE Parsed(seen) = {}
    BY <1>1, <1>2, <2>1 DEF Parse, RecordInv, TypeOK, ParserInv, ViewInv, SnapshotRows
  <2>2. CASE Parsed(seen) # {}
    <3>1. /\ snapshots' \in Seq(Snapshot) /\ snapshots' # <<>>
          /\ SnapshotRows' \subseteq SnapshotRows \cup seen
      BY <2>2, ParseAppends
    <3>2. QED
      BY <1>1, <1>2, <2>2, <3>1 DEF Parse, RecordInv, TypeOK, ParserInv, ViewInv
  <2>3. QED
    BY <2>1, <2>2
<1>9. CASE ParseRaises
  BY <1>1, <1>2, <1>9 DEF ParseRaises, RecordInv, TypeOK, ParserInv, ViewInv, SnapshotRows
<1>10. CASE Select
  <2> USE <1>10 DEF Select, parsing
  <2>1. /\ view.next \in 1 .. 2 /\ view'.next = view.next + 1
        /\ view'.state \in {view.state, state}
        /\ view'.snapshot \in {view.snapshot, LatestSnapshot}
    BY <1>1 DEF Selected, TypeOK
  <2>2. LatestSnapshot \in Shown /\ view'.documents \in BOOLEAN
    <3>1. view'.documents =
            IF Statements[view.next] = "documents" THEN Registered # {} ELSE view.documents
      BY DEF Selected
    <3>2. view'.documents \in BOOLEAN
      BY <1>1, <3>1, Zenon DEF TypeOK
    <3>3. QED
      BY <3>2 DEF LatestSnapshot, Shown
  <2>3. TypeOK'
    BY <1>1, <1>2, <2>1, <2>2 DEF TypeOK
  <2>4. QED
    BY <1>1, <1>2, <2>1, <2>3 DEF RecordInv, ParserInv, ViewInv, SnapshotRows
<1>11. CASE Show
  BY <1>1, <1>2, <1>11 DEF Show, parsing, RecordInv, TypeOK, ParserInv, ViewInv,
                           SnapshotRows, Unstarted, Unread, Shown
<1>12. QED
  BY <1>4, <1>5, <1>6, <1>7, <1>8, <1>9, <1>10, <1>11 DEF Next, vars

\* The facts about rows read, snapshots and SELECTs that hold in every reachable state.
THEOREM RecordInvariant == Spec => []RecordInv
BY RecordInit, RecordNext, PTL DEF Spec

\* Every variable of an enterprise's record keeps its type.
THEOREM RecordTypeCorrect == Spec => []TypeOK
<1>1. RecordInv => TypeOK
  BY DEF RecordInv
<1>2. QED
  BY <1>1, RecordInvariant, PTL

\* While the enterprise is parsed and looked at, every row leads to a whole bundle, a
\* call that succeeds has left its row, and rows and files implement the registry.
THEOREM RecordKeepsItsStore ==
    Spec => []RegisteredIsReadable /\ []SuccessIsRegistered /\ ImplementsRegistry
BY UsesTheStore, RowsAreReadable, SuccessLeavesARow, Refinement, PTL

\* A page the dashboard calls inconsistent, or offers to parse although the enterprise
\* is structured, has found a snapshot without data.
THEOREM InconsistenciesAreReal == Spec => InconsistencyIsReal
<1> DEFINE Real == LET page == Selected
                   IN view.next = 3 /\ page.state = "STRUCTURED" /\ NeedsParse(page) =>
                         page.snapshot \in {"empty", "nameless"}
<1>1. ASSUME RecordInv PROVE Real
  <2> SUFFICES ASSUME view.next = 3, Selected.state = "STRUCTURED", NeedsParse(Selected)
               PROVE  Selected.snapshot \in {"empty", "nameless"}
    OBVIOUS
  <2>1. Selected.state = view.state /\ Selected.snapshot = LatestSnapshot
    BY DEF Selected, Statements
  <2>2. LatestSnapshot \in {"empty", "named", "nameless"}
    BY <1>1, <2>1 DEF RecordInv, ViewInv, LatestSnapshot
  <2>3. LatestSnapshot # "named"
    BY <2>1 DEF NeedsParse, RegistryInconsistent, HasRegistry, Summary
  <2>4. QED
    BY <2>1, <2>2, <2>3
<1>2. QED
  BY <1>1, RecordInvariant, PTL DEF InconsistencyIsReal

\* A later snapshot never takes the identity of the enterprise from an older KBO page.
THEOREM KboPagesDoNotGoBack == Spec => KboPageNeverGoesBack
<1> DEFINE Forward ==
        \A old \in {snapshots[i] : i \in 1 .. Len(snapshots)} :
          LET new == snapshots'[Len(snapshots')]
          IN snapshots' # snapshots /\ old.kbo # NoRow /\ new.kbo # NoRow =>
                /\ KeyOf(old.kbo) = "enterprise_detail" =>
                       KeyOf(new.kbo) = "enterprise_detail"
                /\ KeyOf(old.kbo) = KeyOf(new.kbo) =>
                       raw_documents[old.kbo].stamp <= raw_documents[new.kbo].stamp
<1>1. ASSUME RecordInv, [Next]_vars PROVE Forward
  <2> SUFFICES ASSUME NEW i \in 1 .. Len(snapshots), snapshots' # snapshots,
                      snapshots[i].kbo # NoRow, snapshots'[Len(snapshots')].kbo # NoRow
               PROVE  /\ KeyOf(snapshots[i].kbo) = "enterprise_detail" =>
                             KeyOf(snapshots'[Len(snapshots')].kbo) = "enterprise_detail"
                      /\ KeyOf(snapshots[i].kbo) = KeyOf(snapshots'[Len(snapshots')].kbo) =>
                             raw_documents[snapshots[i].kbo].stamp
                                <= raw_documents[snapshots'[Len(snapshots')].kbo].stamp
    OBVIOUS
  <2>1. Parse /\ Parsed(seen) # {}
    BY <1>1 DEF Next, vars, recordVars, OtherProgram, Claim, ReadRows, Parse, ParseRaises,
                Select, Show
  <2>2. PICK old : old = snapshots[i].kbo /\ old \in seen
    BY <1>1, <2>1 DEF RecordInv, ParserInv, SnapshotRows, Parse
  <2>3. PICK new : /\ new = snapshots'[Len(snapshots')].kbo /\ new \in Parsed(seen)
                   /\ KeyOf(new) \in KboKey
    BY <1>1, <2>1, ParseAppends, PickedIsKbo
  <2>4. /\ new \in seen /\ ~Skips(KeyOf(new), seen)
        /\ KeyOf(old) = KeyOf(new) => MetFirst(new, old)
    BY <2>2, <2>3 DEF Parsed, Chosen
  <2>5. KeyOf(old) = "enterprise_detail" => KeyOf(new) = "enterprise_detail"
    BY <2>2, <2>3, <2>4 DEF Skips
  <2>6. KeyOf(old) = KeyOf(new) => raw_documents[old].stamp <= raw_documents[new].stamp
    <3>1. old \in Registered /\ new \in Registered
      BY <1>1, <2>2, <2>4 DEF RecordInv, ParserInv
    <3>2. raw_documents[old].stamp \in Nat /\ raw_documents[new].stamp \in Nat
      BY <1>1, <3>1 DEF RecordInv, Inv, RawTypeOK, Registered, Metadata
    <3>3. QED
      BY <2>4, <3>2 DEF MetFirst
  <2>7. QED
    BY <2>2, <2>3, <2>5, <2>6
<1>2. QED
  BY <1>1, RecordInvariant, PTL DEF Spec, KboPageNeverGoesBack

==============================================================================
