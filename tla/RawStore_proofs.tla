--------------------------- MODULE RawStore_proofs ---------------------------
(***************************************************************************)
(* Theorems about RawStore, for any number of calls, keys, pages and dates *)
(* and for any errors and killed processes.                                *)
(***************************************************************************)
EXTENDS RawStore, TLAPS

USE PageAssumption, AnswerAssumption, StampAssumption, FileAssumption, RowAssumption
    DEF files, Refuses, Emits, Ends

(***************************************************************************)
(* The inductive invariant: how far the files of a run are at each place   *)
(* of its call, that a row exists only after the call has had both files   *)
(* written, and that dates are handed out once.                            *)
(***************************************************************************)
Whole(r) == document[r] = job[r].sha256 /\ sidecar[r] = job[r]

CallInv(r) ==
    /\ step[r] # "idle" => job[r] \in Metadata /\ job[r].stamp < clock
    /\ step[r] \in {"document", "hashed", "sidecar", "bundled"} =>
           job[r].sha256 \notin Refused
    /\ step[r] \in {"hashed", "sidecar", "bundled"} => document[r] = job[r].sha256
    /\ step[r] = "bundled" => Whole(r)
    /\ step[r] = "stored" => r \in Registered
    /\ r \in Registered =>
           /\ step[r] \in {"stored", "stopped"}
           /\ raw_documents[r] = job[r]
           /\ Whole(r)
           /\ job[r].sha256 \notin Refused

DatesDiffer ==
    \A r, q \in Run :
        r # q /\ step[r] # "idle" /\ step[q] # "idle" => job[r].stamp # job[q].stamp

Inv == RawTypeOK /\ (\A r \in Run : CallInv(r)) /\ DatesDiffer

------------------------------------------------------------------------------
LEMMA InitInv == RawInit => Inv
  BY DEF RawInit, Inv, RawTypeOK, Step, Live, Metadata, CallInv, DatesDiffer, Registered

\* A call that takes a step leaves what the other calls have alone.
LEMMA StepPreserves ==
    ASSUME NEW r \in Run, Inv, RawStep(r)
    PROVE  Inv'
<1> USE DEF GoTo
<1>0. RawTypeOK /\ (\A q \in Run : CallInv(q)) /\ DatesDiffer
  BY DEF Inv
<1>1. ASSUME NEW key \in Key, NEW page \in Page, Call(r, key, page) PROVE Inv'
  <2> USE <1>0, <1>1 DEF Call
  <2>1. clock \in Nat /\ clock' = clock + 1
    BY DEF RawTypeOK
  <2>2. job'[r] \in Metadata /\ job'[r].stamp = clock
    BY DEF RawTypeOK, Metadata
  <2>3. RawTypeOK'
    BY <2>1, <2>2 DEF RawTypeOK, Step, Live
  <2>4. \A q \in Run : q # r => step'[q] = step[q] /\ job'[q] = job[q]
    BY DEF RawTypeOK
  <2>5. ASSUME NEW q \in Run PROVE CallInv(q)'
    <3>1. CASE q = r
      BY <2>1, <2>2, <3>1 DEF RawTypeOK, CallInv, Registered
    <3>2. CASE q # r
      <4>1. step[q] # "idle" => job[q].stamp \in Nat
        BY DEF CallInv, Metadata
      <4>2. QED
        BY <2>1, <2>4, <3>2, <4>1 DEF CallInv, Whole, Registered
    <3>3. QED
      BY <3>1, <3>2
  <2>6. DatesDiffer'
    <3> SUFFICES ASSUME NEW p \in Run, NEW q \in Run, p # q,
                        step'[p] # "idle", step'[q] # "idle"
                 PROVE  job'[p].stamp # job'[q].stamp
      BY DEF DatesDiffer
    <3>1. ASSUME NEW o \in Run, o # r, step'[o] # "idle" PROVE job'[o].stamp # clock
      BY <2>1, <2>4, <3>1 DEF CallInv, Metadata
    <3>2. QED
      BY <2>2, <2>4, <3>1 DEF DatesDiffer
  <2>7. QED
    BY <2>3, <2>5, <2>6 DEF Inv
<1>2. ASSUME UNCHANGED <<job, clock>>, step[r] # "idle",
             \A q \in Run \ {r} : UNCHANGED <<step[q], document[q], sidecar[q], raw_documents[q]>>,
             RawTypeOK', CallInv(r)'
      PROVE  Inv'
  <2>1. ASSUME NEW q \in Run PROVE CallInv(q)'
    BY <1>0, <1>2 DEF CallInv, Whole, Registered
  <2>2. DatesDiffer'
    BY <1>0, <1>2 DEF DatesDiffer
  <2>3. QED
    BY <1>2, <2>1, <2>2 DEF Inv
<1> USE DEF RawTypeOK, Step, Live, CallInv, Whole, Registered
<1>3. CASE Refuse(r)
  BY <1>0, <1>2, <1>3 DEF Refuse
<1>4. CASE OpenDocument(r)
  BY <1>0, <1>2, <1>4 DEF OpenDocument
<1>5. CASE CloseDocument(r)
  BY <1>0, <1>2, <1>5 DEF CloseDocument, Metadata
<1>6. CASE OpenSidecar(r)
  BY <1>0, <1>2, <1>6 DEF OpenSidecar
<1>7. CASE CloseSidecar(r)
  BY <1>0, <1>2, <1>7 DEF CloseSidecar
<1>8. CASE Register(r)
  BY <1>0, <1>2, <1>8 DEF Register
<1>9. CASE Stop(r)
  BY <1>0, <1>2, <1>9 DEF Stop
<1>10. QED
  BY <1>1, <1>3, <1>4, <1>5, <1>6, <1>7, <1>8, <1>9 DEF RawStep

LEMMA NextPreserves == Inv /\ [RawNext]_rawVars => Inv'
<1>1. CASE RawNext
  BY <1>1, StepPreserves DEF RawNext
<1>2. CASE UNCHANGED rawVars
  BY <1>2 DEF rawVars, Inv, RawTypeOK, CallInv, Whole, Registered, DatesDiffer
<1>3. QED
  BY <1>1, <1>2

\* The facts about files, rows and dates that hold in every reachable state.
THEOREM Invariant == RawSpec => []Inv
<1>1. QED
  BY InitInv, NextPreserves, PTL DEF RawSpec

\* Every variable of RawStore keeps its type.
THEOREM TypeCorrect == RawSpec => []RawTypeOK
<1>1. Inv => RawTypeOK
  BY DEF Inv
<1>2. QED
  BY <1>1, Invariant, PTL

------------------------------------------------------------------------------
LEMMA RegisteredIsWhole ==
    ASSUME Inv, NEW r \in Registered
    PROVE  /\ raw_documents[r] = job[r]
           /\ job[r] \in Metadata
           /\ sidecar[r] = job[r]
           /\ Content(r) = job[r].sha256
           /\ job[r].sha256 \in Page \ Refused
<1>1. r \in Run /\ CallInv(r)
  BY DEF Inv, Registered
<1>2. job[r] \in Metadata /\ job[r].sha256 \in Page
  BY <1>1 DEF CallInv, Metadata
<1>3. QED
  BY <1>1, <1>2 DEF CallInv, Whole, Content, Unreadable

\* A row of raw_documents leads to a bundle that can be read back whole, wherever
\* this or another call of store_raw_bundle has been interrupted.
THEOREM RowsAreReadable == RawSpec => []RegisteredIsReadable
<1>1. Inv => RegisteredIsReadable
  BY RegisteredIsWhole DEF RegisteredIsReadable
<1>2. QED
  BY <1>1, Invariant, PTL

\* A call that has returned has left its row, and a refused page never has one.
THEOREM SuccessLeavesARow == RawSpec => []SuccessIsRegistered
<1>1. Inv => SuccessIsRegistered
  BY RegisteredIsWhole DEF SuccessIsRegistered, Inv, CallInv
<1>2. QED
  BY <1>1, Invariant, PTL

------------------------------------------------------------------------------
LEMMA InitRefines == RawInit => Registry!Init
  BY DEF RawInit, Registry!Init, Found, Registered

LEMMA EntriesAreValid ==
    ASSUME Inv, NEW r \in Registered
    PROVE  Found[r] = [key |-> job[r].key, stamp |-> job[r].stamp, page |-> job[r].sha256]
           /\ Found[r] \in Registry!Entry
<1>1. r \in Run
  BY DEF Registered
<1>2. QED
  BY <1>1, RegisteredIsWhole DEF Found, Registry!Entry, Metadata

\* Only Register changes what a reader finds.
LEMMA OthersKeepFound ==
    ASSUME Inv, NEW r \in Run, UNCHANGED raw_documents, r \notin Registered,
           \A q \in Run \ {r} : UNCHANGED <<document[q], sidecar[q]>>
    PROVE  UNCHANGED Found
<1>1. Registered' = Registered
  BY DEF Registered
<1>2. \A q \in Registered : Content(q)' = Content(q)
  BY DEF Registered, Content, Unreadable
<1>3. QED
  BY <1>1, <1>2, Zenon DEF Found

LEMMA RegisterPublishes ==
    ASSUME Inv, Inv', NEW r \in Run, Register(r)
    PROVE  Registry!Next
<1> DEFINE entry == Found'[r]
<1>1. r \notin Registered /\ Registered' = Registered \cup {r}
  BY DEF Inv, RawTypeOK, CallInv, Register, GoTo, Registered, Metadata
<1>2. entry \in Registry!Entry
      /\ entry = [key |-> job[r].key, stamp |-> job[r].stamp, page |-> job[r].sha256]
  <2>1. job[r] \in Metadata /\ job[r].sha256 \in Page \ Refused /\ Whole(r)
    BY DEF Inv, CallInv, Register, Metadata
  <2>2. Content(r)' = job[r].sha256
    BY <2>1 DEF Register, Content, Unreadable, Whole
  <2>3. raw_documents'[r] = job[r]
    BY <1>1 DEF Inv, RawTypeOK, Register, Registered
  <2>4. QED
    BY <1>1, <2>1, <2>2, <2>3 DEF Found, Registry!Entry, Metadata
<1>3. ASSUME NEW q \in Run, q # r PROVE Found'[q] = Found[q]
  <2>1. raw_documents'[q] = raw_documents[q] /\ Content(q)' = Content(q)
    BY <1>3 DEF Inv, RawTypeOK, Register, Content, Unreadable
  <2>2. QED
    BY <1>1, <1>3, <2>1 DEF Found
<1>4. Found' = [Found EXCEPT ![r] = entry]
  BY <1>3 DEF Found
<1>5. r \notin Registry!Published
  BY <1>1 DEF Registry!Published, Found
<1>6. ASSUME NEW q \in Registry!Published PROVE Found[q].stamp # entry.stamp
  <2>1. q \in Registered /\ q # r /\ q \in Run
    BY <1>1 DEF Registry!Published, Found, Registered
  <2>2. Found[q].stamp = job[q].stamp
    <3>1. Found[q] = [key |-> job[q].key, stamp |-> job[q].stamp, page |-> job[q].sha256]
      BY <2>1, EntriesAreValid, Zenon
    <3>2. QED
      BY <3>1
  <2>3. job[q].stamp # job[r].stamp
    BY <2>1 DEF Inv, DatesDiffer, CallInv, Register
  <2>4. QED
    BY <1>2, <2>2, <2>3
<1>7. Registry!Publish(r, entry)
  BY <1>4, <1>5, <1>6 DEF Registry!Publish
<1>8. QED
  BY <1>2, <1>7 DEF Registry!Next

LEMMA StepRefines ==
    ASSUME Inv, Inv', [RawNext]_rawVars
    PROVE  [Registry!Next]_Found
<1>1. ASSUME NEW r \in Run, RawStep(r) PROVE [Registry!Next]_Found
  <2>1. CASE Register(r)
    BY <2>1, RegisterPublishes
  <2>2. CASE ~Register(r)
    <3>1. r \notin Registered /\ UNCHANGED raw_documents
          /\ \A q \in Run \ {r} : UNCHANGED <<document[q], sidecar[q]>>
      BY <1>1, <2>2 DEF RawStep, Call, Refuse, OpenDocument, CloseDocument, OpenSidecar,
         CloseSidecar, Stop, Inv, RawTypeOK, CallInv, Live
    <3>2. QED
      BY <3>1, OthersKeepFound
  <2>3. QED
    BY <2>1, <2>2
<1>2. CASE UNCHANGED rawVars
  BY <1>2 DEF rawVars, Found, Registered, Content, Unreadable
<1>3. QED
  BY <1>1, <1>2 DEF RawNext

\* Document, sidecar, event and row, written one after the other, implement a
\* registry in which a document appears at once, whole, and never changes.
THEOREM Refinement == RawSpec => ImplementsRegistry
<1>1. Inv /\ Inv' /\ [RawNext]_rawVars => [Registry!Next]_Found
  BY StepRefines
<1>2. QED
  BY <1>1, InitRefines, Invariant, PTL DEF RawSpec, ImplementsRegistry, Registry!Spec

==============================================================================
