--------------------------- MODULE Pipeline_proofs ---------------------------
(***************************************************************************)
(* Theorems about Pipeline, for any number of enterprises and sessions.    *)
(*                                                                         *)
(* IInv is preserved by four kinds of steps, each with a lemma: a step     *)
(* that leaves the store alone, a write to one row the session may lock, a *)
(* rollback and a commit.  Each action is then one of them, once its own   *)
(* part of the invariant is established.                                   *)
(***************************************************************************)
EXTENDS PipelineInvariant, TLAPS

\* The vocabulary of the model, expanded in every proof below.
USE SessionAssumption, ProgramsAssumption
    DEF AllPrograms, Scrapers, Parsers, Forced, QueueOf, BusyOf, Row, NoRow,
        ProcessingState, Resting, PC

------------------------------------------------------------------------------
\* What a session step leaves alone in the others.
OthersUnchanged(s) ==
    \A t \in Session \ {s} :
        /\ program'[t] = program[t]
        /\ pc'[t] = pc[t]
        /\ held'[t] = held[t]
        /\ todo'[t] = todo[t]
        /\ current'[t] = current[t]
        /\ draft'[t] = draft[t]
        /\ focus'[t] = focus[t]
        /\ seen'[t] = seen[t]

(***************************************************************************)
(* A row that s can lock and that is not in a busy state, or that s holds, *)
(* is not held by another session.                                         *)
(***************************************************************************)
LEMMA FreeOfOthers ==
    ASSUME NEW s \in Session, NEW e \in Enterprise,
           IInv, CanLock(s, e),
           e \in held[s] \/ heap[e].state \notin {"SCRAPING", "PARSING"}
    PROVE  \A t \in Session \ {s} : e \notin held[t]
<1> SUFFICES ASSUME NEW t \in Session, t # s, e \in held[t] PROVE FALSE
  OBVIOUS
<1>1. lock[e] = Nobody /\ db[e].state \in {"SCRAPING", "PARSING"}
  BY DEF IInv, ClaimInv, HeldIsUncontested, HeldIsBusy, CanLock
<1>2. heap[e] = db[e]
  BY <1>1 DEF IInv, StoreInv, FreeRowsAreCommitted
<1>3. QED
  BY <1>1, <1>2 DEF IInv, ClaimInv, ClaimExclusive

(***************************************************************************)
(* A step that touches neither the store nor a claim; a document may be    *)
(* added.                                                                  *)
(***************************************************************************)
LEMMA PrivateStep ==
    ASSUME NEW s \in Session, IInv, TypeOK',
           UNCHANGED <<storeVars, held, snaps>>, docs \subseteq docs',
           OthersUnchanged(s),
           pc[s] # "closing",
           held[s] # {} => program'[s] = program[s],
           SessionInv(s)'
    PROVE  IInv'
<1> USE DEF OthersUnchanged, storeVars
<1>1. StoreInv'
  BY DEF IInv, StoreInv, FreeRowsAreCommitted, HeapIsNewer, StructuredIsDrafted,
         Drafted, TypeOK, StoreTypeOK
<1>2. ClaimInv'
  BY DEF IInv, ClaimInv, HeldIsBusy, HeldIsUncontested, ClaimExclusive
<1>3. StructuredHasEvidence'
  BY DEF IInv, StructuredHasEvidence
<1>4. ASSUME NEW t \in Session
      PROVE  SessionInv(t)'
  <2>1. CASE t # s
    BY <2>1 DEF IInv, SessionInv, Idle, Claims, Forces, Works, Walks, Closes
  <2>2. QED
    BY <2>1
<1>5. QED
  BY <1>1, <1>2, <1>3, <1>4 DEF IInv

(***************************************************************************)
(* A step that locks one row nobody else claims, and may write it.         *)
(***************************************************************************)
LEMMA OwnWrite ==
    ASSUME NEW s \in Session, NEW e \in Enterprise, NEW row \in Row,
           IInv, TypeOK',
           CanLock(s, e),
           \A t \in Session \ {s} : e \notin held[t],
           heap' = [heap EXCEPT ![e] = row],
           lock' = [lock EXCEPT ![e] = s],
           UNCHANGED <<db, held, docs, snaps>>,
           OthersUnchanged(s),
           pc[s] # "closing",
           program'[s] = program[s],
           row = heap[e] \/ (row.version > db[e].version /\ row.state # "ABSENT"),
           row # heap[e] /\ row.state = "STRUCTURED" =>
                pc'[s] = "closing" /\ e \in draft'[s] /\ e \in docs,
           SessionInv(s)'
    PROVE  IInv'
<1> USE DEF OthersUnchanged, CanLock
<1>1. TypeOK /\ StoreTypeOK
  BY DEF IInv, TypeOK
<1>2. FreeRowsAreCommitted'
  BY <1>1 DEF IInv, StoreInv, FreeRowsAreCommitted, StoreTypeOK
<1>3. HeapIsNewer'
  BY <1>1 DEF IInv, StoreInv, HeapIsNewer, StoreTypeOK
<1>4. StructuredIsDrafted'
  BY <1>1 DEF IInv, StoreInv, StructuredIsDrafted, Drafted, StoreTypeOK
<1>5. ClaimInv'
  BY <1>1 DEF IInv, ClaimInv, HeldIsBusy, HeldIsUncontested, ClaimExclusive, StoreTypeOK
<1>6. StructuredHasEvidence'
  BY DEF IInv, StructuredHasEvidence
<1>7. ASSUME NEW t \in Session
      PROVE  SessionInv(t)'
  <2>1. CASE t # s
    <3>1. \A x \in Enterprise : lock'[x] = t <=> lock[x] = t /\ x # e
      BY <1>1, <2>1 DEF StoreTypeOK
    <3>2. \A x \in Enterprise : x # e => heap'[x] = heap[x]
      BY <1>1 DEF StoreTypeOK
    <3>3. QED
      BY <2>1, <3>1, <3>2 DEF IInv, SessionInv, Idle, Claims, Forces, Works, Walks, Closes
  <2>2. QED
    BY <2>1
<1>8. QED
  BY <1>2, <1>3, <1>4, <1>5, <1>6, <1>7 DEF IInv, StoreInv

(***************************************************************************)
(* A rollback, after which the session goes on with some of its claims.    *)
(***************************************************************************)
LEMMA RollbackPreserves ==
    ASSUME NEW s \in Session, NEW claims \in SUBSET held[s],
           claims # {} => program[s] # "scrape_by_source",
           IInv, UNCHANGED <<docs, snaps>>,
           Rollback(s), Resume(s, claims)
    PROVE  IInv'
<1> USE DEF Rollback, Resume
<1>1. TypeOK /\ StoreTypeOK
  BY DEF IInv, TypeOK
<1>2. TypeOK'
  BY <1>1 DEF TypeOK, StoreTypeOK
<1>3. StoreInv'
  BY <1>1 DEF IInv, StoreInv, FreeRowsAreCommitted, HeapIsNewer, StructuredIsDrafted,
              Drafted, TypeOK, StoreTypeOK
<1>4. ClaimInv'
  BY <1>1 DEF IInv, ClaimInv, HeldIsBusy, HeldIsUncontested, ClaimExclusive,
              TypeOK, StoreTypeOK
<1>5. StructuredHasEvidence'
  BY DEF IInv, StructuredHasEvidence
<1>6. ASSUME NEW t \in Session
      PROVE  SessionInv(t)'
  <2>1. CASE t = s
    BY <1>1, <2>1 DEF TypeOK, StoreTypeOK, SessionInv, Idle, Claims, Forces, Works,
                      Walks, Closes
  <2>2. CASE t # s
    BY <1>1, <2>2 DEF IInv, TypeOK, StoreTypeOK, SessionInv, Idle, Claims, Forces,
                      Works, Walks, Closes
  <2>3. QED
    BY <2>1, <2>2
<1>7. QED
  BY <1>2, <1>3, <1>4, <1>5, <1>6 DEF IInv

LEMMA FailPreserves ==
    ASSUME NEW s \in Session, NEW e,
           IInv, UNCHANGED <<docs, snaps>>, Fail(s, e)
    PROVE  IInv'
<1> DEFINE claims == IF program[s] \in {"scrape_batch", "parse_batch"}
                     THEN held[s] \ {e} ELSE {}
<1>1. Rollback(s) /\ Resume(s, claims)
  BY DEF Fail
<1>2. claims \in SUBSET held[s] /\ (claims # {} => program[s] # "scrape_by_source")
  OBVIOUS
<1> HIDE DEF claims
<1>3. QED
  BY <1>1, <1>2, RollbackPreserves

(***************************************************************************)
(* What a commit of s does to the store: the snapshots of its draft become *)
(* visible together with the rows, unless it has not parsed anything.      *)
(***************************************************************************)
LEMMA CommitStore ==
    ASSUME NEW s \in Session, IInv, Commit(s), OthersUnchanged(s), docs' = docs,
           snaps' = snaps \cup draft[s] \/ (snaps' = snaps /\ pc[s] # "closing")
    PROVE  StoreInv' /\ StructuredHasEvidence'
<1> USE DEF Commit, OthersUnchanged
<1>1. TypeOK /\ StoreTypeOK /\ StoreInv
  BY DEF IInv, TypeOK
<1>2. FreeRowsAreCommitted'
  BY <1>1 DEF StoreInv, FreeRowsAreCommitted, StoreTypeOK
<1>3. HeapIsNewer'
  BY <1>1 DEF StoreInv, HeapIsNewer, StoreTypeOK
<1>4. StructuredIsDrafted'
  <2> SUFFICES ASSUME NEW e \in Enterprise, heap[e].state = "STRUCTURED",
                      db'[e].state # "STRUCTURED"
               PROVE  Drafted(e, lock[e])' /\ lock'[e] = lock[e]
    BY DEF StructuredIsDrafted
  <2>1. lock[e] # s /\ db'[e] = db[e] /\ lock'[e] = lock[e]
    BY <1>1 DEF StoreTypeOK
  <2>2. Drafted(e, lock[e])
    BY <1>1, <2>1 DEF StoreInv, StructuredIsDrafted
  <2>3. QED
    BY <2>1, <2>2 DEF Drafted
<1>5. StructuredHasEvidence'
  BY <1>1 DEF IInv, StructuredHasEvidence, StoreInv, StructuredIsDrafted, Drafted,
              TypeOK, StoreTypeOK
<1>6. QED
  BY <1>2, <1>3, <1>4, <1>5 DEF StoreInv

(***************************************************************************)
(* A commit, after which the session goes on with claims it has not        *)
(* written.                                                                *)
(***************************************************************************)
LEMMA CommitPreserves ==
    ASSUME NEW s \in Session, NEW claims \in SUBSET held[s],
           claims # {} => program[s] # "scrape_by_source",
           \A e \in claims : lock[e] # s,
           IInv, Commit(s), Resume(s, claims), docs' = docs,
           snaps' = snaps \cup draft[s] \/ (snaps' = snaps /\ pc[s] # "closing")
    PROVE  IInv'
<1> USE DEF Commit, Resume
<1>1. TypeOK /\ StoreTypeOK
  BY DEF IInv, TypeOK
<1>2. TypeOK'
  BY <1>1 DEF TypeOK, StoreTypeOK
<1>3. StoreInv' /\ StructuredHasEvidence'
  BY <1>1, CommitStore DEF OthersUnchanged, TypeOK, SessionInv, Claims
<1>4. ClaimInv'
  BY <1>1 DEF IInv, ClaimInv, HeldIsBusy, HeldIsUncontested, ClaimExclusive,
              TypeOK, StoreTypeOK
<1>5. ASSUME NEW t \in Session
      PROVE  SessionInv(t)'
  <2>1. CASE t = s
    BY <1>1, <2>1 DEF TypeOK, StoreTypeOK, SessionInv, Idle, Claims, Forces, Works,
                      Walks, Closes
  <2>2. CASE t # s
    BY <1>1, <2>2 DEF IInv, TypeOK, StoreTypeOK, SessionInv, Idle, Claims, Forces,
                      Works, Walks, Closes
  <2>3. QED
    BY <2>1, <2>2
<1>6. QED
  BY <1>2, <1>3, <1>4, <1>5 DEF IInv

------------------------------------------------------------------------------
(* Claims.                                                                 *)

LEMMA BeginClaimPreserves ==
    ASSUME NEW s \in Session, NEW prog \in Programs, NEW S \in SUBSET Enterprise,
           IInv, BeginClaim(s, prog, S)
    PROVE  IInv'
<1> USE DEF BeginClaim, Start, SelectSkipLocked, Unlocked
<1>1. TypeOK /\ StoreTypeOK
  BY DEF IInv, TypeOK
<1>2. TypeOK'
  BY <1>1 DEF TypeOK, StoreTypeOK
<1>3. StoreInv'
  BY <1>1 DEF IInv, StoreInv, FreeRowsAreCommitted, HeapIsNewer, StructuredIsDrafted,
              Drafted, TypeOK, StoreTypeOK
<1>4. ClaimInv'
  <2>1. held[s] = {}
    BY DEF IInv, SessionInv, Idle
  <2>2. \A e \in S : \A t \in Session : e \notin held[t]
    BY DEF IInv, ClaimInv, HeldIsBusy
  <2>3. HeldIsBusy'
    BY <1>1, <2>1 DEF IInv, ClaimInv, HeldIsBusy, TypeOK
  <2>4. HeldIsUncontested'
    BY <1>1, <2>2 DEF IInv, ClaimInv, HeldIsUncontested, TypeOK, StoreTypeOK
  <2>5. ClaimExclusive'
    BY DEF IInv, ClaimInv, ClaimExclusive
  <2>6. QED
    BY <2>3, <2>4, <2>5 DEF ClaimInv
<1>5. StructuredHasEvidence'
  BY DEF IInv, StructuredHasEvidence
<1>6. ASSUME NEW t \in Session
      PROVE  SessionInv(t)'
  <2>1. CASE t = s
    BY <1>1, <2>1 DEF IInv, TypeOK, StoreTypeOK, SessionInv, Idle, Claims, Forces,
                      Works, Walks, Closes
  <2>2. CASE t # s
    BY <1>1, <2>2 DEF IInv, TypeOK, StoreTypeOK, SessionInv, Idle, Claims, Forces,
                      Works, Walks, Closes
  <2>3. QED
    BY <2>1, <2>2
<1>7. QED
  BY <1>2, <1>3, <1>4, <1>5, <1>6 DEF IInv

LEMMA ClaimOnePreserves ==
    ASSUME NEW s \in Session, NEW e \in Enterprise, IInv, ClaimOne(s, e)
    PROVE  IInv'
<1>1. TypeOK /\ StoreTypeOK
  BY DEF IInv, TypeOK
<1>2. CASE Applies(e, heap[e], QueueOf(program[s]))
  <2> USE DEF ClaimOne, TransitionState, Applies
  <2> DEFINE row == Moved(heap[e], BusyOf(program[s]))
  <2>1. row \in Row /\ row.version = heap[e].version + 1 /\ row.state = BusyOf(program[s])
    BY <1>1 DEF StoreTypeOK, Moved
  <2>2. heap' = [heap EXCEPT ![e] = row] /\ lock' = [lock EXCEPT ![e] = s] /\ db' = db
    BY <1>2
  <2> HIDE DEF row
  <2>3. TypeOK'
    <3>1. StoreTypeOK'
      BY <1>1, <2>1, <2>2 DEF StoreTypeOK
    <3>2. /\ todo' = [todo EXCEPT ![s] = @ \ {e}]
          /\ UNCHANGED <<program, pc, held, current, draft, focus, seen, docs, snaps>>
      BY <1>2
    <3>3. todo' \in [Session -> SUBSET Enterprise]
      BY <1>1, <3>2 DEF TypeOK
    <3>4. QED
      BY <1>1, <3>1, <3>2, <3>3 DEF TypeOK
  <2>4. \A t \in Session \ {s} : e \notin held[t]
    BY <1>2, FreeOfOthers
  <2>5. row.version > db[e].version /\ row.state # "ABSENT"
    BY <1>1, <2>1 DEF IInv, StoreInv, HeapIsNewer, StoreTypeOK
  <2>6. SessionInv(s)'
    BY <1>1, <1>2, <2>1, <2>2
    DEF IInv, TypeOK, StoreTypeOK, SessionInv, Idle, Claims, Forces, Works, Walks, Closes
  <2>7. QED
    BY <1>1, <1>2, <2>1, <2>2, <2>3, <2>4, <2>5, <2>6, OwnWrite, ZenonT(40)
    DEF OthersUnchanged, TypeOK
<1>3. CASE ~Applies(e, heap[e], QueueOf(program[s]))
  BY <1>3, FailPreserves DEF ClaimOne
<1>4. QED
  BY <1>2, <1>3

LEMMA CommitClaimPreserves ==
    ASSUME NEW s \in Session, IInv, CommitClaim(s)
    PROVE  IInv'
<1> USE DEF CommitClaim, Commit, GoTo, Locked
<1>1. TypeOK /\ StoreTypeOK
  BY DEF IInv, TypeOK
<1>2. TypeOK'
  BY <1>1 DEF TypeOK, StoreTypeOK
<1>3. StoreInv' /\ StructuredHasEvidence'
  BY <1>1, CommitStore DEF OthersUnchanged, TypeOK, SessionInv, Claims
<1>4. ClaimInv'
  BY <1>1 DEF IInv, ClaimInv, HeldIsBusy, HeldIsUncontested, ClaimExclusive,
              SessionInv, Claims, TypeOK, StoreTypeOK
<1>5. ASSUME NEW t \in Session
      PROVE  SessionInv(t)'
  <2>1. CASE t = s
    BY <1>1, <2>1 DEF IInv, TypeOK, StoreTypeOK, SessionInv, Idle, Claims, Forces,
                      Works, Walks, Closes
  <2>2. CASE t # s
    BY <1>1, <2>2 DEF IInv, TypeOK, StoreTypeOK, SessionInv, Idle, Claims, Forces,
                      Works, Walks, Closes
  <2>3. QED
    BY <2>1, <2>2
<1>6. QED
  BY <1>2, <1>3, <1>4, <1>5 DEF IInv

------------------------------------------------------------------------------
(* The end of a claim.                                                     *)

LEMMA FinishPreserves ==
    ASSUME NEW s \in Session, NEW e \in held[s], NEW result \in ProcessingState,
           IInv, UNCHANGED <<docs, snaps>>,
           Finish(s, e, result),
           pc[s] \in {"working", "walking"},
           program[s] # "scrape_by_source",
           \A x \in held[s] : lock[x] # s,
           result = "STRUCTURED" => e \in draft[s] \cap docs
    PROVE  IInv'
<1>1. TypeOK /\ StoreTypeOK /\ e \in Enterprise
  BY DEF IInv, TypeOK
<1>2. CASE Applies(e, heap[e], BusyOf(program[s]))
  <2> USE DEF Finish, TransitionState, Applies, GoTo
  <2> DEFINE row == Moved(heap[e], result)
  <2>1. row \in Row /\ row.version = heap[e].version + 1 /\ row.state = result
    BY <1>1 DEF StoreTypeOK, Moved
  <2>2. heap' = [heap EXCEPT ![e] = row] /\ lock' = [lock EXCEPT ![e] = s] /\ db' = db
    BY <1>2
  <2> HIDE DEF row
  <2>3. TypeOK'
    <3>1. StoreTypeOK'
      BY <1>1, <2>1, <2>2 DEF StoreTypeOK
    <3>2. /\ current' = [current EXCEPT ![s] = e]
          /\ pc' = [pc EXCEPT ![s] = "closing"]
          /\ UNCHANGED <<program, held, todo, draft, focus, seen, docs, snaps>>
      BY <1>2
    <3>3. /\ current' \in [Session -> Enterprise \cup {Nobody}]
          /\ pc' \in [Session -> PC]
      BY <1>1, <3>2 DEF TypeOK
    <3>4. QED
      BY <1>1, <3>1, <3>2, <3>3 DEF TypeOK
  <2>4. \A t \in Session \ {s} : e \notin held[t]
    BY <1>1, <1>2, FreeOfOthers
  <2>5. row.version > db[e].version /\ row.state # "ABSENT"
    BY <1>1, <2>1 DEF IInv, StoreInv, HeapIsNewer, StoreTypeOK
  <2>6. SessionInv(s)'
    <3>1. /\ pc'[s] = "closing" /\ current'[s] = e
          /\ program' = program /\ held' = held
      BY <1>1, <1>2 DEF TypeOK
    <3>2. \A x \in held[s] : lock'[x] = s => x = e
      BY <1>1, <2>2 DEF TypeOK, StoreTypeOK
    <3>3. QED
      BY <3>1, <3>2 DEF SessionInv, Idle, Claims, Forces, Works, Walks, Closes
  <2>7. QED
    BY <1>1, <1>2, <2>1, <2>2, <2>3, <2>4, <2>5, <2>6, OwnWrite, ZenonT(40)
    DEF OthersUnchanged, TypeOK
<1>3. CASE ~Applies(e, heap[e], BusyOf(program[s]))
  BY <1>3, FailPreserves DEF Finish
<1>4. QED
  BY <1>2, <1>3

LEMMA FinishScrapePreserves ==
    ASSUME NEW s \in Session, NEW e \in Enterprise,
           NEW result \in {"QUEUED_PARSE", "FAILED_SCRAPE"},
           IInv, FinishScrape(s, e, result)
    PROVE  IInv'
<1>1. \A x \in held[s] : lock[x] # s
  BY DEF FinishScrape, IInv, TypeOK, SessionInv, Works
<1>2. UNCHANGED <<docs, snaps>>
  BY DEF FinishScrape, Finish
<1>3. QED
  BY <1>1, <1>2, FinishPreserves DEF FinishScrape

LEMMA ParseFailsPreserves ==
    ASSUME NEW s \in Session, NEW e \in Enterprise, IInv, ParseFails(s, e)
    PROVE  IInv'
<1>1. \A x \in held[s] : lock[x] # s
  BY DEF ParseFails, IInv, TypeOK, SessionInv, Works
<1>2. UNCHANGED <<docs, snaps>>
  BY DEF ParseFails, Finish
<1>3. QED
  BY <1>1, <1>2, FinishPreserves DEF ParseFails

LEMMA FinishParsePreserves ==
    ASSUME NEW s \in Session, IInv, FinishParse(s)
    PROVE  IInv'
<1>1. /\ \A x \in held[s] : lock[x] # s
      /\ current[s] \in held[s]
      /\ current[s] \in draft[s] \cap docs
  BY DEF FinishParse, IInv, SessionInv, Walks
<1>2. UNCHANGED <<docs, snaps>>
  BY DEF FinishParse, Finish
<1>3. QED
  BY <1>1, <1>2, FinishPreserves DEF FinishParse

LEMMA FinalizeOnePreserves ==
    ASSUME NEW s \in Session, NEW e \in Enterprise,
           NEW result \in {"QUEUED_PARSE", "FAILED_SCRAPE"},
           IInv, FinalizeOne(s, e, result)
    PROVE  IInv'
<1> USE DEF FinalizeOne, Finalizes
<1>1. TypeOK /\ StoreTypeOK
  BY DEF IInv, TypeOK
<1>2. e \in held[s] /\ \A t \in Session \ {s} : e \notin held[t]
  BY FreeOfOthers DEF IInv, SessionInv, Works
<1> DEFINE row == IF Applies(e, heap[e], "SCRAPING") THEN Moved(heap[e], result)
                  ELSE heap[e]
<1>3. row \in Row
  BY <1>1 DEF StoreTypeOK, Moved
<1>4. /\ heap' = [heap EXCEPT ![e] = row]
      /\ lock' = [lock EXCEPT ![e] = s]
      /\ UNCHANGED db
  BY <1>1 DEF StoreTypeOK, TransitionState, SelectSkipLocked
<1>5. \/ row = heap[e]
      \/ row.version > db[e].version /\ row.state = result
  BY <1>1 DEF Moved, IInv, StoreInv, HeapIsNewer, StoreTypeOK
<1> HIDE DEF row
<1>6. TypeOK'
  BY <1>1, <1>3, <1>4 DEF TypeOK, StoreTypeOK
<1>7. SessionInv(s)'
  BY <1>1, <1>2, <1>4
  DEF IInv, TypeOK, StoreTypeOK, SessionInv, Idle, Claims, Forces, Works, Walks, Closes
<1>8. QED
  BY <1>1, <1>2, <1>3, <1>4, <1>5, <1>6, <1>7, OwnWrite DEF OthersUnchanged, TypeOK

LEMMA CommitOnePreserves ==
    ASSUME NEW s \in Session, IInv, CommitOne(s)
    PROVE  IInv'
<1> DEFINE claims == held[s] \ {current[s]}
<1>1. claims # {} => program[s] # "scrape_by_source"
  BY DEF CommitOne, IInv, SessionInv, Closes
<1>2. \A e \in claims : lock[e] # s
  BY DEF CommitOne, IInv, SessionInv, Closes
<1>3. QED
  BY <1>1, <1>2, CommitPreserves DEF CommitOne, Publish

LEMMA CommitFinalizePreserves ==
    ASSUME NEW s \in Session, IInv, CommitFinalize(s)
    PROVE  IInv'
BY CommitPreserves DEF CommitFinalize

LEMMA EndWalkPreserves ==
    ASSUME NEW s \in Session, IInv, EndWalk(s)
    PROVE  IInv'
BY CommitPreserves DEF EndWalk, Publish

------------------------------------------------------------------------------
(* Steps that leave the store alone.                                       *)

LEMMA StoreRawDocumentPreserves ==
    ASSUME NEW s \in Session, NEW e \in Enterprise, IInv, StoreRawDocument(s, e)
    PROVE  IInv'
<1> USE DEF StoreRawDocument, storeVars, sessionVars
<1>1. TypeOK /\ StoreTypeOK /\ SessionInv(s)
  BY DEF IInv, TypeOK
<1>2. TypeOK'
  BY <1>1 DEF TypeOK, StoreTypeOK
<1>3. OthersUnchanged(s)
  BY <1>1 DEF OthersUnchanged, TypeOK
<1>4. SessionInv(s)'
  BY <1>1 DEF TypeOK, StoreTypeOK, SessionInv, Idle, Claims, Forces, Works,
      Walks, Closes
<1>5. QED
  BY <1>1, <1>2, <1>3, <1>4, PrivateStep DEF TypeOK, SessionInv, Idle

LEMMA ParseDocumentsPreserves ==
    ASSUME NEW s \in Session, NEW e \in Enterprise,
           NEW D \in SUBSET Enterprise, IInv, ParseDocuments(s, e, D)
    PROVE  IInv'
<1> USE DEF ParseDocuments, GoTo, storeVars
<1>1. TypeOK /\ StoreTypeOK /\ SessionInv(s)
  BY DEF IInv, TypeOK
<1>2. TypeOK'
  BY <1>1 DEF TypeOK, StoreTypeOK
<1>3. OthersUnchanged(s)
  BY <1>1 DEF OthersUnchanged, TypeOK
<1>4. SessionInv(s)'
  BY <1>1 DEF TypeOK, StoreTypeOK, SessionInv, Idle, Claims, Forces, Works,
      Walks, Closes
<1>5. QED
  BY <1>1, <1>2, <1>3, <1>4, PrivateStep DEF TypeOK, SessionInv, Idle

LEMMA BeginIngestPreserves ==
    ASSUME NEW s \in Session, NEW S \in SUBSET Enterprise, IInv, BeginIngest(s, S)
    PROVE  IInv'
<1> USE DEF BeginIngest, Start, storeVars
<1>1. TypeOK /\ StoreTypeOK /\ SessionInv(s)
  BY DEF IInv, TypeOK
<1>2. TypeOK'
  BY <1>1 DEF TypeOK, StoreTypeOK
<1>3. OthersUnchanged(s)
  BY <1>1 DEF OthersUnchanged, TypeOK
<1>4. SessionInv(s)'
  BY <1>1 DEF TypeOK, StoreTypeOK, SessionInv, Idle, Claims, Forces, Works,
      Walks, Closes
<1>5. QED
  BY <1>1, <1>2, <1>3, <1>4, PrivateStep DEF TypeOK, SessionInv, Idle

LEMMA BeginFanoutPreserves ==
    ASSUME NEW s \in Session, NEW S \in SUBSET Enterprise, IInv, BeginFanout(s, S)
    PROVE  IInv'
<1> USE DEF BeginFanout, Start, storeVars
<1>1. TypeOK /\ StoreTypeOK /\ SessionInv(s)
  BY DEF IInv, TypeOK
<1>2. TypeOK'
  BY <1>1 DEF TypeOK, StoreTypeOK
<1>3. OthersUnchanged(s)
  BY <1>1 DEF OthersUnchanged, TypeOK
<1>4. SessionInv(s)'
  BY <1>1 DEF TypeOK, StoreTypeOK, SessionInv, Idle, Claims, Forces, Works,
      Walks, Closes
<1>5. QED
  BY <1>1, <1>2, <1>3, <1>4, PrivateStep DEF TypeOK, SessionInv, Idle

LEMMA BeginTickPreserves ==
    ASSUME NEW s \in Session, NEW S \in SUBSET Enterprise, IInv, BeginTick(s, S)
    PROVE  IInv'
<1> USE DEF BeginTick, Start, storeVars
<1>1. TypeOK /\ StoreTypeOK /\ SessionInv(s)
  BY DEF IInv, TypeOK
<1>2. TypeOK'
  BY <1>1 DEF TypeOK, StoreTypeOK
<1>3. OthersUnchanged(s)
  BY <1>1 DEF OthersUnchanged, TypeOK
<1>4. SessionInv(s)'
  BY <1>1 DEF TypeOK, StoreTypeOK, SessionInv, Idle, Claims, Forces, Works,
      Walks, Closes
<1>5. QED
  BY <1>1, <1>2, <1>3, <1>4, PrivateStep DEF TypeOK, SessionInv, Idle

LEMMA BeginForcePreserves ==
    ASSUME NEW s \in Session, NEW prog \in Programs, NEW e \in Enterprise,
           IInv, BeginForce(s, prog, e)
    PROVE  IInv'
<1>1. TypeOK /\ StoreTypeOK /\ SessionInv(s)
  BY DEF IInv, TypeOK
<1>2. /\ pc[s] = "idle" /\ prog \in Forced
      /\ program' = [program EXCEPT ![s] = prog]
      /\ todo' = [todo EXCEPT ![s] = {e}]
      /\ UNCHANGED <<storeVars, held, current, draft, docs, snaps>>
  BY DEF BeginForce, Start
<1>3. held[s] = {} /\ \A x \in Enterprise : lock[x] # s
  BY <1>1, <1>2 DEF SessionInv, Idle
<1>4. \/ /\ pc' = [pc EXCEPT ![s] = "claiming"]
         /\ focus' = focus /\ seen' = seen
      \/ /\ pc' = [pc EXCEPT ![s] = "forcing"]
         /\ focus' = [focus EXCEPT ![s] = e]
         /\ seen' = [seen EXCEPT ![s] = db[e]]
         /\ db[e].state \in Resting \cup {"QUEUED_PARSE"}
  BY DEF BeginForce, ForcedFrom, Start
<1>5. TypeOK'
  <2>1. StoreTypeOK' /\ program' \in [Session -> AllPrograms \cup {"none"}]
    BY <1>1, <1>2 DEF TypeOK, StoreTypeOK, storeVars
  <2>2. todo' \in [Session -> SUBSET Enterprise]
    BY <1>1, <1>2 DEF TypeOK
  <2>3. /\ pc' \in [Session -> PC]
        /\ focus' \in [Session -> Enterprise \cup {Nobody}]
        /\ seen' \in [Session -> Row]
    <3>1. db[e] \in Row
      BY <1>1 DEF StoreTypeOK
    <3> HIDE DEF Row
    <3>2. QED
      BY <1>1, <1>4, <3>1 DEF TypeOK
  <2>4. QED
    BY <1>1, <1>2, <2>1, <2>2, <2>3 DEF TypeOK
<1>6. SessionInv(s)'
  <2>1. \/ pc'[s] = "claiming"
        \/ /\ pc'[s] = "forcing" /\ focus'[s] \in todo'[s]
           /\ seen'[s].state \in Resting \cup {"QUEUED_PARSE"}
    BY <1>1, <1>2, <1>4 DEF TypeOK
  <2>2. QED
    BY <1>2, <1>3, <2>1 DEF SessionInv, Idle, Claims, Forces, Works, Walks, Closes, storeVars
<1>7. OthersUnchanged(s)
  BY <1>1, <1>2, <1>4 DEF OthersUnchanged, TypeOK
<1>8. QED
  BY <1>2, <1>3, <1>5, <1>6, <1>7, PrivateStep

LEMMA LookUpToInsertPreserves ==
    ASSUME NEW s \in Session, NEW x \in Enterprise, IInv, LookUpToInsert(s, x)
    PROVE  IInv'
<1> USE DEF LookUpToInsert, GoTo, storeVars
<1>1. TypeOK /\ StoreTypeOK /\ SessionInv(s)
  BY DEF IInv, TypeOK
<1>2. TypeOK'
  BY <1>1 DEF TypeOK, StoreTypeOK
<1>3. OthersUnchanged(s)
  BY <1>1 DEF OthersUnchanged, TypeOK
<1>4. SessionInv(s)'
  BY <1>1 DEF TypeOK, StoreTypeOK, SessionInv, Idle, Claims, Forces, Works,
      Walks, Closes
<1>5. QED
  BY <1>1, <1>2, <1>3, <1>4, PrivateStep DEF TypeOK, SessionInv, Idle

LEMMA LookUpToRequeuePreserves ==
    ASSUME NEW s \in Session, NEW x \in Enterprise, IInv, LookUpToRequeue(s, x)
    PROVE  IInv'
<1> USE DEF LookUpToRequeue, Requeues, Visible, GoTo, storeVars
<1>1. TypeOK /\ StoreTypeOK /\ SessionInv(s)
  BY DEF IInv, TypeOK
<1>2. TypeOK'
  BY <1>1 DEF TypeOK, StoreTypeOK
<1>3. OthersUnchanged(s)
  BY <1>1 DEF OthersUnchanged, TypeOK
<1>4. SessionInv(s)'
  BY <1>1 DEF TypeOK, StoreTypeOK, SessionInv, Idle, Claims, Forces, Works,
      Walks, Closes
<1>5. QED
  BY <1>1, <1>2, <1>3, <1>4, PrivateStep DEF TypeOK, SessionInv, Idle

LEMMA LookUpToSkipPreserves ==
    ASSUME NEW s \in Session, NEW x \in Enterprise, IInv, LookUpToSkip(s, x)
    PROVE  IInv'
<1> USE DEF LookUpToSkip, storeVars
<1>1. TypeOK /\ StoreTypeOK /\ SessionInv(s)
  BY DEF IInv, TypeOK
<1>2. TypeOK'
  BY <1>1 DEF TypeOK, StoreTypeOK
<1>3. OthersUnchanged(s)
  BY <1>1 DEF OthersUnchanged, TypeOK
<1>4. SessionInv(s)'
  BY <1>1 DEF TypeOK, StoreTypeOK, SessionInv, Idle, Claims, Forces, Works,
      Walks, Closes
<1>5. QED
  BY <1>1, <1>2, <1>3, <1>4, PrivateStep DEF TypeOK, SessionInv, Idle

------------------------------------------------------------------------------
(* Writes to rows that are not claimed.                                    *)

LEMMA InsertPreserves ==
    ASSUME NEW s \in Session, IInv, Insert(s)
    PROVE  IInv'
<1> DEFINE x == focus[s]
<1>1. /\ TypeOK /\ StoreTypeOK /\ SessionInv(s)
      /\ pc[s] = "inserting" /\ x \in Enterprise
      /\ UNCHANGED <<docs, snaps>>
  BY DEF Insert, IInv, TypeOK, SessionInv, Walks
<1> HIDE DEF x
<1>2. ASSUME NEW version \in {1, 2}, db[x].state = "ABSENT", CanLock(s, x),
             InsertRow(s, x, [state |-> "QUEUED_SCRAPE", version |-> version]),
             WalkOn(s)
      PROVE  IInv'
  <2> DEFINE row == [state |-> "QUEUED_SCRAPE", version |-> version]
  <2>1. row \in Row /\ row.version > db[x].version /\ row.state = "QUEUED_SCRAPE"
    BY <1>1, <1>2 DEF IInv, StoreInv, HeapIsNewer
  <2>2. heap' = [heap EXCEPT ![x] = row] /\ lock' = [lock EXCEPT ![x] = s] /\ db' = db
    BY <1>2 DEF InsertRow
  <2>3. \A t \in Session : x \notin held[t]
    BY <1>2 DEF IInv, ClaimInv, HeldIsBusy
  <2> HIDE DEF row
  <2>4. TypeOK'
    <3>1. StoreTypeOK'
      BY <1>1, <2>1, <2>2 DEF StoreTypeOK
    <3>2. QED
      BY <1>1, <1>2, <3>1 DEF TypeOK, WalkOn, GoTo
  <2>5. SessionInv(s)'
    BY <1>1, <1>2, <2>2, <2>3
    DEF WalkOn, GoTo, TypeOK, StoreTypeOK, SessionInv, Idle, Claims, Forces, Works,
        Walks, Closes
  <2>6. QED
    BY <1>1, <1>2, <2>1, <2>2, <2>3, <2>4, <2>5, OwnWrite
    DEF OthersUnchanged, TypeOK, WalkOn, GoTo
<1>3. ASSUME WalkOn(s), UNCHANGED storeVars
      PROVE  IInv'
  <2> USE <1>3 DEF WalkOn, GoTo, storeVars
  <2>1. TypeOK'
    BY <1>1 DEF TypeOK, StoreTypeOK
  <2>2. SessionInv(s)'
    BY <1>1 DEF TypeOK, SessionInv, Idle, Claims, Forces, Works, Walks, Closes
  <2>3. QED
    BY <1>1, <2>1, <2>2, PrivateStep DEF OthersUnchanged, TypeOK
<1>4. ASSUME Fail(s, current[s])
      PROVE  IInv'
  BY <1>1, <1>4, FailPreserves
<1>5. QED
  BY <1>2, <1>3, <1>4 DEF Insert, x

LEMMA RequeuePreserves ==
    ASSUME NEW s \in Session, IInv, Requeue(s)
    PROVE  IInv'
<1> DEFINE x == focus[s]
<1>1. /\ TypeOK /\ StoreTypeOK /\ SessionInv(s)
      /\ pc[s] = "moving" /\ x \in Enterprise /\ CanLock(s, x)
      /\ seen[s].state \in Resting \cup {"NEW"}
      /\ UNCHANGED <<docs, snaps>>
  BY DEF Requeue, IInv, TypeOK, SessionInv, Walks
<1>2. CASE Applies(x, seen[s], seen[s].state)
  <2> DEFINE row == Moved(seen[s], "QUEUED_SCRAPE")
  <2>1. /\ heap[x].state \notin {"SCRAPING", "PARSING"}
        /\ row \in Row /\ row.version > db[x].version /\ row.state = "QUEUED_SCRAPE"
    BY <1>1, <1>2 DEF Applies, Moved, TypeOK, StoreTypeOK, IInv, StoreInv, HeapIsNewer
  <2>2. /\ heap' = [heap EXCEPT ![x] = row] /\ lock' = [lock EXCEPT ![x] = s] /\ db' = db
        /\ WalkOn(s)
    BY <1>2 DEF Requeue, TransitionState
  <2>3. \A t \in Session \ {s} : x \notin held[t]
    BY <1>1, <2>1, FreeOfOthers
  <2>4. x \notin held[s]
    BY <1>1, <2>1 DEF IInv, ClaimInv, HeldIsBusy, StoreInv, FreeRowsAreCommitted,
                      CanLock, SessionInv, Walks
  <2> HIDE DEF row
  <2>5. TypeOK'
    <3>1. StoreTypeOK'
      BY <1>1, <2>1, <2>2 DEF StoreTypeOK
    <3>2. QED
      BY <1>1, <2>2, <3>1 DEF TypeOK, WalkOn, GoTo
  <2>6. SessionInv(s)'
    BY <1>1, <2>2, <2>4
    DEF WalkOn, GoTo, TypeOK, StoreTypeOK, SessionInv, Idle, Claims, Forces, Works,
        Walks, Closes
  <2>7. QED
    BY <1>1, <2>1, <2>2, <2>3, <2>5, <2>6, OwnWrite
    DEF OthersUnchanged, TypeOK, WalkOn, GoTo
<1>3. CASE ~Applies(x, seen[s], seen[s].state)
  BY <1>1, <1>3, FailPreserves DEF Requeue
<1>4. QED
  BY <1>2, <1>3

LEMMA ForceRequeuePreserves ==
    ASSUME NEW s \in Session, IInv, ForceRequeue(s)
    PROVE  IInv'
<1> DEFINE e == focus[s]
<1>1. /\ TypeOK /\ StoreTypeOK /\ SessionInv(s)
      /\ pc[s] = "forcing" /\ e \in Enterprise /\ CanLock(s, e)
      /\ seen[s].state \in Resting \cup {"QUEUED_PARSE"}
      /\ UNCHANGED <<docs, snaps>>
  BY DEF ForceRequeue, IInv, TypeOK, SessionInv, Forces
<1>2. CASE Applies(e, seen[s], seen[s].state)
  <2> DEFINE row == Moved(seen[s], QueueOf(program[s]))
  <2>1. /\ heap[e].state \notin {"SCRAPING", "PARSING"}
        /\ row \in Row /\ row.version > db[e].version
        /\ row.state \in {"QUEUED_SCRAPE", "QUEUED_PARSE"}
    BY <1>1, <1>2, SMTT(30) DEF Applies, Moved, TypeOK, StoreTypeOK, IInv, StoreInv, HeapIsNewer
  <2>2. /\ heap' = [heap EXCEPT ![e] = row] /\ lock' = [lock EXCEPT ![e] = s] /\ db' = db
        /\ focus' = [focus EXCEPT ![s] = Nobody]
        /\ seen' = [seen EXCEPT ![s] = NoRow]
        /\ pc' = [pc EXCEPT ![s] = "claiming"]
        /\ UNCHANGED <<program, held, todo, current, draft>>
    BY <1>2 DEF ForceRequeue, TransitionState, GoTo
  <2>3. \A t \in Session \ {s} : e \notin held[t]
    BY <1>1, <2>1, FreeOfOthers
  <2> HIDE DEF row
  <2>4. TypeOK'
    <3>1. StoreTypeOK'
      BY <1>1, <2>1, <2>2 DEF StoreTypeOK
    <3>2. QED
      BY <1>1, <2>2, <3>1 DEF TypeOK
  <2>5. SessionInv(s)'
    BY <1>1, <2>2
    DEF TypeOK, StoreTypeOK, SessionInv, Idle, Claims, Forces, Works, Walks, Closes
  <2>6. QED
    BY <1>1, <2>1, <2>2, <2>3, <2>4, <2>5, OwnWrite DEF OthersUnchanged, TypeOK
<1>3. CASE ~Applies(e, seen[s], seen[s].state)
  BY <1>1, <1>3, FailPreserves DEF ForceRequeue
<1>4. QED
  BY <1>2, <1>3

------------------------------------------------------------------------------
(* Crashes and aborted deadlocks.                                          *)

LEMMA CrashPreserves ==
    ASSUME NEW s \in Session, IInv, Crash(s)
    PROVE  IInv'
BY RollbackPreserves DEF Crash

LEMMA AbortDeadlockPreserves ==
    ASSUME NEW s \in Session, IInv, AbortDeadlock(s)
    PROVE  IInv'
BY FailPreserves DEF AbortDeadlock

LEMMA RaisePreserves ==
    ASSUME NEW s \in Session, IInv, Raise(s)
    PROVE  IInv'
BY FailPreserves DEF Raise

------------------------------------------------------------------------------
(* The invariant.                                                          *)

LEMMA InitEstablishes == Init => IInv
<1> SUFFICES ASSUME Init PROVE IInv
  OBVIOUS
<1> USE DEF Init, StoreInit
<1>1. TypeOK
  BY DEF TypeOK, StoreTypeOK
<1>2. StoreInv
  BY DEF StoreInv, FreeRowsAreCommitted, HeapIsNewer, StructuredIsDrafted
<1>3. ClaimInv
  BY DEF ClaimInv, HeldIsBusy, HeldIsUncontested, ClaimExclusive
<1>4. StructuredHasEvidence
  BY DEF StructuredHasEvidence
<1>5. ASSUME NEW s \in Session PROVE SessionInv(s)
  BY DEF SessionInv, Idle, Claims, Forces, Works, Walks, Closes
<1>6. QED
  BY <1>1, <1>2, <1>3, <1>4, <1>5 DEF IInv

LEMMA NextPreserves == IInv /\ [Next]_vars => IInv'
<1> SUFFICES ASSUME IInv, [Next]_vars PROVE IInv'
  OBVIOUS
<1>1. ASSUME NEW s \in Session, Begin(s) PROVE IInv'
  BY <1>1, BeginClaimPreserves, BeginIngestPreserves, BeginFanoutPreserves,
     BeginTickPreserves, BeginForcePreserves DEF Begin
<1>2. ASSUME NEW s \in Session, Continue(s) PROVE IInv'
  BY <1>2, ClaimOnePreserves, LookUpToInsertPreserves, LookUpToRequeuePreserves,
     LookUpToSkipPreserves, CommitClaimPreserves, CommitOnePreserves,
     CommitFinalizePreserves, FinishParsePreserves, InsertPreserves,
     RequeuePreserves, EndWalkPreserves, ForceRequeuePreserves,
     AbortDeadlockPreserves DEF Continue
<1>3. ASSUME NEW s \in Session, Work(s) PROVE IInv'
  BY <1>3, ParseFailsPreserves, ParseDocumentsPreserves, FinishScrapePreserves,
     FinalizeOnePreserves DEF Work
<1>4. CASE UNCHANGED vars
  BY <1>4 DEF vars, storeVars, sessionVars, IInv, TypeOK, StoreTypeOK, StoreInv,
              FreeRowsAreCommitted, HeapIsNewer, StructuredIsDrafted, Drafted, ClaimInv,
              HeldIsBusy, HeldIsUncontested, ClaimExclusive, StructuredHasEvidence,
              SessionInv, Idle, Claims, Forces, Works, Walks, Closes
<1>5. QED
  BY <1>1, <1>2, <1>3, <1>4, CrashPreserves, RaisePreserves, StoreRawDocumentPreserves
  DEF Next

\* The invariant holds throughout.
THEOREM Invariant == Spec => []IInv
BY InitEstablishes, NextPreserves, PTL DEF Spec

\* Type correctness: every reachable state is well formed, and no row is ever in a
\* state the enumeration ProcessingState of the code does not have.
THEOREM TypeCorrect == Spec => []TypeOK
<1>1. IInv => TypeOK
  BY DEF IInv
<1>2. QED
  BY <1>1, Invariant, PTL

\* However many sessions run, no two hold a claim on the same enterprise, although
\* the code never compares lock_owner or lock_until.
THEOREM ClaimsAreExclusive == Spec => []ClaimExclusive
<1>1. IInv => ClaimExclusive
  BY DEF IInv, ClaimInv
<1>2. QED
  BY <1>1, Invariant, PTL

\* A claimed enterprise stays in SCRAPING or PARSING until its holder takes it out,
\* so the last transition of a worker finds the row as it left it.
THEOREM HeldStaysBusy == Spec => []HeldIsBusy
<1>1. IInv => HeldIsBusy
  BY DEF IInv, ClaimInv
<1>2. QED
  BY <1>1, Invariant, PTL

\* STRUCTURED is committed only with a snapshot and a raw document, through
\* crashes, rollbacks and aborted deadlocks.
THEOREM StructuredKeepsEvidence == Spec => []StructuredHasEvidence
<1>1. IInv => StructuredHasEvidence
  BY DEF IInv
<1>2. QED
  BY <1>1, Invariant, PTL

------------------------------------------------------------------------------
(* Versions.                                                               *)

\* The committed rows change only when a session commits.
LEMMA OnlyCommitsPublish ==
    ASSUME Next
    PROVE  db' = db \/ \E s \in Session : Commit(s)
<1> USE DEF storeVars, Fail, Rollback, TransitionState, SelectSkipLocked, InsertRow
<1>1. ASSUME NEW s \in Session, Begin(s) PROVE db' = db
  BY <1>1 DEF Begin, BeginClaim, BeginIngest, BeginFanout, BeginTick, BeginForce
<1>2. ASSUME NEW s \in Session, Continue(s) PROVE db' = db \/ Commit(s)
  BY <1>2 DEF Continue, ClaimOne, LookUpToInsert, LookUpToRequeue, LookUpToSkip,
              CommitClaim, CommitOne, Publish, CommitFinalize, FinishParse, Finish,
              Insert, Requeue, EndWalk, ForceRequeue, AbortDeadlock
<1>3. ASSUME NEW s \in Session, Work(s) PROVE db' = db
  BY <1>3 DEF Work, ParseFails, ParseDocuments, FinishScrape, FinalizeOne, Finish
<1>4. QED
  BY <1>1, <1>2, <1>3 DEF Next, Crash, Raise, StoreRawDocument

\* Every committed change of a row raises its version: no session overwrites a
\* commit it has not seen.
THEOREM VersionsGrow == Spec => VersionGrows
<1> DEFINE Grows == \A e \in Enterprise : db'[e] # db[e] => db'[e].version > db[e].version
<1>1. ASSUME IInv, [Next]_vars PROVE Grows
  <2>1. CASE \E s \in Session : Commit(s)
    BY <1>1, <2>1 DEF Commit, IInv, StoreInv, HeapIsNewer
  <2>2. QED
    BY <1>1, <2>1, OnlyCommitsPublish DEF vars, storeVars
<1>2. QED
  BY <1>1, Invariant, PTL DEF Spec, VersionGrows

------------------------------------------------------------------------------
(***************************************************************************)
(* Claims of scrapers.  A claim is lost when its session is killed, or     *)
(* when an exception makes it drop the enterprise; that another session is *)
(* the reason of the exception happens to parsers only.                    *)
(***************************************************************************)

\* SCRAPING is written by the claims alone, and becomes visible with them.
WrittenByClaim(e) ==
    heap[e].state = "SCRAPING" =>
        db[e].state = "SCRAPING" \/ (lock[e] \in Session /\ pc[lock[e]] = "claiming")

\* Scrapers look at no other enterprise, and a claim ends in a transaction that has
\* taken the row out of SCRAPING.
EndsClaims(s) ==
    /\ pc[s] \in {"walking", "inserting", "moving"} => program[s] \notin Scrapers
    /\ pc[s] = "closing" =>
          /\ current[s] \in Enterprise
          /\ lock[current[s]] = s /\ heap[current[s]].state # "SCRAPING"
    /\ pc[s] = "working" /\ program[s] = "scrape_by_source" =>
          \A e \in held[s] \ todo[s] : lock[e] = s /\ heap[e].state # "SCRAPING"

ScrapeInv == (\A e \in Enterprise : WrittenByClaim(e)) /\ \A s \in Session : EndsClaims(s)

\* No enterprise is stranded that was not.
NoneStranded == \A e \in Enterprise : Stranded(e)' => Stranded(e)

\* A step inside a transaction: s may write rows it can lock, SCRAPING while claiming only.
Inside(s) ==
    /\ UNCHANGED <<db, held>> /\ OthersUnchanged(s)
    /\ pc[s] = "claiming" => pc'[s] = "claiming"
    /\ \A e \in Enterprise :
        \/ heap'[e] = heap[e] /\ lock'[e] = lock[e]
        \/ /\ CanLock(s, e) /\ lock'[e] = s
           /\ \/ heap'[e] = heap[e]
              \/ heap'[e].state # "SCRAPING"
              \/ pc'[s] = "claiming"

LEMMA InsideKeepsScrapes ==
    ASSUME NEW s \in Session, IInv, ScrapeInv, Inside(s), EndsClaims(s)'
    PROVE  ScrapeInv' /\ NoneStranded
<1> USE DEF Inside, ScrapeInv, OthersUnchanged
<1>1. TypeOK /\ StoreTypeOK /\ FreeRowsAreCommitted
  BY DEF IInv, TypeOK, StoreInv
<1>2. ASSUME NEW e \in Enterprise PROVE WrittenByClaim(e)'
  <2>1. CASE heap'[e] = heap[e] /\ lock'[e] = lock[e]
    BY <2>1 DEF WrittenByClaim
  <2>2. CASE CanLock(s, e) /\ lock'[e] = s /\ heap'[e] = heap[e]
    BY <1>1, <2>2 DEF WrittenByClaim, CanLock, FreeRowsAreCommitted
  <2>3. CASE heap'[e].state # "SCRAPING" \/ (lock'[e] = s /\ pc'[s] = "claiming")
    BY <2>3 DEF WrittenByClaim
  <2>4. QED
    BY <2>1, <2>2, <2>3
<1>3. ASSUME NEW t \in Session, t # s PROVE EndsClaims(t)'
  <2>1. \A e \in Enterprise : lock[e] = t => lock'[e] = t /\ heap'[e] = heap[e]
    BY <1>1, <1>3 DEF CanLock
  <2>2. held[t] \subseteq Enterprise /\ held'[t] = held[t]
    BY <1>1 DEF TypeOK
  <2>3. EndsClaims(t)
    OBVIOUS
  <2>4. QED
    BY <1>3, <2>1, <2>2, <2>3 DEF EndsClaims
<1>4. NoneStranded
  BY DEF NoneStranded, Stranded
<1>5. QED
  BY <1>2, <1>3, <1>4

\* A transaction is over, and with it the claims on rows it has left in another state
\* or has never found in SCRAPING.
LEMMA OverKeepsScrapes ==
    ASSUME NEW s \in Session, NEW claims \in SUBSET held[s],
           claims # {} => program[s] # "scrape_by_source",
           IInv, ScrapeInv, Resume(s, claims),
           Rollback(s) \/ (Commit(s) /\ pc[s] # "claiming")
    PROVE  /\ ScrapeInv'
           /\ (\A e \in held[s] \ claims : db'[e].state # "SCRAPING") => NoneStranded
<1> USE DEF Resume, ScrapeInv
<1>1. TypeOK /\ StoreTypeOK /\ FreeRowsAreCommitted
  BY DEF IInv, TypeOK, StoreInv
<1>2. \A e \in Enterprise :
        IF lock[e] = s THEN lock'[e] = Nobody /\ heap'[e] = db'[e]
        ELSE lock'[e] = lock[e] /\ heap'[e] = heap[e] /\ db'[e] = db[e]
  BY <1>1 DEF Rollback, Commit
<1>3. OthersUnchanged(s) /\ held'[s] = claims
  BY <1>1 DEF OthersUnchanged, TypeOK
<1>4. ASSUME NEW e \in Enterprise PROVE WrittenByClaim(e)'
  <2>1. CASE lock[e] = s
    BY <1>2, <2>1 DEF WrittenByClaim
  <2>2. CASE lock[e] # s
    <3>1. WrittenByClaim(e)
      OBVIOUS
    <3>2. \A t \in Session \ {s} : pc'[t] = pc[t]
      BY <1>3 DEF OthersUnchanged
    <3>3. QED
      BY <1>2, <2>2, <3>1, <3>2 DEF WrittenByClaim
  <2>3. QED
    BY <2>1, <2>2
<1>5. ASSUME NEW t \in Session PROVE EndsClaims(t)'
  <2>1. CASE t = s
    BY <1>1, <2>1 DEF EndsClaims, TypeOK
  <2>2. CASE t # s
    <3>1. \A e \in Enterprise : lock[e] = t => lock'[e] = t /\ heap'[e] = heap[e]
      BY <1>2, <2>2
    <3>2. EndsClaims(t) /\ held[t] \subseteq Enterprise
      BY <1>1 DEF TypeOK
    <3>3. QED
      BY <1>3, <2>2, <3>1, <3>2 DEF EndsClaims, OthersUnchanged
  <2>3. QED
    BY <2>1, <2>2
<1>6. ASSUME \A e \in held[s] \ claims : db'[e].state # "SCRAPING",
             NEW e \in Enterprise, Stranded(e)'
      PROVE  Stranded(e)
  <2>1. db'[e].state = "SCRAPING" => db[e].state = "SCRAPING"
    <3>1. CASE Rollback(s)
      BY <3>1 DEF Rollback
    <3>2. CASE Commit(s) /\ pc[s] # "claiming"
      BY <3>2 DEF Commit, WrittenByClaim
    <3>3. QED
      BY <3>1, <3>2
  <2>2. \A t \in Session : e \in held[t] => t = s
    BY <1>3, <1>6 DEF Stranded, OthersUnchanged
  <2>3. e \notin held[s]
    BY <1>3, <1>6 DEF Stranded
  <2>4. QED
    BY <1>6, <2>1, <2>2, <2>3 DEF Stranded
<1>7. QED
  BY <1>4, <1>5, <1>6 DEF NoneStranded

\* An exception drops no enterprise in SCRAPING, unless the session is a scraper.
LEMMA FailKeepsScrapes ==
    ASSUME NEW s \in Session, NEW e, IInv, ScrapeInv, Fail(s, e),
           held[s] = {} \/ program[s] \notin Scrapers
    PROVE  ScrapeInv' /\ NoneStranded
<1> DEFINE claims == IF program[s] \in {"scrape_batch", "parse_batch"}
                     THEN held[s] \ {e} ELSE {}
<1>1. Rollback(s) /\ Resume(s, claims)
  BY DEF Fail
<1>2. claims \in SUBSET held[s] /\ (claims # {} => program[s] # "scrape_by_source")
  OBVIOUS
<1> HIDE DEF claims
<1>3. \A x \in held[s] : db'[x].state # "SCRAPING"
  BY <1>1 DEF Rollback, IInv, ClaimInv, HeldIsBusy
<1>4. QED
  BY <1>1, <1>2, <1>3, OverKeepsScrapes

LEMMA BeginKeepsScrapes ==
    ASSUME NEW s \in Session, IInv, ScrapeInv, Begin(s)
    PROVE  ScrapeInv' /\ NoneStranded
<1>1. TypeOK /\ StoreTypeOK
  BY DEF IInv, TypeOK
<1> USE DEF Start, storeVars, OthersUnchanged, TypeOK, StoreTypeOK, CanLock
<1>2. ASSUME NEW prog \in Programs, NEW S \in SUBSET Enterprise, BeginClaim(s, prog, S)
      PROVE  Inside(s) /\ EndsClaims(s)'
  BY <1>1, <1>2 DEF BeginClaim, SelectSkipLocked, Unlocked, Inside, EndsClaims
<1>3. ASSUME NEW S \in SUBSET Enterprise, BeginIngest(s, S) \/ BeginFanout(s, S) \/ BeginTick(s, S)
      PROVE  Inside(s) /\ EndsClaims(s)'
  BY <1>1, <1>3 DEF BeginIngest, BeginFanout, BeginTick, Inside, EndsClaims
<1>4. ASSUME NEW prog \in Programs, NEW e \in Enterprise, BeginForce(s, prog, e)
      PROVE  Inside(s) /\ EndsClaims(s)'
  <2>1. pc[s] = "idle" /\ pc'[s] \in {"claiming", "forcing"} /\ UNCHANGED <<storeVars, held>>
    BY <1>1, <1>4 DEF BeginForce
  <2>2. OthersUnchanged(s)
    BY <1>1, <1>4 DEF BeginForce
  <2>3. QED
    BY <2>1, <2>2 DEF Inside, EndsClaims
<1>5. QED
  BY <1>2, <1>3, <1>4, InsideKeepsScrapes DEF Begin

LEMMA ClaimKeepsScrapes ==
    ASSUME NEW s \in Session, NEW e \in Enterprise, IInv, ScrapeInv, ClaimOne(s, e)
    PROVE  ScrapeInv' /\ NoneStranded
<1>1. TypeOK /\ StoreTypeOK /\ held[s] = {}
  BY DEF IInv, TypeOK, ClaimOne, SessionInv, Claims
<1>2. CASE Applies(e, heap[e], QueueOf(program[s]))
  <2>1. /\ pc[s] = "claiming" /\ CanLock(s, e)
        /\ TransitionState(s, e, heap[e], BusyOf(program[s]))
        /\ todo' = [todo EXCEPT ![s] = @ \ {e}]
        /\ UNCHANGED <<program, pc, held, current, draft, focus, seen>>
    BY <1>2 DEF ClaimOne
  <2>2. Inside(s)
    BY <1>1, <2>1 DEF TransitionState, Inside, OthersUnchanged, TypeOK, StoreTypeOK
  <2>3. EndsClaims(s)'
    BY <1>1, <2>1 DEF EndsClaims
  <2>4. QED
    BY <2>2, <2>3, InsideKeepsScrapes
<1>3. CASE ~Applies(e, heap[e], QueueOf(program[s]))
  BY <1>1, <1>3, FailKeepsScrapes DEF ClaimOne
<1>4. QED
  BY <1>2, <1>3

LEMMA CommitClaimKeepsScrapes ==
    ASSUME NEW s \in Session, IInv, ScrapeInv, CommitClaim(s)
    PROVE  ScrapeInv' /\ NoneStranded
<1> USE DEF ScrapeInv
<1>1. TypeOK /\ StoreTypeOK /\ FreeRowsAreCommitted /\ held[s] = {} /\ pc[s] = "claiming"
  BY DEF IInv, TypeOK, StoreInv, CommitClaim, SessionInv, Claims
<1>2. \A e \in Enterprise :
        IF lock[e] = s THEN lock'[e] = Nobody /\ heap'[e] = db'[e] /\ e \in held'[s]
        ELSE lock'[e] = lock[e] /\ heap'[e] = heap[e] /\ db'[e] = db[e]
  BY <1>1 DEF CommitClaim, Commit, Locked, TypeOK
<1>3. OthersUnchanged(s)
  BY <1>1 DEF CommitClaim, GoTo, OthersUnchanged, TypeOK
<1>4. ASSUME NEW e \in Enterprise PROVE WrittenByClaim(e)' /\ (Stranded(e)' => Stranded(e))
  <2>1. CASE lock[e] = s
    BY <1>2, <2>1 DEF WrittenByClaim, Stranded
  <2>2. CASE lock[e] # s
    <3>1. WrittenByClaim(e) /\ \A t \in Session \ {s} : pc'[t] = pc[t] /\ held'[t] = held[t]
      BY <1>3 DEF OthersUnchanged
    <3>2. QED
      BY <1>1, <1>2, <2>2, <3>1 DEF WrittenByClaim, Stranded
  <2>3. QED
    BY <2>1, <2>2
<1>5. ASSUME NEW t \in Session PROVE EndsClaims(t)'
  <2>1. CASE t = s
    <3>1. pc'[s] = "working" /\ program' = program
      BY <1>1 DEF CommitClaim, GoTo, TypeOK
    <3>2. program[s] = "scrape_by_source" => todo'[s] = held'[s]
      BY <1>1 DEF CommitClaim, TypeOK
    <3>3. QED
      BY <2>1, <3>1, <3>2 DEF EndsClaims
  <2>2. CASE t # s
    <3>1. \A e \in Enterprise : lock[e] = t => lock'[e] = t /\ heap'[e] = heap[e]
      BY <1>2, <2>2
    <3>2. EndsClaims(t) /\ held[t] \subseteq Enterprise
      BY <1>1 DEF TypeOK
    <3>3. QED
      BY <1>3, <2>2, <3>1, <3>2 DEF EndsClaims, OthersUnchanged
  <2>3. QED
    BY <2>1, <2>2
<1>6. QED
  BY <1>4, <1>5 DEF NoneStranded

\* The last transition of a claim always applies, so no scraper drops one.
LEMMA FinishKeepsScrapes ==
    ASSUME NEW s \in Session, NEW e \in held[s],
           NEW result \in {"QUEUED_PARSE", "FAILED_SCRAPE", "FAILED_PARSE", "STRUCTURED"},
           IInv, ScrapeInv, Finish(s, e, result), pc[s] \in {"working", "walking"},
           \A x \in held[s] : lock[x] # s
    PROVE  ScrapeInv' /\ NoneStranded
<1>1. TypeOK /\ StoreTypeOK /\ e \in Enterprise
  BY DEF IInv, TypeOK
<1>2. Applies(e, heap[e], BusyOf(program[s]))
  <2>1. lock[e] = Nobody /\ db[e].state = BusyOf(program[s])
    BY DEF IInv, ClaimInv, HeldIsUncontested, HeldIsBusy
  <2>2. QED
    BY <1>1, <2>1 DEF IInv, StoreInv, FreeRowsAreCommitted, Applies
<1>3. /\ CanLock(s, e) /\ TransitionState(s, e, heap[e], result)
      /\ current' = [current EXCEPT ![s] = e] /\ pc' = [pc EXCEPT ![s] = "closing"]
      /\ UNCHANGED <<program, held, todo, draft, focus, seen>>
  BY <1>2 DEF Finish, GoTo
<1>4. heap'[e].state # "SCRAPING" /\ lock'[e] = s
  BY <1>1, <1>3 DEF TransitionState, Moved, StoreTypeOK
<1>5. Inside(s)
  BY <1>1, <1>3, <1>4 DEF TransitionState, Inside, OthersUnchanged, TypeOK, StoreTypeOK
<1>6. EndsClaims(s)'
  BY <1>1, <1>3, <1>4 DEF EndsClaims, TypeOK
<1>7. QED
  BY <1>5, <1>6, InsideKeepsScrapes

LEMMA FinalizeKeepsScrapes ==
    ASSUME NEW s \in Session, NEW e \in Enterprise,
           NEW result \in {"QUEUED_PARSE", "FAILED_SCRAPE"},
           IInv, ScrapeInv, FinalizeOne(s, e, result)
    PROVE  ScrapeInv' /\ NoneStranded
<1>1. TypeOK /\ StoreTypeOK
  BY DEF IInv, TypeOK
<1>2. /\ pc[s] = "working" /\ program[s] = "scrape_by_source" /\ CanLock(s, e)
      /\ todo' = [todo EXCEPT ![s] = @ \ {e}]
      /\ UNCHANGED <<db, program, pc, held, current, draft, focus, seen>>
  BY DEF FinalizeOne, TransitionState, SelectSkipLocked
<1>3. /\ lock' = [lock EXCEPT ![e] = s]
      /\ heap'[e].state # "SCRAPING"
      /\ \A x \in Enterprise \ {e} : heap'[x] = heap[x]
  BY <1>1 DEF FinalizeOne, Finalizes, Applies, TransitionState, SelectSkipLocked, Moved,
              StoreTypeOK
<1>4. Inside(s)
  BY <1>1, <1>2, <1>3 DEF Inside, OthersUnchanged, TypeOK, StoreTypeOK
<1>5. EndsClaims(s)'
  <2>1. EndsClaims(s)
    BY DEF ScrapeInv
  <2>2. held[s] \subseteq Enterprise /\ todo'[s] = todo[s] \ {e}
    BY <1>1, <1>2 DEF TypeOK
  <2>3. QED
    BY <1>1, <1>2, <1>3, <2>1, <2>2 DEF EndsClaims, StoreTypeOK
<1>6. QED
  BY <1>4, <1>5, InsideKeepsScrapes

\* The commits that end claims.
LEMMA CommitKeepsScrapes ==
    ASSUME NEW s \in Session, IInv, ScrapeInv,
           CommitOne(s) \/ CommitFinalize(s) \/ EndWalk(s)
    PROVE  ScrapeInv' /\ NoneStranded
<1>1. TypeOK /\ StoreTypeOK /\ EndsClaims(s) /\ held[s] \subseteq Enterprise
  BY DEF IInv, TypeOK, ScrapeInv
<1>2. CASE CommitOne(s)
  <2> DEFINE claims == held[s] \ {current[s]}
  <2>1. pc[s] = "closing" /\ Commit(s) /\ Resume(s, claims)
    BY <1>2 DEF CommitOne, Publish
  <2>2. program[s] # "scrape_by_source" /\ \A e \in held[s] \ claims : db'[e].state # "SCRAPING"
    BY <1>1, <2>1 DEF IInv, SessionInv, Closes, EndsClaims, Commit
  <2>3. claims \in SUBSET held[s]
    OBVIOUS
  <2> HIDE DEF claims
  <2>4. QED
    BY <2>1, <2>2, <2>3, OverKeepsScrapes
<1>3. CASE CommitFinalize(s)
  <2>1. /\ pc[s] = "working" /\ program[s] = "scrape_by_source" /\ todo[s] = {}
        /\ Commit(s) /\ Resume(s, {})
    BY <1>3 DEF CommitFinalize
  <2>2. \A e \in held[s] : db'[e].state # "SCRAPING"
    BY <1>1, <2>1 DEF EndsClaims, Commit
  <2>3. QED
    BY <2>1, <2>2, OverKeepsScrapes
<1>4. CASE EndWalk(s)
  <2>1. pc[s] = "walking" /\ Commit(s) /\ Resume(s, {})
    BY <1>4 DEF EndWalk, Publish
  <2>2. \A e \in held[s] : db'[e].state # "SCRAPING"
    <3>1. \A e \in held[s] : lock[e] # s /\ db[e].state = "PARSING"
      BY <1>1, <2>1 DEF IInv, ClaimInv, HeldIsBusy, SessionInv, Walks, EndsClaims
    <3>2. QED
      BY <1>1, <2>1, <3>1 DEF Commit
  <2>3. QED
    BY <2>1, <2>2, OverKeepsScrapes
<1>5. QED
  BY <1>2, <1>3, <1>4

LEMMA WalkKeepsScrapes ==
    ASSUME NEW s \in Session, IInv, ScrapeInv,
           \/ Insert(s) \/ Requeue(s) \/ ForceRequeue(s)
           \/ \E e \in Enterprise :
                \/ LookUpToInsert(s, e) \/ LookUpToRequeue(s, e) \/ LookUpToSkip(s, e)
                \/ StoreRawDocument(s, e)
                \/ \E D \in SUBSET Enterprise : ParseDocuments(s, e, D)
    PROVE  ScrapeInv' /\ NoneStranded
<1>1. TypeOK /\ StoreTypeOK /\ EndsClaims(s)
  BY DEF IInv, TypeOK, ScrapeInv
<1>2. ASSUME NEW e \in Enterprise,
             \/ LookUpToInsert(s, e) \/ LookUpToRequeue(s, e) \/ LookUpToSkip(s, e)
             \/ StoreRawDocument(s, e)
             \/ \E D \in SUBSET Enterprise : ParseDocuments(s, e, D)
      PROVE  Inside(s) /\ EndsClaims(s)'
  <2> USE DEF Inside, EndsClaims, OthersUnchanged, TypeOK, GoTo, storeVars, sessionVars
  <2>1. CASE LookUpToInsert(s, e)
    BY <1>1, <2>1 DEF LookUpToInsert
  <2>2. CASE LookUpToRequeue(s, e)
    BY <1>1, <2>2 DEF LookUpToRequeue
  <2>3. CASE LookUpToSkip(s, e)
    BY <1>1, <2>3 DEF LookUpToSkip
  <2>4. CASE StoreRawDocument(s, e)
    BY <1>1, <2>4 DEF StoreRawDocument
  <2>5. CASE \E D \in SUBSET Enterprise : ParseDocuments(s, e, D)
    BY <1>1, <2>5 DEF ParseDocuments
  <2>6. QED
    BY <1>2, <2>1, <2>2, <2>3, <2>4, <2>5
<1>3. ASSUME NEW x \in Enterprise, NEW row,
             CanLock(s, x), row.state \in {"QUEUED_SCRAPE", "QUEUED_PARSE"},
             heap' = [heap EXCEPT ![x] = row], lock' = [lock EXCEPT ![x] = s],
             UNCHANGED <<db, held, program>>, OthersUnchanged(s),
             \/ pc[s] \in {"inserting", "moving"} /\ pc'[s] = "walking"
             \/ pc[s] = "forcing" /\ pc'[s] = "claiming"
      PROVE  Inside(s) /\ EndsClaims(s)'
  BY <1>1, <1>3 DEF Inside, EndsClaims, StoreTypeOK
<1>4. CASE Insert(s)
  <2> DEFINE x == focus[s]
  <2>1. x \in Enterprise /\ pc[s] = "inserting" /\ program[s] \notin Scrapers
    BY <1>1, <1>4 DEF Insert, IInv, TypeOK, SessionInv, Walks, EndsClaims
  <2>2. WalkOn(s) => OthersUnchanged(s) /\ pc'[s] = "walking" /\ UNCHANGED <<held, program>>
    BY <1>1 DEF WalkOn, GoTo, OthersUnchanged, TypeOK
  <2>3. ASSUME NEW version, CanLock(s, x), WalkOn(s),
               InsertRow(s, x, [state |-> "QUEUED_SCRAPE", version |-> version])
        PROVE  Inside(s) /\ EndsClaims(s)'
    BY <1>3, <2>1, <2>2, <2>3 DEF InsertRow
  <2>4. ASSUME WalkOn(s), UNCHANGED storeVars PROVE Inside(s) /\ EndsClaims(s)'
    BY <2>1, <2>2, <2>4 DEF Inside, EndsClaims, storeVars
  <2>5. CASE Fail(s, current[s])
    BY <2>1, <2>5, FailKeepsScrapes
  <2>6. QED
    BY <1>4, <2>3, <2>4, <2>5, InsideKeepsScrapes DEF Insert
<1>5. CASE Requeue(s)
  <2> DEFINE x == focus[s]
  <2>1. x \in Enterprise /\ pc[s] = "moving" /\ program[s] \notin Scrapers /\ CanLock(s, x)
    BY <1>1, <1>5 DEF Requeue, IInv, TypeOK, SessionInv, Walks, EndsClaims
  <2>2. CASE TransitionState(s, x, seen[s], "QUEUED_SCRAPE") /\ WalkOn(s)
    <3>1. OthersUnchanged(s) /\ pc'[s] = "walking" /\ UNCHANGED <<held, program>>
      BY <1>1, <2>2 DEF WalkOn, GoTo, OthersUnchanged, TypeOK
    <3>2. Moved(seen[s], "QUEUED_SCRAPE").state = "QUEUED_SCRAPE"
      BY DEF Moved
    <3>3. Inside(s) /\ EndsClaims(s)'
      BY <1>3, <2>1, <2>2, <3>1, <3>2 DEF TransitionState
    <3>4. QED
      BY <3>3, InsideKeepsScrapes
  <2>3. CASE Fail(s, current[s])
    BY <2>1, <2>3, FailKeepsScrapes
  <2>4. QED
    BY <1>5, <2>2, <2>3 DEF Requeue
<1>6. CASE ForceRequeue(s)
  <2> DEFINE e == focus[s]
  <2>1. e \in Enterprise /\ pc[s] = "forcing" /\ held[s] = {} /\ CanLock(s, e)
    BY <1>1, <1>6 DEF ForceRequeue, IInv, TypeOK, SessionInv, Forces
  <2>2. CASE /\ TransitionState(s, e, seen[s], QueueOf(program[s]))
             /\ focus' = [focus EXCEPT ![s] = Nobody] /\ seen' = [seen EXCEPT ![s] = NoRow]
             /\ GoTo(s, "claiming") /\ UNCHANGED <<program, held, todo, current, draft>>
    <3>1. OthersUnchanged(s) /\ pc'[s] = "claiming"
      BY <1>1, <2>2 DEF GoTo, OthersUnchanged, TypeOK
    <3>2. Moved(seen[s], QueueOf(program[s])).state \in {"QUEUED_SCRAPE", "QUEUED_PARSE"}
      BY DEF Moved
    <3>3. Inside(s) /\ EndsClaims(s)'
      BY <1>3, <2>1, <2>2, <3>1, <3>2 DEF TransitionState
    <3>4. QED
      BY <3>3, InsideKeepsScrapes
  <2>3. CASE Fail(s, e)
    BY <2>1, <2>3, FailKeepsScrapes
  <2>4. QED
    BY <1>6, <2>2, <2>3 DEF ForceRequeue
<1>7. QED
  BY <1>2, <1>4, <1>5, <1>6, InsideKeepsScrapes

LEMMA StepKeepsScrapes ==
    ASSUME NEW s \in Session, IInv, ScrapeInv,
           Begin(s) \/ Continue(s) \/ Work(s) \/ \E e \in Enterprise : StoreRawDocument(s, e)
    PROVE  ScrapeInv' /\ NoneStranded
<1>1. TypeOK /\ SessionInv(s) /\ EndsClaims(s)
  BY DEF IInv, TypeOK, ScrapeInv
<1>2. ASSUME NEW e \in Enterprise, NEW result \in {"QUEUED_PARSE", "FAILED_SCRAPE"},
             FinishScrape(s, e, result)
      PROVE  ScrapeInv' /\ NoneStranded
  BY <1>1, <1>2, FinishKeepsScrapes DEF FinishScrape, SessionInv, Works, TypeOK
<1>3. ASSUME NEW e \in Enterprise, ParseFails(s, e)
      PROVE  ScrapeInv' /\ NoneStranded
  BY <1>1, <1>3, FinishKeepsScrapes DEF ParseFails, SessionInv, Works, TypeOK
<1>4. CASE FinishParse(s)
  BY <1>1, <1>4, FinishKeepsScrapes DEF FinishParse, SessionInv, Walks
<1>5. CASE AbortDeadlock(s)
  <2>1. PICK C \in SUBSET Session : s \in C /\ Deadlocked(C)
    BY <1>5 DEF AbortDeadlock
  <2>2. WaitsFor(s) # {}
    BY <2>1 DEF Deadlocked, Blocked
  <2>3. pc[s] \in {"inserting", "moving", "forcing", "claiming"}
    BY <2>2 DEF WaitsFor
  <2>4. held[s] = {} \/ program[s] \notin Scrapers
    BY <1>1, <2>3 DEF SessionInv, Claims, Forces, EndsClaims
  <2>5. QED
    BY <1>5, <2>4, FailKeepsScrapes DEF AbortDeadlock
<1>6. CASE Continue(s)
  BY <1>4, <1>5, <1>6, ClaimKeepsScrapes, CommitClaimKeepsScrapes, CommitKeepsScrapes,
     WalkKeepsScrapes DEF Continue
<1>7. CASE Work(s)
  BY <1>2, <1>3, <1>7, FinalizeKeepsScrapes, WalkKeepsScrapes DEF Work
<1>8. QED
  BY <1>6, <1>7, BeginKeepsScrapes, WalkKeepsScrapes

\* A rollback strands an enterprise only if its session has claimed it, and the session
\* could then have ended that claim.
LEMMA RollbackStrands ==
    ASSUME NEW s \in Session, NEW claims \in SUBSET held[s], NEW e \in Enterprise,
           IInv, ScrapeInv, Rollback(s), Resume(s, claims),
           Stranded(e)', ~Stranded(e)
    PROVE  e \in held[s] /\ CanEnd(s, e)
<1>1. TypeOK /\ StoreTypeOK /\ EndsClaims(s)
  BY DEF IInv, TypeOK, ScrapeInv
<1>2. db[e].state = "SCRAPING"
  BY DEF Rollback, Stranded
<1>3. e \in held[s]
  <2>1. PICK t \in Session : e \in held[t]
    BY <1>2 DEF Stranded
  <2>2. t # s => held'[t] = held[t]
    BY <1>1 DEF Resume, TypeOK
  <2>3. QED
    BY <2>1, <2>2 DEF Stranded
<1>4. lock[e] \in {Nobody, s} /\ BusyOf(program[s]) = "SCRAPING"
  BY <1>2, <1>3 DEF IInv, ClaimInv, HeldIsUncontested, HeldIsBusy
<1>5. \A t \in Session : ~Blocked(s, t)
  <2>1. pc[s] \notin {"claiming", "forcing", "inserting", "moving"}
    BY <1>1, <1>3, <1>4 DEF IInv, SessionInv, Claims, Forces, EndsClaims
  <2>2. WaitsFor(s) = {}
    BY <2>1 DEF WaitsFor
  <2>3. QED
    BY <2>2 DEF Blocked
<1>6. lock[e] = s \/ Applies(e, heap[e], BusyOf(program[s]))
  BY <1>1, <1>2, <1>4 DEF IInv, StoreInv, FreeRowsAreCommitted, Applies
<1>7. QED
  BY <1>3, <1>4, <1>5, <1>6 DEF CanEnd, CanLock

\* The steps that give up a claim: the process is killed, or raises.
LEMMA FaultKeepsScrapes ==
    ASSUME NEW s \in Session, IInv, ScrapeInv, Crash(s) \/ Raise(s)
    PROVE  /\ ScrapeInv'
           /\ \A e \in Enterprise : Stranded(e)' /\ ~Stranded(e) =>
                e \in held[s] /\ CanEnd(s, e)
<1>1. PICK claims \in SUBSET held[s] :
        Rollback(s) /\ Resume(s, claims) /\ (claims # {} => program[s] # "scrape_by_source")
  <2>1. CASE Crash(s)
    BY <2>1 DEF Crash
  <2>2. CASE Raise(s)
    <3>1. PICK e : Fail(s, e)
      BY <2>2 DEF Raise
    <3>2. QED
      BY <3>1 DEF Fail
  <2>3. QED
    BY <2>1, <2>2
<1>2. ScrapeInv'
  BY <1>1, OverKeepsScrapes
<1>3. QED
  BY <1>1, <1>2, RollbackStrands

LEMMA NextKeepsScrapes ==
    ASSUME IInv, ScrapeInv, [Next]_vars
    PROVE  /\ ScrapeInv'
           /\ \A e \in Enterprise : Stranded(e)' /\ ~Stranded(e) =>
                \E s \in Session : e \in held[s] /\ CanEnd(s, e) /\ (Crash(s) \/ Raise(s))
<1>1. ASSUME NEW s \in Session, Crash(s) \/ Raise(s)
      PROVE  /\ ScrapeInv'
             /\ \A e \in Enterprise : Stranded(e)' /\ ~Stranded(e) =>
                  e \in held[s] /\ CanEnd(s, e)
  BY <1>1, FaultKeepsScrapes
<1>2. CASE UNCHANGED vars
  <2>1. ScrapeInv'
    BY <1>2 DEF vars, storeVars, sessionVars, ScrapeInv, WrittenByClaim, EndsClaims
  <2>2. \A e \in Enterprise : Stranded(e)' => Stranded(e)
    BY <1>2 DEF vars, storeVars, sessionVars, Stranded
  <2>3. QED
    BY <2>1, <2>2
<1>3. CASE \E s \in Session : Crash(s) \/ Raise(s)
  BY <1>1, <1>3
<1>4. CASE ScrapeInv' /\ NoneStranded
  BY <1>4 DEF NoneStranded
<1>5. QED
  BY <1>2, <1>3, <1>4, StepKeepsScrapes DEF Next

\* How scrapers write SCRAPING and leave it, in every reachable state.
THEOREM ScrapersEndTheirClaims == Spec => [](IInv /\ ScrapeInv)
<1>1. Init => ScrapeInv
  BY DEF Init, StoreInit, ScrapeInv, WrittenByClaim, EndsClaims
<1>2. QED
  BY <1>1, InitEstablishes, NextPreserves, NextKeepsScrapes, PTL DEF Spec

\* With processes killed and exceptions raised anywhere, an enterprise is left in SCRAPING
\* only by its own worker's fault, which then had nothing in its way: the locks, writes,
\* rollbacks and aborted deadlocks of the other sessions never do it.  (Enterprises in
\* PARSING are left by them, as the run stranded_parse shows.)
THEOREM OthersStrandNothing == Spec => OnlyItsWorkerStrands
<1> DEFINE ByItsWorker ==
      \A e \in Enterprise : Stranded(e)' /\ ~Stranded(e) =>
        \E s \in Session : e \in held[s] /\ CanEnd(s, e) /\ (Crash(s) \/ Raise(s))
<1>1. IInv /\ ScrapeInv /\ [Next]_vars => ByItsWorker
  BY NextKeepsScrapes
<1>2. QED
  BY <1>1, ScrapersEndTheirClaims, PTL DEF Spec, OnlyItsWorkerStrands

==============================================================================
