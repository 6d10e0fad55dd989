------------------------- MODULE Pipeline_refinement -------------------------
(***************************************************************************)
(* Pipeline implements EnterpriseLifecycle, for any number of enterprises  *)
(* and sessions: seen through the committed rows and the claims, a commit  *)
(* is a claim, a release or an enqueueing, a rollback or a killed process  *)
(* abandons claims, and every other statement of a transaction is not seen *)
(* at all.                                                                 *)
(*                                                                         *)
(* IInv says what a session may do next; here it has to be known as well   *)
(* from which committed states its open transaction has moved the rows it  *)
(* has locked, because that is what its commit will show.                  *)
(***************************************************************************)
EXTENDS Pipeline_proofs

USE SessionAssumption, ProgramsAssumption
    DEF AllPrograms, Scrapers, Parsers, Forced, QueueOf, BusyOf, Row, NoRow,
        ProcessingState, Resting, PC, Lifecycle!ClaimableFor, Lifecycle!OutcomesOf,
        Lifecycle!Queued, Lifecycle!Busy, Lifecycle!Resting

------------------------------------------------------------------------------
(* The second invariant.                                                   *)

\* NEW is left again by the transaction that has inserted the row.
NoRowIsNew == \A e \in Enterprise : heap[e].state # "NEW" /\ db[e].state # "NEW"

\* A row that is put in the scrape queue was resting, or not there.
Enqueued(e) ==
    heap[e].state = "QUEUED_SCRAPE" /\ db[e].state \in Resting \cup {"ABSENT"}

\* A claim that is given back, with its result.
Resulted(e) ==
    /\ db[e].state \in Lifecycle!Busy
    /\ heap[e].state \in Lifecycle!OutcomesOf(db[e].state)

\* The committed states from which the open transaction of s moves its rows.
ClaimOrigin(s) ==
    /\ pc[s] = "claiming" =>
          /\ program[s] \in Scrapers \cup Parsers
          /\ \A e \in Enterprise :
                lock[e] = s => db[e].state \in Lifecycle!ClaimableFor(BusyOf(program[s]))
    /\ pc[s] = "forcing" => program[s] \in Forced /\ seen[s].state \in ForcedFrom(program[s])

WalkOrigin(s) ==
    pc[s] \in {"walking", "inserting", "moving"} =>
        /\ program[s] \notin Parsers => held[s] = {}
        /\ \A e \in Enterprise : lock[e] = s => Enqueued(e)

FinalizeOrigin(s) ==
    pc[s] = "working" /\ program[s] = "scrape_by_source" =>
        \A e \in Enterprise :
            /\ lock[e] = s => e \in held[s] \ todo[s]
            /\ e \in held[s] \ todo[s] => lock[e] = s /\ Resulted(e)

CloseOrigin(s) ==
    pc[s] = "closing" =>
        /\ current[s] \in held[s] /\ lock[current[s]] = s /\ Resulted(current[s])
        /\ \A e \in Enterprise : lock[e] = s /\ e # current[s] => Enqueued(e)

Origin(s) == ClaimOrigin(s) /\ WalkOrigin(s) /\ FinalizeOrigin(s) /\ CloseOrigin(s)

RInv == NoRowIsNew /\ \A s \in Session : Origin(s)

------------------------------------------------------------------------------
(* What a step of s leaves to the others.                                  *)

\* The rows another session has locked.
OthersRows(s) ==
    \A e \in Enterprise, t \in Session \ {s} :
        /\ lock'[e] = t <=> lock[e] = t
        /\ lock[e] = t => heap'[e] = heap[e] /\ db'[e] = db[e]

LEMMA OthersKeep ==
    ASSUME NEW s \in Session, NEW t \in Session \ {s}, TypeOK, Origin(t),
           OthersUnchanged(s), OthersRows(s)
    PROVE  Origin(t)'
<1> USE DEF OthersUnchanged, OthersRows
<1>1. ClaimOrigin(t)'
  BY DEF Origin, ClaimOrigin
<1>2. WalkOrigin(t)'
  BY DEF Origin, WalkOrigin, Enqueued
<1>3. FinalizeOrigin(t)'
  BY DEF Origin, FinalizeOrigin, Resulted, TypeOK
<1>4. CloseOrigin(t)'
  <2>1. CASE pc[t] # "closing"
    BY <2>1 DEF CloseOrigin
  <2>2. CASE pc[t] = "closing"
    <3>1. /\ current[t] \in held[t] /\ lock[current[t]] = t /\ Resulted(current[t])
          /\ \A e \in Enterprise : lock[e] = t /\ e # current[t] => Enqueued(e)
      BY <2>2 DEF Origin, CloseOrigin
    <3>2. PICK c \in Enterprise : c = current[t]
      BY <3>1 DEF TypeOK
    <3>3. /\ current'[t] = c /\ held'[t] = held[t] /\ lock'[c] = t
          /\ heap'[c] = heap[c] /\ db'[c] = db[c]
      BY <3>1, <3>2
    <3>4. Resulted(c)'
      BY <3>1, <3>2, <3>3 DEF Resulted
    <3>5. ASSUME NEW e \in Enterprise, lock'[e] = t, e # c PROVE Enqueued(e)'
      BY <3>1, <3>2, <3>5 DEF Enqueued
    <3>6. QED
      BY <3>1, <3>2, <3>3, <3>4, <3>5 DEF CloseOrigin
  <2>3. QED
    BY <2>1, <2>2
<1>5. QED
  BY <1>1, <1>2, <1>3, <1>4 DEF Origin

LEMMA StoreKeeps ==
    ASSUME NEW s \in Session, UNCHANGED storeVars
    PROVE  OthersRows(s) /\ (NoRowIsNew => NoRowIsNew')
BY DEF storeVars, OthersRows, NoRowIsNew

LEMMA SelectKeeps ==
    ASSUME NEW s \in Session, NEW S, SelectSkipLocked(s, S),
           \A e \in S : lock[e] \in {Nobody, s}
    PROVE  OthersRows(s) /\ (NoRowIsNew => NoRowIsNew')
BY DEF SelectSkipLocked, OthersRows, NoRowIsNew

LEMMA WriteKeeps ==
    ASSUME NEW s \in Session, NEW e \in Enterprise, NEW row, TypeOK, CanLock(s, e),
           heap' = [heap EXCEPT ![e] = row], lock' = [lock EXCEPT ![e] = s], UNCHANGED db,
           row.state # "NEW"
    PROVE  OthersRows(s) /\ (NoRowIsNew => NoRowIsNew')
BY DEF TypeOK, StoreTypeOK, CanLock, OthersRows, NoRowIsNew

LEMMA TransitionKeeps ==
    ASSUME NEW s \in Session, NEW e \in Enterprise, NEW object, NEW to, TypeOK,
           CanLock(s, e), TransitionState(s, e, object, to), to # "NEW"
    PROVE  OthersRows(s) /\ (NoRowIsNew => NoRowIsNew')
<1>1. Moved(object, to).state # "NEW"
  BY DEF Moved
<1>2. QED
  BY <1>1, WriteKeeps DEF TransitionState

LEMMA CommitKeeps ==
    ASSUME NEW s \in Session, Commit(s)
    PROVE  OthersRows(s) /\ (NoRowIsNew => NoRowIsNew')
BY DEF Commit, OthersRows, NoRowIsNew

LEMMA RollbackKeeps ==
    ASSUME NEW s \in Session, Rollback(s)
    PROVE  OthersRows(s) /\ (NoRowIsNew => NoRowIsNew')
BY DEF Rollback, OthersRows, NoRowIsNew

LEMMA Together ==
    ASSUME NEW s \in Session, TypeOK, RInv, OthersUnchanged(s), OthersRows(s),
           NoRowIsNew', Origin(s)'
    PROVE  RInv'
BY OthersKeep DEF RInv

\* The transaction of s is over.
LEMMA ResumeKeeps ==
    ASSUME NEW s \in Session, NEW claims, TypeOK, RInv, Commit(s) \/ Rollback(s),
           Resume(s, claims), claims # {} => program[s] # "scrape_by_source"
    PROVE  RInv'
<1>1. OthersRows(s) /\ NoRowIsNew'
  BY CommitKeeps, RollbackKeeps DEF RInv
<1>2. OthersUnchanged(s)
  BY DEF Resume, OthersUnchanged, TypeOK
<1>3. /\ pc'[s] \in {"idle", "working"}
      /\ pc'[s] = "working" => program'[s] # "scrape_by_source"
  BY DEF Resume, TypeOK
<1>4. Origin(s)'
  BY <1>3 DEF Origin, ClaimOrigin, WalkOrigin, FinalizeOrigin, CloseOrigin
<1>5. QED
  BY <1>1, <1>2, <1>4, Together

LEMMA FailKeeps ==
    ASSUME NEW s \in Session, NEW e, TypeOK, RInv, Fail(s, e)
    PROVE  RInv'
<1> DEFINE claims == IF program[s] \in {"scrape_batch", "parse_batch"}
                     THEN held[s] \ {e} ELSE {}
<1>1. Rollback(s) /\ Resume(s, claims) /\ (claims # {} => program[s] # "scrape_by_source")
  BY DEF Fail
<1> HIDE DEF claims
<1>2. QED
  BY <1>1, ResumeKeeps

------------------------------------------------------------------------------
(* Every step keeps the second invariant.                                  *)

LEMMA BeginClaimKeeps ==
    ASSUME NEW s \in Session, NEW prog \in Programs, NEW S \in SUBSET Enterprise,
           IInv, RInv, BeginClaim(s, prog, S)
    PROVE  RInv'
<1> USE DEF BeginClaim, Start, Unlocked
<1>1. TypeOK /\ StoreTypeOK /\ Idle(s)
  BY DEF IInv, TypeOK, SessionInv
<1>2. OthersRows(s) /\ NoRowIsNew'
  BY SelectKeeps DEF RInv
<1>3. OthersUnchanged(s)
  BY <1>1 DEF OthersUnchanged, TypeOK
<1>4. ClaimOrigin(s)'
  BY <1>1 DEF ClaimOrigin, SelectSkipLocked, Idle, TypeOK, StoreTypeOK,
              Lifecycle!ClaimableFor, Lifecycle!Queued
<1>5. Origin(s)'
  BY <1>1, <1>4 DEF Origin, WalkOrigin, FinalizeOrigin, CloseOrigin, TypeOK
<1>6. QED
  BY <1>1, <1>2, <1>3, <1>5, Together

LEMMA BeginWalkKeeps ==
    ASSUME NEW s \in Session, NEW S \in SUBSET Enterprise,
           NEW prog \in {"ingest_csv", "fanout", "lifecycle_tick"},
           IInv, RInv, Start(s, prog, "walking", S),
           UNCHANGED <<storeVars, held, current, draft, focus, seen>>
    PROVE  RInv'
<1> USE DEF Start
<1>1. TypeOK /\ StoreTypeOK /\ Idle(s)
  BY DEF IInv, TypeOK, SessionInv
<1>2. OthersRows(s) /\ NoRowIsNew'
  BY StoreKeeps DEF RInv
<1>3. OthersUnchanged(s)
  BY <1>1 DEF OthersUnchanged, TypeOK
<1>4. WalkOrigin(s)'
  BY <1>1 DEF WalkOrigin, Idle, TypeOK, storeVars
<1>5. Origin(s)'
  BY <1>1, <1>4 DEF Origin, ClaimOrigin, FinalizeOrigin, CloseOrigin, TypeOK
<1>6. QED
  BY <1>1, <1>2, <1>3, <1>5, Together

LEMMA BeginForceKeeps ==
    ASSUME NEW s \in Session, NEW prog \in Programs, NEW e \in Enterprise,
           IInv, RInv, BeginForce(s, prog, e)
    PROVE  RInv'
<1> USE DEF BeginForce, Start
<1>1. TypeOK /\ StoreTypeOK /\ Idle(s)
  BY DEF IInv, TypeOK, SessionInv
<1>2. OthersRows(s) /\ NoRowIsNew'
  BY StoreKeeps DEF RInv
<1>3. OthersUnchanged(s)
  BY <1>1 DEF OthersUnchanged, TypeOK
<1>4. ClaimOrigin(s)'
  BY <1>1 DEF ClaimOrigin, Idle, TypeOK, StoreTypeOK, storeVars
<1>5. Origin(s)'
  BY <1>1, <1>4 DEF Origin, WalkOrigin, FinalizeOrigin, CloseOrigin, TypeOK
<1>6. QED
  BY <1>1, <1>2, <1>3, <1>5, Together

LEMMA ClaimOneKeeps ==
    ASSUME NEW s \in Session, NEW e \in Enterprise, IInv, RInv, ClaimOne(s, e)
    PROVE  RInv'
<1>1. /\ TypeOK /\ StoreTypeOK /\ FreeRowsAreCommitted /\ pc[s] = "claiming"
      /\ CanLock(s, e)
  BY DEF IInv, TypeOK, StoreInv, ClaimOne
<1>2. CASE Applies(e, heap[e], QueueOf(program[s]))
  <2> USE <1>2 DEF ClaimOne
  <2>1. TransitionState(s, e, heap[e], BusyOf(program[s]))
    OBVIOUS
  <2>2. OthersRows(s) /\ NoRowIsNew'
    BY <1>1, <2>1, TransitionKeeps DEF RInv
  <2>3. OthersUnchanged(s)
    BY <1>1 DEF OthersUnchanged, TypeOK
  <2>4. ClaimOrigin(s)
    BY DEF RInv, Origin
  <2>5. db[e].state \in Lifecycle!ClaimableFor(BusyOf(program[s]))
    BY <1>1, <2>4 DEF ClaimOrigin, CanLock, FreeRowsAreCommitted, Applies,
                      Lifecycle!ClaimableFor, Lifecycle!Queued
  <2>6. ClaimOrigin(s)'
    BY <1>1, <2>1, <2>4, <2>5 DEF ClaimOrigin, StoreTypeOK, TransitionState
  <2>7. Origin(s)'
    BY <1>1, <2>6 DEF Origin, WalkOrigin, FinalizeOrigin, CloseOrigin
  <2>8. QED
    BY <1>1, <2>2, <2>3, <2>7, Together
<1>3. CASE ~Applies(e, heap[e], QueueOf(program[s]))
  BY <1>1, <1>3, FailKeeps DEF ClaimOne
<1>4. QED
  BY <1>2, <1>3

LEMMA CommitClaimKeeps ==
    ASSUME NEW s \in Session, IInv, RInv, CommitClaim(s)
    PROVE  RInv'
<1> USE DEF CommitClaim, GoTo
<1>1. TypeOK /\ StoreTypeOK
  BY DEF IInv, TypeOK
<1>2. OthersRows(s) /\ NoRowIsNew'
  BY CommitKeeps DEF RInv
<1>3. OthersUnchanged(s)
  BY <1>1 DEF OthersUnchanged, TypeOK
<1>4. FinalizeOrigin(s)'
  BY <1>1 DEF FinalizeOrigin, Commit, Locked, TypeOK, StoreTypeOK
<1>5. Origin(s)'
  BY <1>1, <1>4 DEF Origin, ClaimOrigin, WalkOrigin, CloseOrigin, TypeOK
<1>6. QED
  BY <1>1, <1>2, <1>3, <1>5, Together

LEMMA FinishKeeps ==
    ASSUME NEW s \in Session, NEW e \in held[s], NEW result \in ProcessingState,
           IInv, RInv, Finish(s, e, result),
           result \in Lifecycle!OutcomesOf(BusyOf(program[s])),
           \A x \in Enterprise : lock[x] = s => Enqueued(x)
    PROVE  RInv'
<1>1. /\ TypeOK /\ StoreTypeOK /\ e \in Enterprise /\ CanLock(s, e)
      /\ db[e].state = BusyOf(program[s])
  BY DEF IInv, TypeOK, ClaimInv, HeldIsBusy, Finish
<1>2. CASE Applies(e, heap[e], BusyOf(program[s]))
  <2> USE <1>2 DEF Finish, GoTo
  <2>1. TransitionState(s, e, heap[e], result)
    OBVIOUS
  <2>2. result # "NEW"
    OBVIOUS
  <2>3. OthersRows(s) /\ NoRowIsNew'
    BY <1>1, <2>1, <2>2, TransitionKeeps DEF RInv
  <2>4. OthersUnchanged(s)
    BY <1>1 DEF OthersUnchanged, TypeOK
  <2>5. /\ current'[s] = e /\ held'[s] = held[s] /\ lock'[e] = s
        /\ heap'[e].state = result /\ db'[e] = db[e]
    BY <1>1, <2>1 DEF TypeOK, StoreTypeOK, TransitionState, Moved
  <2>6. Resulted(e)'
    BY <1>1, <2>5 DEF Resulted, Lifecycle!Busy
  <2>7. \A x \in Enterprise : lock'[x] = s /\ x # e => Enqueued(x)'
    BY <1>1, <2>1 DEF Enqueued, StoreTypeOK, TransitionState
  <2>8. CloseOrigin(s)'
    BY <2>5, <2>6, <2>7 DEF CloseOrigin
  <2>9. pc'[s] = "closing"
    BY <1>1 DEF TypeOK
  <2>10. Origin(s)'
    BY <2>8, <2>9 DEF Origin, ClaimOrigin, WalkOrigin, FinalizeOrigin
  <2>11. QED
    BY <1>1, <2>3, <2>4, <2>10, Together
<1>3. CASE ~Applies(e, heap[e], BusyOf(program[s]))
  BY <1>1, <1>3, FailKeeps DEF Finish
<1>4. QED
  BY <1>2, <1>3

LEMMA FinishScrapeKeeps ==
    ASSUME NEW s \in Session, NEW e \in Enterprise,
           NEW result \in {"QUEUED_PARSE", "FAILED_SCRAPE"},
           IInv, RInv, FinishScrape(s, e, result)
    PROVE  RInv'
<1>1. /\ e \in held[s] /\ Finish(s, e, result) /\ result \in ProcessingState
      /\ result \in Lifecycle!OutcomesOf(BusyOf(program[s]))
  BY DEF FinishScrape
<1>2. \A x \in Enterprise : lock[x] # s
  BY DEF FinishScrape, IInv, SessionInv, Works
<1>3. QED
  BY <1>1, <1>2, FinishKeeps

LEMMA ParseFailsKeeps ==
    ASSUME NEW s \in Session, NEW e \in Enterprise, IInv, RInv, ParseFails(s, e)
    PROVE  RInv'
<1>1. /\ e \in held[s] /\ Finish(s, e, "FAILED_PARSE")
      /\ "FAILED_PARSE" \in Lifecycle!OutcomesOf(BusyOf(program[s]))
  BY DEF ParseFails
<1>2. \A x \in Enterprise : lock[x] # s
  BY DEF ParseFails, IInv, SessionInv, Works
<1>3. QED
  BY <1>1, <1>2, FinishKeeps

LEMMA FinishParseKeeps ==
    ASSUME NEW s \in Session, IInv, RInv, FinishParse(s)
    PROVE  RInv'
<1>1. /\ current[s] \in held[s] /\ Finish(s, current[s], "STRUCTURED")
      /\ "STRUCTURED" \in Lifecycle!OutcomesOf(BusyOf(program[s]))
  BY DEF FinishParse, IInv, SessionInv, Walks
<1>2. \A x \in Enterprise : lock[x] = s => Enqueued(x)
  BY DEF FinishParse, RInv, Origin, WalkOrigin
<1>3. QED
  BY <1>1, <1>2, FinishKeeps

\* finalize_scrape finds each row it has claimed in SCRAPING.
LEMMA FinalizeFinds ==
    ASSUME NEW s \in Session, NEW e \in Enterprise,
           NEW result \in {"QUEUED_PARSE", "FAILED_SCRAPE"},
           IInv, RInv, FinalizeOne(s, e, result)
    PROVE  /\ e \in held[s] /\ db[e].state = "SCRAPING"
           /\ TransitionState(s, e, heap[e], result)
<1>1. e \in held[s] /\ program[s] = "scrape_by_source" /\ pc[s] = "working"
  BY DEF FinalizeOne, IInv, SessionInv, Works
<1>2. db[e].state = "SCRAPING"
  BY <1>1 DEF IInv, ClaimInv, HeldIsBusy
<1>3. lock[e] = Nobody
  BY <1>1 DEF FinalizeOne, CanLock, RInv, Origin, FinalizeOrigin
<1>4. Applies(e, heap[e], "SCRAPING")
  BY <1>2, <1>3 DEF IInv, StoreInv, FreeRowsAreCommitted, Applies
<1>5. QED
  BY <1>1, <1>2, <1>4 DEF FinalizeOne, Finalizes

LEMMA FinalizeOneKeeps ==
    ASSUME NEW s \in Session, NEW e \in Enterprise,
           NEW result \in {"QUEUED_PARSE", "FAILED_SCRAPE"},
           IInv, RInv, FinalizeOne(s, e, result)
    PROVE  RInv'
<1>1. TypeOK /\ StoreTypeOK /\ CanLock(s, e)
  BY DEF IInv, TypeOK, FinalizeOne
<1>2. /\ e \in held[s] /\ db[e].state = "SCRAPING"
      /\ TransitionState(s, e, heap[e], result)
  BY FinalizeFinds
<1>3. OthersRows(s) /\ NoRowIsNew'
  BY <1>1, <1>2, TransitionKeeps DEF RInv
<1>4. OthersUnchanged(s)
  BY <1>1 DEF FinalizeOne, OthersUnchanged, TypeOK
<1>5. /\ held' = held /\ pc' = pc /\ program' = program /\ pc[s] = "working"
      /\ program[s] = "scrape_by_source" /\ todo'[s] = todo[s] \ {e}
      /\ lock' = [lock EXCEPT ![e] = s] /\ db' = db /\ FinalizeOrigin(s)
      /\ \A x \in Enterprise \ {e} : heap'[x] = heap[x]
      /\ heap'[e].state = result
  BY <1>1, <1>2 DEF FinalizeOne, TypeOK, TransitionState, Moved, StoreTypeOK, RInv, Origin
<1>6. Resulted(e)'
  BY <1>2, <1>5 DEF Resulted
<1>7. ASSUME NEW x \in Enterprise, x # e
      PROVE  /\ lock'[x] = s => x \in held'[s] \ todo'[s]
             /\ x \in held'[s] \ todo'[s] => lock'[x] = s /\ Resulted(x)'
  BY <1>1, <1>5, <1>7 DEF FinalizeOrigin, Resulted, StoreTypeOK
<1>8. e \in held'[s] \ todo'[s] /\ lock'[e] = s
  BY <1>1, <1>2, <1>5 DEF StoreTypeOK
<1>9. FinalizeOrigin(s)'
  BY <1>6, <1>7, <1>8 DEF FinalizeOrigin
<1>10. Origin(s)'
  BY <1>5, <1>9 DEF Origin, ClaimOrigin, WalkOrigin, CloseOrigin
<1>11. QED
  BY <1>1, <1>3, <1>4, <1>10, Together

LEMMA CommitOneKeeps ==
    ASSUME NEW s \in Session, IInv, RInv, CommitOne(s)
    PROVE  RInv'
<1>1. /\ TypeOK /\ Commit(s) /\ Resume(s, held[s] \ {current[s]})
      /\ program[s] # "scrape_by_source"
  BY DEF CommitOne, Publish, IInv, SessionInv, Closes
<1>2. QED
  BY <1>1, ResumeKeeps

LEMMA EndsKeep ==
    ASSUME NEW s \in Session, IInv, RInv,
           CommitFinalize(s) \/ EndWalk(s) \/ Crash(s) \/ AbortDeadlock(s)
    PROVE  RInv'
<1>1. TypeOK
  BY DEF IInv
<1>2. CASE CommitFinalize(s) \/ EndWalk(s) \/ Crash(s)
  BY <1>1, <1>2, ResumeKeeps DEF CommitFinalize, EndWalk, Publish, Crash
<1>3. CASE AbortDeadlock(s)
  BY <1>1, <1>3, FailKeeps DEF AbortDeadlock
<1>4. QED
  BY <1>2, <1>3

------------------------------------------------------------------------------
(* Steps that leave the store alone.                                       *)

LEMMA StoreRawDocumentKeeps ==
    ASSUME NEW s \in Session, NEW e \in Enterprise, IInv, RInv, StoreRawDocument(s, e)
    PROVE  RInv'
BY DEF StoreRawDocument, storeVars, sessionVars, RInv, NoRowIsNew, Origin, ClaimOrigin,
       WalkOrigin, FinalizeOrigin, CloseOrigin, Resulted, Enqueued

LEMMA ParseDocumentsKeeps ==
    ASSUME NEW s \in Session, NEW e \in Enterprise, NEW D \in SUBSET Enterprise,
           IInv, RInv, ParseDocuments(s, e, D)
    PROVE  RInv'
<1> USE DEF ParseDocuments, GoTo
<1>1. TypeOK /\ StoreTypeOK /\ Works(s)
  BY DEF IInv, TypeOK, SessionInv
<1>2. OthersRows(s) /\ NoRowIsNew'
  BY StoreKeeps DEF RInv
<1>3. OthersUnchanged(s)
  BY <1>1 DEF OthersUnchanged, TypeOK
<1>4. WalkOrigin(s)'
  BY <1>1 DEF WalkOrigin, Works, TypeOK, storeVars
<1>5. Origin(s)'
  BY <1>1, <1>4 DEF Origin, ClaimOrigin, FinalizeOrigin, CloseOrigin, TypeOK
<1>6. QED
  BY <1>1, <1>2, <1>3, <1>5, Together

\* A lookup keeps what the transaction has done so far.
LEMMA LookUpKeeps ==
    ASSUME NEW s \in Session, NEW x \in Enterprise, IInv, RInv,
           LookUpToInsert(s, x) \/ LookUpToRequeue(s, x) \/ LookUpToSkip(s, x)
    PROVE  RInv'
<1> USE DEF LookUpToInsert, LookUpToRequeue, LookUpToSkip, GoTo
<1>1. /\ TypeOK /\ StoreTypeOK /\ WalkOrigin(s) /\ pc[s] = "walking"
      /\ UNCHANGED <<storeVars, program, held>>
  BY DEF IInv, TypeOK, RInv, Origin
<1>2. OthersRows(s) /\ NoRowIsNew'
  BY <1>1, StoreKeeps DEF RInv
<1>3. OthersUnchanged(s)
  BY <1>1 DEF OthersUnchanged, TypeOK
<1>4. pc'[s] \in {"walking", "inserting", "moving"}
  BY <1>1 DEF TypeOK
<1>5. WalkOrigin(s)'
  BY <1>1, <1>4 DEF WalkOrigin, storeVars, Enqueued
<1>6. Origin(s)'
  BY <1>4, <1>5 DEF Origin, ClaimOrigin, FinalizeOrigin, CloseOrigin
<1>7. QED
  BY <1>1, <1>2, <1>3, <1>6, Together

------------------------------------------------------------------------------
(* The writes of a walk and of a forced command.                           *)

\* A walk goes on after it has put x in the scrape queue.
LEMMA WalkOnKeeps ==
    ASSUME NEW s \in Session, NEW x \in Enterprise, TypeOK, RInv,
           pc[s] \in {"inserting", "moving"}, WalkOn(s),
           OthersRows(s), NoRowIsNew',
           \A e \in Enterprise \ {x} :
                lock'[e] = lock[e] /\ heap'[e] = heap[e] /\ db'[e] = db[e],
           lock'[x] = s => Enqueued(x)'
    PROVE  RInv'
<1> USE DEF WalkOn, GoTo
<1>1. OthersUnchanged(s)
  BY DEF OthersUnchanged, TypeOK
<1>2. WalkOrigin(s) /\ pc'[s] = "walking" /\ program' = program /\ held' = held
  BY DEF RInv, Origin, TypeOK
<1>3. ASSUME NEW e \in Enterprise, lock'[e] = s PROVE Enqueued(e)'
  <2>1. CASE e = x
    BY <1>3, <2>1
  <2>2. CASE e # x
    BY <1>2, <1>3, <2>2 DEF WalkOrigin, Enqueued
  <2>3. QED
    BY <2>1, <2>2
<1>4. WalkOrigin(s)'
  BY <1>2, <1>3 DEF WalkOrigin
<1>5. Origin(s)'
  BY <1>2, <1>4 DEF Origin, ClaimOrigin, FinalizeOrigin, CloseOrigin
<1>6. QED
  BY <1>1, <1>5, Together

LEMMA InsertKeeps ==
    ASSUME NEW s \in Session, IInv, RInv, Insert(s)
    PROVE  RInv'
<1> PICK x \in Enterprise : pc[s] = "inserting" /\ x = focus[s]
  BY DEF Insert, IInv, SessionInv, Walks
<1>1. TypeOK /\ StoreTypeOK /\ pc[s] = "inserting" /\ WalkOrigin(s)
  BY DEF Insert, IInv, TypeOK, SessionInv, Walks, RInv, Origin
<1>2. CASE db[x].state = "ABSENT"
  <2>1. PICK row \in Row :
           /\ row.state = "QUEUED_SCRAPE" /\ CanLock(s, x) /\ InsertRow(s, x, row)
           /\ WalkOn(s)
    <3> DEFINE row == [state |-> "QUEUED_SCRAPE",
                       version |-> IF program[s] = "ingest_csv" THEN 1 ELSE 2]
    <3>1. row \in Row /\ row.state = "QUEUED_SCRAPE"
      OBVIOUS
    <3>2. CanLock(s, x) /\ InsertRow(s, x, row) /\ WalkOn(s)
      BY <1>2 DEF Insert
    <3>3. QED
      BY <3>1, <3>2
  <2>2. row.state # "NEW"
    BY <2>1
  <2>3. OthersRows(s) /\ NoRowIsNew'
    BY <1>1, <2>1, <2>2, WriteKeeps DEF InsertRow, RInv
  <2>4. heap'[x] = row /\ db' = db /\ Enqueued(x)'
    BY <1>1, <1>2, <2>1 DEF InsertRow, StoreTypeOK, Enqueued
  <2>5. \A e \in Enterprise \ {x} : lock'[e] = lock[e] /\ heap'[e] = heap[e]
    BY <1>1, <2>1 DEF InsertRow, StoreTypeOK
  <2>6. QED
    BY <1>1, <2>1, <2>3, <2>4, <2>5, WalkOnKeeps
<1>3. CASE db[x].state # "ABSENT" /\ program[s] = "ingest_csv"
  <2>1. UNCHANGED storeVars /\ WalkOn(s)
    BY <1>3 DEF Insert
  <2>2. OthersRows(s) /\ NoRowIsNew'
    BY <2>1, StoreKeeps DEF RInv
  <2>3. lock'[x] = s => Enqueued(x)'
    BY <1>1, <2>1 DEF storeVars, Enqueued, WalkOrigin
  <2>4. QED
    BY <1>1, <2>1, <2>2, <2>3, WalkOnKeeps DEF storeVars
<1>4. CASE db[x].state # "ABSENT" /\ program[s] # "ingest_csv"
  BY <1>1, <1>4, FailKeeps DEF Insert
<1>5. QED
  BY <1>2, <1>3, <1>4

LEMMA RequeueKeeps ==
    ASSUME NEW s \in Session, IInv, RInv, Requeue(s)
    PROVE  RInv'
<1> PICK x \in Enterprise : pc[s] = "moving" /\ x = focus[s]
  BY DEF Requeue, IInv, SessionInv, Walks
<1>1. /\ TypeOK /\ StoreTypeOK /\ pc[s] = "moving" /\ CanLock(s, x)
      /\ WalkOrigin(s) /\ seen[s].state \in Resting \cup {"NEW"}
  BY DEF Requeue, IInv, TypeOK, SessionInv, Walks, RInv, Origin
<1>2. CASE Applies(x, seen[s], seen[s].state)
  <2>1. TransitionState(s, x, seen[s], "QUEUED_SCRAPE") /\ WalkOn(s)
    BY <1>2 DEF Requeue
  <2>2. OthersRows(s) /\ NoRowIsNew'
    BY <1>1, <2>1, TransitionKeeps DEF RInv
  <2>3. heap[x].state \in Resting
    BY <1>1, <1>2 DEF Applies, RInv, NoRowIsNew
  <2>4. db[x].state \in Resting \cup {"ABSENT"}
    BY <1>1, <2>3 DEF CanLock, WalkOrigin, Enqueued, IInv, StoreInv, FreeRowsAreCommitted
  <2>5. Enqueued(x)' /\ db' = db
    BY <1>1, <2>1, <2>4 DEF TransitionState, Moved, StoreTypeOK, Enqueued
  <2>6. \A e \in Enterprise \ {x} : lock'[e] = lock[e] /\ heap'[e] = heap[e]
    BY <1>1, <2>1 DEF TransitionState, StoreTypeOK
  <2>7. QED
    BY <1>1, <2>1, <2>2, <2>5, <2>6, WalkOnKeeps
<1>3. CASE ~Applies(x, seen[s], seen[s].state)
  BY <1>1, <1>3, FailKeeps DEF Requeue
<1>4. QED
  BY <1>2, <1>3

LEMMA ForceRequeueKeeps ==
    ASSUME NEW s \in Session, IInv, RInv, ForceRequeue(s)
    PROVE  RInv'
<1> DEFINE x == focus[s]
<1>1. /\ TypeOK /\ StoreTypeOK /\ pc[s] = "forcing" /\ x \in Enterprise /\ CanLock(s, x)
      /\ program[s] \in Forced /\ seen[s].state \in ForcedFrom(program[s])
      /\ \A e \in Enterprise : lock[e] # s
  BY DEF ForceRequeue, IInv, TypeOK, SessionInv, Forces, RInv, Origin, ClaimOrigin
<1>2. CASE Applies(x, seen[s], seen[s].state)
  <2>1. /\ TransitionState(s, x, seen[s], QueueOf(program[s]))
        /\ pc'[s] = "claiming" /\ program' = program
        /\ OthersUnchanged(s)
    BY <1>1, <1>2 DEF ForceRequeue, GoTo, TypeOK, OthersUnchanged
  <2>2. QueueOf(program[s]) # "NEW"
    OBVIOUS
  <2>3. OthersRows(s) /\ NoRowIsNew'
    BY <1>1, <2>1, <2>2, TransitionKeeps DEF RInv
  <2>4. db[x].state \in ForcedFrom(program[s])
    BY <1>1, <1>2 DEF Applies, CanLock, IInv, StoreInv, FreeRowsAreCommitted
  <2>5. db' = db /\ \A e \in Enterprise : lock'[e] = s => e = x
    BY <1>1, <2>1 DEF TransitionState, StoreTypeOK
  <2>6. ClaimOrigin(s)'
    BY <1>1, <2>1, <2>4, <2>5 DEF ClaimOrigin, ForcedFrom
  <2>7. Origin(s)'
    BY <2>1, <2>6 DEF Origin, WalkOrigin, FinalizeOrigin, CloseOrigin
  <2>8. QED
    BY <1>1, <2>1, <2>3, <2>7, Together
<1>3. CASE ~Applies(x, seen[s], seen[s].state)
  BY <1>1, <1>3, FailKeeps DEF ForceRequeue
<1>4. QED
  BY <1>2, <1>3

------------------------------------------------------------------------------
LEMMA InitOrigins == Init => RInv
BY DEF Init, StoreInit, RInv, NoRowIsNew, Origin, ClaimOrigin, WalkOrigin, FinalizeOrigin,
       CloseOrigin

LEMMA NextKeeps ==
    ASSUME IInv, RInv, [Next]_vars
    PROVE  RInv'
<1>1. ASSUME NEW s \in Session, Begin(s) PROVE RInv'
  BY <1>1, BeginClaimKeeps, BeginWalkKeeps, BeginForceKeeps
     DEF Begin, BeginIngest, BeginFanout, BeginTick
<1>2. ASSUME NEW s \in Session, Continue(s) PROVE RInv'
  BY <1>2, ClaimOneKeeps, LookUpKeeps, CommitClaimKeeps, CommitOneKeeps, EndsKeep,
     FinishParseKeeps, InsertKeeps, RequeueKeeps, ForceRequeueKeeps DEF Continue
<1>3. ASSUME NEW s \in Session, Work(s) PROVE RInv'
  BY <1>3, ParseFailsKeeps, ParseDocumentsKeeps, FinishScrapeKeeps, FinalizeOneKeeps DEF Work
<1>4. ASSUME NEW s \in Session, Crash(s) \/ Raise(s) PROVE RInv'
  BY <1>4, EndsKeep, FailKeeps DEF Raise, IInv
<1>5. ASSUME NEW s \in Session, NEW e \in Enterprise, StoreRawDocument(s, e) PROVE RInv'
  BY <1>5, StoreRawDocumentKeeps
<1>6. CASE UNCHANGED vars
  BY <1>6 DEF vars, storeVars, sessionVars, RInv, NoRowIsNew, Origin, ClaimOrigin,
              WalkOrigin, FinalizeOrigin, CloseOrigin, Resulted, Enqueued
<1>7. QED
  BY <1>1, <1>2, <1>3, <1>4, <1>5, <1>6 DEF Next

\* The committed states from which open transactions move their rows.
THEOREM Origins == Spec => [](IInv /\ RInv)
<1>1. IInv /\ RInv /\ [Next]_vars => RInv'
  BY NextKeeps
<1>2. QED
  BY <1>1, InitOrigins, Invariant, PTL DEF Spec

------------------------------------------------------------------------------
(* The refinement mapping.                                                 *)

\* The holder of an enterprise is the one session that has claimed it.
Holders ==
    \A e \in Enterprise :
        /\ \A s \in Session : ClaimHolder[e] = s <=> e \in held[s]
        /\ ClaimHolder[e] = Nobody <=> \A s \in Session : e \notin held[s]
        /\ ClaimHolder[e] \in Session \cup {Nobody}

LEMMA ClaimHasHolder == IInv => Holders
<1> SUFFICES ASSUME IInv, NEW e \in Enterprise
             PROVE  /\ \A s \in Session : ClaimHolder[e] = s <=> e \in held[s]
                    /\ ClaimHolder[e] = Nobody <=> \A s \in Session : e \notin held[s]
                    /\ ClaimHolder[e] \in Session \cup {Nobody}
  BY DEF Holders
<1>1. CASE \A s \in Session : e \notin held[s]
  BY <1>1 DEF ClaimHolder
<1>2. ASSUME NEW t \in Session, e \in held[t]
      PROVE  ClaimHolder[e] = t /\ \A s \in Session : e \in held[s] => s = t
  <2>1. \A s \in Session : e \in held[s] => s = t
    BY <1>2 DEF IInv, ClaimInv, ClaimExclusive
  <2>2. ClaimHolder[e] = CHOOSE s \in Session : e \in held[s]
    BY <1>2 DEF ClaimHolder
  <2>3. ClaimHolder[e] = t
    BY <1>2, <2>1, <2>2
  <2>4. QED
    BY <2>1, <2>3
<1>3. QED
  BY <1>1, <1>2

LEMMA HoldersAfter == IInv' => Holders'
BY ClaimHasHolder, PTL

\* s takes claims on S.
LEMMA HoldersGrow ==
    ASSUME NEW s \in Session, NEW S \in SUBSET Enterprise, IInv, IInv',
           OthersUnchanged(s), held[s] = {}, held'[s] = S,
           \A e \in S : ClaimHolder[e] = Nobody
    PROVE  ClaimHolder' = [e \in Enterprise |-> IF e \in S THEN s ELSE ClaimHolder[e]]
<1>1. Holders /\ Holders'
  BY ClaimHasHolder, HoldersAfter
<1>2. ASSUME NEW e \in Enterprise
      PROVE  ClaimHolder'[e] = IF e \in S THEN s ELSE ClaimHolder[e]
  BY <1>1 DEF Holders, OthersUnchanged
<1>3. QED
  BY <1>2, Zenon DEF ClaimHolder

\* s gives S back, or abandons it.
LEMMA HoldersShrink ==
    ASSUME NEW s \in Session, NEW S \in SUBSET held[s], IInv, IInv',
           OthersUnchanged(s), held'[s] = held[s] \ S
    PROVE  ClaimHolder' = [e \in Enterprise |-> IF e \in S THEN Nobody ELSE ClaimHolder[e]]
<1>1. Holders /\ Holders'
  BY ClaimHasHolder, HoldersAfter
<1>2. ASSUME NEW e \in Enterprise
      PROVE  ClaimHolder'[e] = IF e \in S THEN Nobody ELSE ClaimHolder[e]
  BY <1>1 DEF Holders, OthersUnchanged
<1>3. QED
  BY <1>2, Zenon DEF ClaimHolder

\* A commit shows the rows that were locked.
LEMMA CommitShows ==
    ASSUME NEW s \in Session, Commit(s)
    PROVE  /\ CommittedState' = [e \in Enterprise |->
                  IF lock[e] = s THEN heap[e].state ELSE CommittedState[e]]
           /\ \A e \in Enterprise : CommittedState[e] = db[e].state
<1>1. \A e \in Enterprise :
        db'[e].state = IF lock[e] = s THEN heap[e].state ELSE db[e].state
  BY DEF Commit
<1>2. QED
  BY <1>1 DEF CommittedState

\* A row locked by s and not claimed by it is claimed by nobody.
LEMMA LockedIsFree ==
    ASSUME NEW s \in Session, NEW e \in Enterprise, IInv, lock[e] = s, e \notin held[s]
    PROVE  ClaimHolder[e] = Nobody
<1>1. \A t \in Session : e \notin held[t]
  BY DEF IInv, ClaimInv, HeldIsUncontested
<1>2. QED
  BY <1>1, ClaimHasHolder DEF Holders

------------------------------------------------------------------------------
(* Each step is one of EnterpriseLifecycle's, or not seen.                 *)

LEMMA InitRefines == Init => Lifecycle!Init
BY DEF Init, StoreInit, CommittedState, ClaimHolder, Lifecycle!Init, Lifecycle!Absent

LEMMA CommitClaimRefines ==
    ASSUME NEW s \in Session, IInv, IInv', RInv, CommitClaim(s)
    PROVE  Lifecycle!Next
<1> DEFINE S == Locked(s)
           busy == BusyOf(program[s])
<1>1. /\ TypeOK /\ Commit(s) /\ held[s] = {} /\ held'[s] = S /\ S \in SUBSET Enterprise
      /\ busy \in Lifecycle!Busy /\ OthersUnchanged(s)
  BY DEF CommitClaim, IInv, SessionInv, Claims, TypeOK, Locked, OthersUnchanged, GoTo
<1>2. \A e \in S : heap[e].state = busy /\ db[e].state \in Lifecycle!ClaimableFor(busy)
  BY DEF CommitClaim, IInv, SessionInv, Claims, Locked, RInv, Origin, ClaimOrigin
<1>3. \A e \in S : ClaimHolder[e] = Nobody
  BY <1>1, LockedIsFree DEF Locked
<1>4. ClaimHolder' = [e \in Enterprise |-> IF e \in S THEN s ELSE ClaimHolder[e]]
  BY <1>1, <1>3, HoldersGrow
<1>5. CommittedState' = [e \in Enterprise |-> IF e \in S THEN busy ELSE CommittedState[e]]
  BY <1>1, <1>2, CommitShows DEF Locked
<1>6. \A e \in S : CommittedState[e] \in Lifecycle!ClaimableFor(busy)
  BY <1>1, <1>2, CommitShows
<1> HIDE DEF S, busy
<1>7. S \in SUBSET Lifecycle!Claimable(busy)
  BY <1>1, <1>3, <1>6 DEF Lifecycle!Claimable
<1>8. Lifecycle!Claim(s, S, busy)
  BY <1>4, <1>5 DEF Lifecycle!Claim
<1>9. QED
  BY <1>1, <1>7, <1>8 DEF Lifecycle!Next

\* S are given back with their results, and D are enqueued in the same transaction.
LEMMA ReleaseRefines ==
    ASSUME NEW s \in Session, NEW S \in SUBSET held[s], NEW D \in SUBSET Enterprise,
           IInv, IInv', Commit(s), OthersUnchanged(s), held'[s] = held[s] \ S,
           D \cap held[s] = {}, Locked(s) = S \cup D,
           \A e \in S : Resulted(e), \A e \in D : Enqueued(e)
    PROVE  Lifecycle!Next
<1>1. S \in SUBSET Enterprise /\ \A e \in Enterprise : lock[e] = s <=> e \in S \cup D
  BY DEF IInv, TypeOK, Locked
<1>2. S \in SUBSET Lifecycle!Held(s)
  BY <1>1, ClaimHasHolder DEF Holders, Lifecycle!Held
<1>3. \A e \in D : ClaimHolder[e] = Nobody
  BY <1>1, LockedIsFree
<1>4. D \in SUBSET Lifecycle!Enqueueable
  BY <1>3, CommitShows DEF Enqueued, Lifecycle!Enqueueable, Lifecycle!Absent
<1>5. ClaimHolder' = [e \in Enterprise |-> IF e \in S THEN Nobody ELSE ClaimHolder[e]]
  BY HoldersShrink
<1> DEFINE result == [e \in S |-> heap[e].state]
<1>6. result \in [S -> Lifecycle!Queued \cup Lifecycle!Resting]
  BY DEF Resulted
<1>7. \A e \in S : result[e] \in Lifecycle!OutcomesOf(CommittedState[e])
  BY <1>1, CommitShows DEF Resulted
<1>8. CommittedState' = [e \in Enterprise |->
                            IF e \in S THEN result[e]
                            ELSE IF e \in D THEN "QUEUED_SCRAPE" ELSE CommittedState[e]]
  BY <1>1, CommitShows DEF Enqueued
<1> HIDE DEF result
<1>9. Lifecycle!Release(s, S, D)
  BY <1>5, <1>6, <1>7, <1>8 DEF Lifecycle!Release
<1>10. QED
  BY <1>2, <1>4, <1>9 DEF Lifecycle!Next

LEMMA CommitOneRefines ==
    ASSUME NEW s \in Session, IInv, IInv', RInv, CommitOne(s)
    PROVE  Lifecycle!Next
<1> DEFINE S == {current[s]}
           D == Locked(s) \ {current[s]}
<1>1. /\ TypeOK /\ Commit(s) /\ pc[s] = "closing" /\ CloseOrigin(s) /\ Closes(s)
      /\ OthersUnchanged(s) /\ held'[s] = held[s] \ S
  BY DEF CommitOne, Publish, Resume, IInv, SessionInv, RInv, Origin, TypeOK, OthersUnchanged
<1>2. /\ S \in SUBSET held[s] /\ D \in SUBSET Enterprise /\ Locked(s) = S \cup D
      /\ \A e \in S : Resulted(e)
  BY <1>1 DEF CloseOrigin, Locked, TypeOK
<1>3. D \cap held[s] = {} /\ \A e \in D : Enqueued(e)
  BY <1>1 DEF Closes, CloseOrigin, Locked
<1>4. QED
  BY <1>1, <1>2, <1>3, ReleaseRefines

LEMMA CommitFinalizeRefines ==
    ASSUME NEW s \in Session, IInv, IInv', RInv, CommitFinalize(s)
    PROVE  Lifecycle!Next
<1>1. /\ TypeOK /\ Commit(s) /\ OthersUnchanged(s) /\ held'[s] = held[s] \ held[s]
      /\ FinalizeOrigin(s) /\ todo[s] = {}
  BY DEF CommitFinalize, Resume, IInv, RInv, Origin, TypeOK, OthersUnchanged
<1>2. Locked(s) = held[s] \cup {} /\ \A e \in held[s] : Resulted(e)
  BY <1>1 DEF CommitFinalize, FinalizeOrigin, Locked, TypeOK
<1>3. QED
  BY <1>1, <1>2, ReleaseRefines

LEMMA EndWalkRefines ==
    ASSUME NEW s \in Session, IInv, IInv', RInv, EndWalk(s)
    PROVE  Lifecycle!Next
<1> DEFINE D == Locked(s)
<1>1. /\ Commit(s) /\ OthersUnchanged(s) /\ held[s] = {} /\ held'[s] = held[s] \ {}
      /\ \A e \in D : Enqueued(e)
  BY DEF EndWalk, Publish, Resume, IInv, RInv, Origin, WalkOrigin, TypeOK, OthersUnchanged,
         Locked
<1>2. D \in SUBSET Enterprise /\ Locked(s) = {} \cup D
  BY DEF Locked
<1>3. QED
  BY <1>1, <1>2, ReleaseRefines

\* A rollback shows nothing but the claims that are lost.
LEMMA RollbackRefines ==
    ASSUME NEW s \in Session, NEW claims \in SUBSET held[s], IInv, IInv',
           Rollback(s), Resume(s, claims)
    PROVE  Lifecycle!Next
<1> DEFINE S == held[s] \ claims
<1>1. /\ TypeOK /\ OthersUnchanged(s) /\ held'[s] = held[s] \ S /\ S \in SUBSET held[s]
      /\ S \in SUBSET Enterprise
  BY DEF Resume, IInv, TypeOK, OthersUnchanged
<1>2. CommittedState' = CommittedState
  BY DEF Rollback, CommittedState
<1>3. ClaimHolder' = [e \in Enterprise |-> IF e \in S THEN Nobody ELSE ClaimHolder[e]]
  BY <1>1, HoldersShrink
<1>4. S \in SUBSET Lifecycle!Held(s)
  BY <1>1, ClaimHasHolder DEF Holders, Lifecycle!Held
<1> HIDE DEF S
<1>5. Lifecycle!Abandon(s, S)
  BY <1>2, <1>3 DEF Lifecycle!Abandon
<1>6. QED
  BY <1>4, <1>5 DEF Lifecycle!Next

LEMMA FailRefines ==
    ASSUME NEW s \in Session, NEW e, IInv, IInv', Fail(s, e)
    PROVE  Lifecycle!Next
<1> DEFINE claims == IF program[s] \in {"scrape_batch", "parse_batch"}
                     THEN held[s] \ {e} ELSE {}
<1>1. claims \in SUBSET held[s] /\ Rollback(s) /\ Resume(s, claims)
  BY DEF Fail
<1> HIDE DEF claims
<1>2. QED
  BY <1>1, RollbackRefines

\* A step that commits nothing and changes no claim.
Unseen == UNCHANGED <<db, held>>

LEMMA UnseenRefines == Unseen => UNCHANGED Lifecycle!vars
BY DEF Unseen, Lifecycle!vars, CommittedState, ClaimHolder

LEMMA BeginIsUnseen ==
    ASSUME NEW s \in Session, Begin(s)
    PROVE  Unseen
BY DEF Begin, BeginClaim, BeginIngest, BeginFanout, BeginTick, BeginForce,
       SelectSkipLocked, storeVars, Unseen

LEMMA ContinueRefines ==
    ASSUME NEW s \in Session, IInv, IInv', RInv, Continue(s)
    PROVE  Unseen \/ Lifecycle!Next
<1> USE DEF Unseen, storeVars, TransitionState
<1>1. ASSUME NEW e \in Enterprise, ClaimOne(s, e) PROVE Unseen \/ Lifecycle!Next
  BY <1>1, FailRefines DEF ClaimOne
<1>2. ASSUME NEW e \in Enterprise,
             LookUpToInsert(s, e) \/ LookUpToRequeue(s, e) \/ LookUpToSkip(s, e)
      PROVE  Unseen
  BY <1>2 DEF LookUpToInsert, LookUpToRequeue, LookUpToSkip
<1>3. CASE FinishParse(s)
  BY <1>3, FailRefines DEF FinishParse, Finish
<1>4. CASE Insert(s)
  BY <1>4, FailRefines DEF Insert, InsertRow, WalkOn
<1>5. CASE Requeue(s)
  BY <1>5, FailRefines DEF Requeue, WalkOn
<1>6. CASE ForceRequeue(s)
  BY <1>6, FailRefines DEF ForceRequeue
<1>7. CASE AbortDeadlock(s)
  BY <1>7, FailRefines DEF AbortDeadlock
<1>8. QED
  BY <1>1, <1>2, <1>3, <1>4, <1>5, <1>6, <1>7, CommitClaimRefines, CommitOneRefines,
     CommitFinalizeRefines, EndWalkRefines DEF Continue

LEMMA WorkRefines ==
    ASSUME NEW s \in Session, IInv, IInv', RInv, Work(s)
    PROVE  Unseen \/ Lifecycle!Next
<1> USE DEF Unseen, storeVars, TransitionState, Finish
<1>1. ASSUME NEW e \in Enterprise, ParseFails(s, e) PROVE Unseen \/ Lifecycle!Next
  BY <1>1, FailRefines DEF ParseFails
<1>2. ASSUME NEW e \in Enterprise, NEW D \in SUBSET Enterprise, ParseDocuments(s, e, D)
      PROVE  Unseen
  BY <1>2 DEF ParseDocuments
<1>3. ASSUME NEW e \in Enterprise, NEW result \in {"QUEUED_PARSE", "FAILED_SCRAPE"}
      PROVE  /\ FinishScrape(s, e, result) => Unseen \/ Lifecycle!Next
             /\ FinalizeOne(s, e, result) => Unseen
  BY <1>3, FailRefines DEF FinishScrape, FinalizeOne, SelectSkipLocked
<1>4. QED
  BY <1>1, <1>2, <1>3 DEF Work

LEMMA StepRefines ==
    ASSUME IInv, IInv', RInv, [Next]_vars
    PROVE  [Lifecycle!Next]_(Lifecycle!vars)
<1>1. ASSUME NEW s \in Session, Crash(s) PROVE Lifecycle!Next
  BY <1>1, RollbackRefines DEF Crash
<1>2. ASSUME NEW s \in Session, NEW e \in Enterprise, StoreRawDocument(s, e) PROVE Unseen
  BY <1>2 DEF StoreRawDocument, storeVars, sessionVars, Unseen
<1>3. UNCHANGED vars => Unseen
  BY DEF vars, storeVars, sessionVars, Unseen
<1>4. ASSUME NEW s \in Session, Raise(s) PROVE Lifecycle!Next
  BY <1>4, FailRefines DEF Raise
<1>5. Next => Unseen \/ Lifecycle!Next
  BY <1>1, <1>2, <1>4, BeginIsUnseen, ContinueRefines, WorkRefines DEF Next
<1>6. QED
  BY <1>3, <1>5, UnseenRefines

\* The concurrent transactions of all programs, their rollbacks and their deaths
\* implement a register in which an enterprise has one holder, only the holder moves
\* it, and claims, results and enqueueings each happen at once.
THEOREM Refinement == Spec => ImplementsLifecycle
<1>1. IInv /\ IInv' /\ RInv /\ [Next]_vars => [Lifecycle!Next]_(Lifecycle!vars)
  BY StepRefines
<1>2. QED
  BY <1>1, InitRefines, Origins, PTL DEF Spec, ImplementsLifecycle, Lifecycle!Spec

==============================================================================
