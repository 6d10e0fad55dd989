--------------------------- MODULE Bootstrap_proofs --------------------------
(***************************************************************************)
(* Theorems about Bootstrap, for any number of runs, enterprises, files    *)
(* and sites, any size and number of batches, and a failure anywhere.      *)
(***************************************************************************)
EXTENDS Bootstrap, FiniteSetTheorems, TLAPS

USE NobodyAssumption, EnterpriseAssumption, FilesAssumption, SitesAssumption, LimitAssumption,
    MaxBatchesAssumption, SafetyCapAssumption

Works(r) == stage[r] \in Working

\* The stages with a batch in hand.
Batched == {"kbo", "finalize", "parse"} \cup SiteSet

(***************************************************************************)
(* The inductive invariant.                                                *)
(***************************************************************************)
OneWorks == \A r, s \in Run : Works(r) /\ Works(s) => r = s

Rest == SlotFree => batch = 0 /\ numbers = {}

\* The batches that are left suffice for a queue.
Suffices(queue) ==
    In(queue) = {} \/ Cardinality(In(queue)) + batch * Limit <= Cardinality(Enterprise)

\* A claim that is nobody's any more is in SCRAPING for good.
Decided == Csv \subseteq settled \cup In("SCRAPING")

\* The batch and its index.
BatchInv(r) ==
    /\ stage[r] \notin Batched => numbers = {}
    /\ stage[r] \in {"ingest", "analytics", "mark"} => batch = 0
    /\ stage[r] \in {"prepare", "extract"} => batch < MaxOf(r)
    /\ stage[r] = "parse" => numbers \subseteq settled /\ okNumbers = {}

\* What a run has seen to when it comes to a stage.
DoneInv(r) ==
    /\ In("ABSENT") \cap Csv \subseteq IF stage[r] = "ingest" THEN UNION files ELSE {}
    /\ ~force[r] /\ r \notin blind => began \subseteq {r}
    /\ Unlimited(r) =>
          /\ stage[r] \in {"prepare", "kbo", "finalize"} \cup SiteSet => Suffices("QUEUED_SCRAPE")
          /\ stage[r] \in {"extract", "parse"} => Decided /\ Suffices("QUEUED_PARSE")
          /\ stage[r] \in {"analytics", "mark"} => Decided /\ In("QUEUED_PARSE") = {}

\* Only a finalize takes an enterprise beyond SCRAPING.
SettledInv ==
    \A n \in Enterprise \ settled : state[n] \in {"ABSENT", "QUEUED_SCRAPE", "SCRAPING"}

BeganInv == began # {} => \E n \in Enterprise : state[n] # "ABSENT"

Inv ==
    /\ TypeOK
    /\ OneWorks
    /\ Rest
    /\ \A r \in Run : Works(r) => BatchInv(r) /\ DoneInv(r)
    /\ SettledInv
    /\ BeganInv
    /\ LeftBehindOnlyByFailure
    /\ FreshVolumeOnce

------------------------------------------------------------------------------
(* Stages and sets.                                                        *)

LEMMA SiteNames ==
    /\ SiteSet \subseteq {"moniteur", "statutes", "bnb"}
    /\ Head(Sites) \in SiteSet
    /\ \A i \in DOMAIN Sites : Sites[i] \in SiteSet
                               /\ (i # Len(Sites) => Sites[i + 1] \in SiteSet)
<1>1. Sites \in Seq({"moniteur", "statutes", "bnb"}) /\ Len(Sites) \in Nat /\ Len(Sites) # 0
      /\ DOMAIN Sites = 1 .. Len(Sites)
  OBVIOUS
<1>2. \A i \in 1 .. Len(Sites) : Sites[i] \in {"moniteur", "statutes", "bnb"}
  BY <1>1
<1>3. 1 \in DOMAIN Sites /\ Head(Sites) = Sites[1]
  BY <1>1
<1>4. QED
  BY <1>1, <1>2, <1>3 DEF SiteSet

LEMMA MaxOfType == ASSUME NEW r \in Run, TypeOK PROVE MaxOf(r) \in Nat \ {0}
BY DEF MaxOf, TypeOK

LEMMA InIsFinite ==
    ASSUME NEW q
    PROVE  IsFiniteSet(In(q)) /\ Cardinality(In(q)) \in Nat
BY FS_Subset, FS_CardinalityType DEF In

\* A batch is part of the queue, not too large, and empty only when the queue is.
LEMMA BatchFacts ==
    ASSUME NEW queue \in SUBSET Enterprise, NEW s \in Batches(queue)
    PROVE  /\ s \subseteq queue
           /\ IsFiniteSet(s) /\ Cardinality(s) <= Limit
           /\ s = {} => queue = {}
           /\ \/ s = queue
              \/ Cardinality(queue \ s) = Cardinality(queue) - Limit
<1>1. s \subseteq queue /\ IsFiniteSet(queue) /\ IsFiniteSet(s)
  BY FS_Subset DEF Batches
<1>2. Cardinality(queue) \in Nat /\ Cardinality(s) \in Nat
  BY <1>1, FS_CardinalityType
<1>3. CASE Cardinality(queue) < Limit
  <2>1. Cardinality(s) = Cardinality(queue)
    BY <1>3 DEF Batches
  <2>2. s = queue
    BY <1>1, <2>1, FS_Subset
  <2>3. QED
    BY <1>1, <1>2, <1>3, <2>1, <2>2
<1>4. CASE ~(Cardinality(queue) < Limit)
  <2>1. Cardinality(s) = Limit
    BY <1>4 DEF Batches
  <2>2. s # {}
    BY <2>1, FS_EmptySet
  <2>3. queue \cap s = s
    BY <1>1
  <2>4. Cardinality(queue \ s) = Cardinality(queue) - Limit
    BY <1>1, <2>1, <2>3, FS_Difference
  <2>5. QED
    BY <1>1, <2>1, <2>2, <2>4
<1>5. QED
  BY <1>3, <1>4

\* A queue that a batch has been taken from needs a batch less.
LEMMA TakingSuffices ==
    ASSUME NEW queue, NEW s \in Batches(In(queue)), Suffices(queue), batch \in Nat,
           In(queue)' = In(queue) \ s, batch' = batch + 1
    PROVE  Suffices(queue)'
<1>1. CASE s = In(queue)
  BY <1>1 DEF Suffices
<1>2. CASE s # In(queue)
  <2>1. In(queue) # {}
    BY <1>2, BatchFacts DEF In
  <2>2. Cardinality(In(queue) \ s) = Cardinality(In(queue)) - Limit
    BY <1>2, BatchFacts DEF In
  <2>3. Cardinality(In(queue)) \in Nat /\ Cardinality(Enterprise) \in Nat
    BY InIsFinite, FS_CardinalityType
  <2>4. batch' * Limit = batch * Limit + Limit /\ batch * Limit \in Nat
    OBVIOUS
  <2>5. Cardinality(In(queue)') = Cardinality(In(queue)) - Limit
    BY <2>2
  <2>6. QED
    BY <2>1, <2>3, <2>4, <2>5 DEF Suffices
<1>3. QED
  BY <1>1, <1>2

LEMMA ShrinkingSuffices ==
    ASSUME NEW queue, Suffices(queue), batch \in Nat, In(queue)' \subseteq In(queue),
           UNCHANGED batch
    PROVE  Suffices(queue)'
<1>1. Cardinality(In(queue)') <= Cardinality(In(queue)) /\ Cardinality(In(queue)') \in Nat
      /\ Cardinality(In(queue)) \in Nat /\ Cardinality(Enterprise) \in Nat
      /\ batch * Limit \in Nat
  BY InIsFinite, FS_Subset, FS_CardinalityType
<1>2. In(queue) = {} => In(queue)' = {}
  OBVIOUS
<1>3. QED
  BY <1>1, <1>2 DEF Suffices

\* A queue is empty once a run without a limit has used up its batches.
LEMMA UsedUpIsEmpty ==
    ASSUME NEW r \in Run, TypeOK, Works(r), Unlimited(r), NEW queue, Suffices(queue),
           ~(batch < MaxOf(r))
    PROVE  In(queue) = {}
<1>1. batch = SafetyCap
  BY DEF TypeOK, MaxOf, Unlimited, Works
<1>2. Cardinality(Enterprise) <= batch * Limit
  BY <1>1, FS_CardinalityType DEF Unlimited
<1>3. Cardinality(In(queue)) \in Nat /\ Cardinality(Enterprise) \in Nat
      /\ batch * Limit \in Nat
  BY <1>1, InIsFinite, FS_CardinalityType
<1>4. Cardinality(In(queue)) = 0 \/ In(queue) = {}
  BY <1>2, <1>3 DEF Suffices
<1>5. QED
  BY <1>4, InIsFinite, FS_EmptySet

LEMMA FirstBatch ==
    ASSUME NEW queue, batch' = 0
    PROVE  Suffices(queue)'
<1>1. In(queue)' \subseteq Enterprise
  BY DEF In
<1>2. Cardinality(In(queue)') <= Cardinality(Enterprise) /\ Cardinality(In(queue)') \in Nat
      /\ Cardinality(Enterprise) \in Nat
  BY <1>1, FS_Subset, FS_CardinalityType
<1>3. QED
  BY <1>2 DEF Suffices

------------------------------------------------------------------------------
LEMMA InitEstablishes == Init => Inv
<1> SUFFICES ASSUME Init PROVE Inv
  OBVIOUS
<1> USE DEF Init
<1>1. \A r \in Run : ~Works(r)
  BY SiteNames DEF Works, Working
<1>2. TypeOK
  BY <1>1, FS_EmptySet DEF TypeOK, State, Works
<1>3. QED
  BY <1>1, <1>2 DEF Inv, OneWorks, Rest, SettledInv, BeganInv, LeftBehindOnlyByFailure,
     FreshVolumeOnce, In

\* A step of the run that works, with what it has to keep.
LEMMA WorkKeeps ==
    ASSUME NEW r \in Run, Inv, Works(r),
           NEW to \in Working \cup {"success", "failed"},
           stage' = [stage EXCEPT ![r] = to],
           UNCHANGED <<params, blind>>,
           TypeOK',
           to \in Working => BatchInv(r)' /\ DoneInv(r)',
           to \notin Working => batch' = 0 /\ numbers' = {},
           SettledInv', BeganInv', LeftBehindOnlyByFailure', FreshVolumeOnce'
    PROVE  Inv'
<1> USE DEF Inv
<1>1. stage'[r] = to /\ \A s \in Run \ {r} : stage'[s] = stage[s] /\ ~Works(s)'
  BY DEF TypeOK, OneWorks, Works
<1>2. OneWorks'
  BY <1>1 DEF OneWorks, Works
<1>3. Rest'
  BY <1>1 DEF Rest, SlotFree, Works
<1>4. ASSUME NEW s \in Run, Works(s)' PROVE BatchInv(s)' /\ DoneInv(s)'
  BY <1>1, <1>4 DEF Works
<1>5. QED
  BY <1>2, <1>3, <1>4

LEMMA WorkerFacts ==
    ASSUME NEW r \in Run, Inv, Works(r)
    PROVE  /\ BatchInv(r) /\ DoneInv(r) /\ MaxOf(r) \in Nat \ {0}
           /\ batch \in Nat
BY MaxOfType DEF Inv, TypeOK

LEMMA GateKeeps ==
    ASSUME NEW r \in Run, Inv, Gate(r)
    PROVE  Inv'
<1> USE DEF Inv, Gate, params, program
<1>1. stage'[r] \in {"ready", "skipped"} /\ \A s \in Run \ {r} : stage'[s] = stage[s]
  BY DEF TypeOK
<1>2. \A s \in Run : ~Works(s) /\ ~Works(s)'
  BY <1>1, SiteNames DEF SlotFree, Works, Working
<1>3. TypeOK'
  <2>1. stage' \in [Run -> {"gate", "ready"} \cup Working \cup Over]
    BY DEF TypeOK, Over
  <2>2. QED
    BY <1>2, <2>1 DEF TypeOK, Works
<1>4. OneWorks' /\ Rest'
  BY <1>2 DEF OneWorks, Rest, SlotFree, Works
<1>5. SettledInv' /\ BeganInv' /\ FreshVolumeOnce'
  BY DEF SettledInv, BeganInv, FreshVolumeOnce
<1>6. LeftBehindOnlyByFailure'
  BY <1>1 DEF LeftBehindOnlyByFailure, In
<1>7. QED
  BY <1>2, <1>3, <1>4, <1>5, <1>6

LEMMA StartKeeps ==
    ASSUME NEW r \in Run, Inv, Start(r)
    PROVE  Inv'
<1> USE DEF Inv, Start, params
<1>1. PICK answers \in BOOLEAN :
          /\ blind' = IF answers THEN blind ELSE blind \cup {r}
          /\ IF MayStart(r, answers)
             THEN /\ stage' = [stage EXCEPT ![r] = "ingest"]
                  /\ files' = Files
             ELSE /\ stage' = [stage EXCEPT ![r] = "success"]
                  /\ UNCHANGED files
  OBVIOUS
<1>2. batch = 0 /\ numbers = {} /\ \A s \in Run : ~Works(s)
  BY DEF Rest, SlotFree, Works
<1>3. stage'[r] \in {"ingest", "success"} /\ \A s \in Run \ {r} : stage'[s] = stage[s]
  BY <1>1 DEF TypeOK
<1>4. \A s \in Run \ {r} : ~Works(s)'
  BY <1>2, <1>3 DEF Works
<1>5. TypeOK'
  <2>1. stage' \in [Run -> {"gate", "ready"} \cup Working \cup Over]
    BY <1>1 DEF TypeOK, Over, Working
  <2>2. blind' \subseteq Run /\ files' \subseteq Files
    BY <1>1 DEF TypeOK
  <2>3. MaxOf(r)' \in Nat
    BY MaxOfType DEF MaxOf, TypeOK
  <2>4. QED
    BY <1>2, <1>4, <2>1, <2>2, <2>3 DEF TypeOK, Works
<1>6. OneWorks' /\ Rest'
  BY <1>2, <1>4 DEF OneWorks, Rest, Works
<1>7. ASSUME Works(r)' PROVE BatchInv(r)' /\ DoneInv(r)'
  <2>1. stage'[r] = "ingest" /\ files' = Files /\ MayStart(r, answers)
    BY <1>1, <1>3, <1>7, SiteNames DEF TypeOK, Works, Working
  <2>2. BatchInv(r)'
    BY <1>2, <2>1, SiteNames DEF BatchInv
  <2>3. ~force'[r] /\ r \notin blind' => began' = {}
    BY <1>1, <2>1 DEF MayStart, Uninitialized, BeganInv
  <2>4. In("ABSENT")' \cap Csv \subseteq UNION files'
    BY <2>1 DEF Csv
  <2>5. QED
    BY <2>1, <2>2, <2>3, <2>4, SiteNames DEF DoneInv
<1>8. SettledInv' /\ BeganInv'
  BY DEF SettledInv, BeganInv
<1>9. FreshVolumeOnce'
  BY <1>1 DEF FreshVolumeOnce
<1>10. LeftBehindOnlyByFailure'
  BY <1>2, <1>3 DEF LeftBehindOnlyByFailure, In
<1>11. QED
  BY <1>4, <1>5, <1>6, <1>7, <1>8, <1>9, <1>10

\* What a run that works keeps when it leaves the rows alone.
LEMMA RowsAlone ==
    ASSUME NEW r \in Run, Inv, Works(r), NEW to, stage' = [stage EXCEPT ![r] = to],
           UNCHANGED <<params, blind, state, began, settled, numbers>>
    PROVE  SettledInv' /\ BeganInv' /\ LeftBehindOnlyByFailure' /\ FreshVolumeOnce'
<1> USE DEF Inv, params
<1>1. \A s \in Run : stage[s] = "failed" => stage'[s] = "failed"
  BY SiteNames DEF TypeOK, Works, Working
<1>2. QED
  BY <1>1 DEF SettledInv, BeganInv, LeftBehindOnlyByFailure, FreshVolumeOnce, In

LEMMA StageType ==
    ASSUME NEW r \in Run, Inv, Works(r), NEW to \in Working \cup {"success", "failed"},
           stage' = [stage EXCEPT ![r] = to]
    PROVE  /\ stage' \in [Run -> {"gate", "ready"} \cup Working \cup Over]
           /\ stage'[r] = to
           /\ \A s \in Run \ {r} : stage'[s] = stage[s] /\ ~Works(s)'
           /\ \A s \in Run : stage[s] = "failed" => stage'[s] = "failed"
BY SiteNames DEF Inv, TypeOK, OneWorks, Works, Working, Over

LEMMA IngestKeeps ==
    ASSUME NEW r \in Run, Inv, IngestFile(r)
    PROVE  Inv'
<1> USE DEF IngestFile, params
<1>0. Works(r)
  BY DEF Works, Working
<1>1. PICK f \in files : state' = Ingested(f) /\ files' = files \ {f}
  OBVIOUS
<1>2. BatchInv(r) /\ DoneInv(r) /\ MaxOf(r) \in Nat \ {0} /\ batch = 0 /\ numbers = {}
  BY <1>0, WorkerFacts, SiteNames DEF BatchInv, Batched
<1> DEFINE to == IF files' = {} THEN "prepare" ELSE "ingest"
<1>3. to \in Working /\ stage' = [stage EXCEPT ![r] = to]
  BY DEF Inv, TypeOK, Working
<1>4. f \in Files /\ f \subseteq Enterprise /\ f # {}
  <2>1. f \in Files
    BY <1>1 DEF Inv, TypeOK
  <2>2. QED
    BY <2>1
<1>5. /\ \A n \in Enterprise : state'[n] = IF n \in f /\ state[n] = "ABSENT"
                                           THEN "QUEUED_SCRAPE" ELSE state[n]
      /\ state' \in [Enterprise -> State]
  BY <1>1 DEF Ingested, Inv, TypeOK, State
<1>6. /\ stage' \in [Run -> {"gate", "ready"} \cup Working \cup Over] /\ stage'[r] = to
      /\ \A s \in Run \ {r} : stage'[s] = stage[s] /\ ~Works(s)'
      /\ \A s \in Run : stage[s] = "failed" => stage'[s] = "failed"
  BY <1>0, <1>3, StageType
<1>7. TypeOK'
  BY <1>1, <1>2, <1>5, <1>6 DEF Inv, TypeOK, MaxOf, Works
<1>8. BatchInv(r)'
  BY <1>2, <1>6 DEF BatchInv, MaxOf
<1>9. DoneInv(r)'
  <2>1. In("ABSENT")' \subseteq In("ABSENT") \ f
    BY <1>4, <1>5 DEF In
  <2>2. In("ABSENT") \cap Csv \subseteq UNION files
    BY <1>2 DEF DoneInv
  <2>3. In("ABSENT")' \cap Csv \subseteq UNION files'
    BY <1>1, <2>1, <2>2
  <2>4. files' = {} => UNION files' = {}
    OBVIOUS
  <2>5. ~force[r] /\ r \notin blind => began' \subseteq {r}
    BY <1>2 DEF DoneInv
  <2>6. to \notin SiteSet /\ to \in {"prepare", "ingest"}
    BY SiteNames
  <2>7. Suffices("QUEUED_SCRAPE")'
    BY <1>2, FirstBatch
  <2>8. QED
    BY <1>6, <2>3, <2>4, <2>5, <2>6, <2>7 DEF DoneInv
<1>10. SettledInv' /\ BeganInv'
  <2>1. PICK n \in Enterprise : n \in f
    BY <1>4
  <2>2. state'[n] # "ABSENT"
    BY <1>5, <2>1
  <2>3. QED
    BY <1>5, <2>2 DEF Inv, SettledInv, BeganInv
<1>11. LeftBehindOnlyByFailure'
  BY <1>5, <1>6 DEF Inv, LeftBehindOnlyByFailure, In
<1>12. FreshVolumeOnce'
  BY <1>2 DEF DoneInv, Inv, FreshVolumeOnce
<1>13. QED
  BY <1>0, <1>3, <1>7, <1>8, <1>9, <1>10, <1>11, <1>12, WorkKeeps

LEMMA PrepareKeeps ==
    ASSUME NEW r \in Run, Inv, Prepare(r)
    PROVE  Inv'
<1> USE DEF Prepare, params
<1>0. Works(r)
  BY DEF Works, Working
<1>1. PICK s \in Batches(In("QUEUED_SCRAPE")) :
          /\ numbers' = s
          /\ state' = [n \in Enterprise |-> IF n \in s THEN "SCRAPING" ELSE state[n]]
          /\ stage' = [stage EXCEPT ![r] = IF s = {} THEN "extract" ELSE "kbo"]
          /\ batch' = IF s = {} THEN 0 ELSE batch + 1
  OBVIOUS
<1>2. /\ BatchInv(r) /\ DoneInv(r) /\ MaxOf(r) \in Nat \ {0} /\ batch \in Nat
      /\ numbers = {} /\ batch < MaxOf(r)
  BY <1>0, WorkerFacts, SiteNames DEF BatchInv, Batched
<1> DEFINE to == IF s = {} THEN "extract" ELSE "kbo"
<1>3. to \in Working /\ to \notin SiteSet
  BY SiteNames DEF Working
<1>4. /\ s \subseteq In("QUEUED_SCRAPE") /\ s \subseteq Enterprise
      /\ IsFiniteSet(s) /\ Cardinality(s) <= Limit
      /\ s = {} => In("QUEUED_SCRAPE") = {}
  <2>1. In("QUEUED_SCRAPE") \in SUBSET Enterprise
    BY DEF In
  <2>2. /\ s \subseteq In("QUEUED_SCRAPE")
        /\ IsFiniteSet(s) /\ Cardinality(s) <= Limit
        /\ s = {} => In("QUEUED_SCRAPE") = {}
    BY ONLY <2>1, BatchFacts, s \in Batches(In("QUEUED_SCRAPE"))
  <2>3. QED
    BY <2>1, <2>2
<1>5. /\ \A n \in Enterprise : state'[n] = IF n \in s THEN "SCRAPING" ELSE state[n]
      /\ state' \in [Enterprise -> State]
  BY <1>1 DEF Inv, TypeOK, State
<1>6. /\ stage' \in [Run -> {"gate", "ready"} \cup Working \cup Over] /\ stage'[r] = to
      /\ \A q \in Run \ {r} : stage'[q] = stage[q] /\ ~Works(q)'
      /\ \A q \in Run : stage[q] = "failed" => stage'[q] = "failed"
  BY <1>0, <1>1, <1>3, StageType
<1>7. TypeOK'
  <2>1. batch' \in Nat /\ batch' <= MaxOf(r)
    BY <1>1, <1>2
  <2>2. okNumbers = {}
    BY <1>2 DEF Inv, TypeOK
  <2>3. QED
    BY <1>1, <1>4, <1>5, <1>6, <2>1, <2>2 DEF Inv, TypeOK, MaxOf, Works
<1>8. BatchInv(r)'
  BY <1>1, <1>2, <1>6 DEF BatchInv, MaxOf, Batched
<1>9. DoneInv(r)'
  <2>1. In("ABSENT")' = In("ABSENT") /\ In("ABSENT") \cap Csv = {}
    BY <1>2, <1>4, <1>5 DEF In, DoneInv
  <2>2. ~force[r] /\ r \notin blind => began \subseteq {r}
    BY <1>2 DEF DoneInv
  <2>3. ASSUME Unlimited(r), s # {} PROVE Suffices("QUEUED_SCRAPE")'
    <3>1. In("QUEUED_SCRAPE")' = In("QUEUED_SCRAPE") \ s
      BY <1>5 DEF In
    <3>2. Suffices("QUEUED_SCRAPE") /\ batch' = batch + 1
      BY <1>1, <1>2, <2>3 DEF DoneInv
    <3>3. QED
      BY <1>2, <3>1, <3>2, TakingSuffices
  <2>4. ASSUME Unlimited(r), s = {} PROVE Decided' /\ Suffices("QUEUED_PARSE")'
    <3>1. ASSUME NEW n \in Csv PROVE n \in settled' \/ n \in In("SCRAPING")'
      <4>1. n \in Enterprise /\ n \notin In("ABSENT") /\ n \notin In("QUEUED_SCRAPE")
        BY <1>4, <2>1, <2>4 DEF Csv
      <4>2. n \in settled \/ state[n] = "SCRAPING"
        BY <4>1 DEF Inv, SettledInv, In
      <4>3. QED
        BY <1>5, <4>1, <4>2 DEF In
    <3>2. batch' = 0
      BY <1>1, <2>4
    <3>3. QED
      BY <3>1, <3>2, FirstBatch DEF Decided
  <2>5. QED
    BY <1>3, <1>6, <2>1, <2>2, <2>3, <2>4 DEF DoneInv, Unlimited
<1>10. SettledInv' /\ BeganInv'
  BY <1>5 DEF Inv, SettledInv, BeganInv
<1>11. LeftBehindOnlyByFailure'
  BY <1>1, <1>2, <1>5, <1>6 DEF Inv, LeftBehindOnlyByFailure, In
<1>12. FreshVolumeOnce'
  BY DEF Inv, FreshVolumeOnce
<1>13. QED
  BY <1>0, <1>1, <1>3, <1>7, <1>8, <1>9, <1>10, <1>11, <1>12, WorkKeeps

\* The branches of a scrape leave rows and batch as they are.
LEMMA BranchKeeps ==
    ASSUME NEW r \in Run, Inv, stage[r] \in {"kbo"} \cup SiteSet,
           NEW to \in {"finalize"} \cup SiteSet, stage' = [stage EXCEPT ![r] = to],
           pages' \in [Enterprise -> SUBSET Sources], okNumbers' \subseteq numbers,
           UNCHANGED <<params, blind, state, marker, files, numbers, batch, began, settled>>
    PROVE  Inv'
<1> USE DEF params
<1>0. Works(r) /\ to \in Working /\ stage[r] \notin {"ingest", "prepare", "extract", "parse"}
      /\ stage[r] \in Batched /\ stage[r] \in {"prepare", "kbo", "finalize"} \cup SiteSet
      /\ to \in Batched /\ to \notin {"ingest", "analytics", "mark", "prepare", "extract", "parse"}
      /\ to \in {"prepare", "kbo", "finalize"} \cup SiteSet
  BY SiteNames DEF Works, Working, Batched
<1>1. /\ stage' \in [Run -> {"gate", "ready"} \cup Working \cup Over] /\ stage'[r] = to
      /\ \A s \in Run \ {r} : stage'[s] = stage[s] /\ ~Works(s)'
  BY <1>0, StageType
<1>2. TypeOK'
  BY <1>0, <1>1 DEF Inv, TypeOK, MaxOf, Works
<1>3. BatchInv(r)'
  BY <1>0, <1>1 DEF BatchInv
<1>4. DoneInv(r)'
  <2>1. DoneInv(r)
    BY <1>0, WorkerFacts
  <2>2. In("ABSENT")' = In("ABSENT") /\ Suffices("QUEUED_SCRAPE")' = Suffices("QUEUED_SCRAPE")
        /\ Unlimited(r)' = Unlimited(r)
    BY DEF In, Suffices, Unlimited
  <2>3. QED
    BY <1>0, <1>1, <2>1, <2>2 DEF DoneInv
<1>5. SettledInv' /\ BeganInv' /\ LeftBehindOnlyByFailure' /\ FreshVolumeOnce'
  BY <1>0, RowsAlone
<1>6. QED
  BY <1>0, <1>2, <1>3, <1>4, <1>5, WorkKeeps

LEMMA ScrapeKboKeeps ==
    ASSUME NEW r \in Run, Inv, ScrapeKbo(r)
    PROVE  Inv'
<1>1. PICK found \in SUBSET numbers :
          /\ StorePages("kbo", found)
          /\ \E ok \in SUBSET found :
                /\ okNumbers' = ok
                /\ stage' = [stage EXCEPT ![r] = IF ok = {} THEN "finalize" ELSE Head(Sites)]
  BY DEF ScrapeKbo
<1>2. pages' \in [Enterprise -> SUBSET Sources]
  BY <1>1 DEF StorePages, Inv, TypeOK, Sources
<1>3. PICK to \in {"finalize"} \cup SiteSet : stage' = [stage EXCEPT ![r] = to]
  BY <1>1, SiteNames
<1>4. okNumbers' \subseteq numbers
  BY <1>1
<1>5. QED
  BY <1>2, <1>3, <1>4, BranchKeeps DEF ScrapeKbo

LEMMA ScrapeSiteKeeps ==
    ASSUME NEW r \in Run, Inv, ScrapeSite(r)
    PROVE  Inv'
<1>1. PICK i \in DOMAIN Sites :
          /\ stage[r] = Sites[i]
          /\ stage' = [stage EXCEPT ![r] = IF i = Len(Sites) THEN "finalize" ELSE Sites[i + 1]]
  BY DEF ScrapeSite
<1>2. PICK found \in SUBSET okNumbers : StorePages(stage[r], found)
  BY DEF ScrapeSite
<1>3. stage[r] \in SiteSet
      /\ (IF i = Len(Sites) THEN "finalize" ELSE Sites[i + 1]) \in {"finalize"} \cup SiteSet
  BY <1>1, SiteNames
<1>4. pages' \in [Enterprise -> SUBSET Sources]
  BY <1>2, <1>3 DEF StorePages, Inv, TypeOK, Sources
<1>5. QED
  BY <1>1, <1>3, <1>4, BranchKeeps DEF ScrapeSite, program, Inv, TypeOK

LEMMA FinalizeKeeps ==
    ASSUME NEW r \in Run, Inv, Finalize(r)
    PROVE  Inv'
<1> USE DEF Finalize, Finalizes, params
<1>0. Works(r)
  BY DEF Works, Working
<1>1. /\ BatchInv(r) /\ DoneInv(r) /\ MaxOf(r) \in Nat \ {0} /\ batch \in Nat
      /\ batch <= MaxOf(r)
  BY <1>0, WorkerFacts DEF Inv, TypeOK, Works
<1> DEFINE to == IF More(r) THEN "prepare" ELSE "extract"
<1>2. to \in Working /\ to \notin SiteSet /\ stage' = [stage EXCEPT ![r] = to]
  BY SiteNames DEF Working
<1>3. /\ \A n \in Enterprise :
             state'[n] = IF n \notin numbers THEN state[n]
                         ELSE IF pages[n] = Sources THEN "QUEUED_PARSE" ELSE "FAILED_SCRAPE"
      /\ state' \in [Enterprise -> State]
      /\ numbers \subseteq Enterprise
  BY DEF Inv, TypeOK, State
<1>4. /\ stage' \in [Run -> {"gate", "ready"} \cup Working \cup Over] /\ stage'[r] = to
      /\ \A s \in Run \ {r} : stage'[s] = stage[s] /\ ~Works(s)'
      /\ \A s \in Run : stage[s] = "failed" => stage'[s] = "failed"
  BY <1>0, <1>2, StageType
<1>5. TypeOK'
  <2>1. batch' \in Nat /\ batch' <= MaxOf(r)
    BY <1>1
  <2>2. QED
    BY <1>3, <1>4, <2>1, FS_EmptySet DEF Inv, TypeOK, MaxOf, Works
<1>6. BatchInv(r)'
  BY <1>1, <1>4 DEF BatchInv, More, MaxOf
<1>7. SettledInv' /\ BeganInv'
  BY <1>3 DEF Inv, SettledInv, BeganInv
<1>8. DoneInv(r)'
  <2>1. In("ABSENT")' \subseteq In("ABSENT") /\ In("QUEUED_SCRAPE")' \subseteq In("QUEUED_SCRAPE")
    BY <1>3 DEF In
  <2>2. In("ABSENT") \cap Csv = {} /\ (~force[r] /\ r \notin blind => began \subseteq {r})
    BY <1>1 DEF DoneInv
  <2>3. ASSUME Unlimited(r), More(r) PROVE Suffices("QUEUED_SCRAPE")'
    BY <1>1, <2>1, <2>3, ShrinkingSuffices DEF DoneInv
  <2>4. ASSUME Unlimited(r), ~More(r) PROVE Decided' /\ Suffices("QUEUED_PARSE")'
    <3>1. In("QUEUED_SCRAPE") = {}
      BY <1>0, <1>1, <2>4, UsedUpIsEmpty DEF DoneInv, More, Inv
    <3>2. ASSUME NEW n \in Csv PROVE n \in settled' \/ n \in In("SCRAPING")'
      <4>1. n \in Enterprise /\ n \notin In("ABSENT")' /\ n \notin In("QUEUED_SCRAPE")'
        BY <2>1, <2>2, <3>1 DEF Csv
      <4>2. QED
        BY <1>7, <4>1 DEF SettledInv, In
    <3>3. batch' = 0
      BY <2>4
    <3>4. QED
      BY <3>2, <3>3, FirstBatch DEF Decided
  <2>5. QED
    BY <1>2, <1>4, <2>1, <2>2, <2>3, <2>4 DEF DoneInv, Unlimited
<1>9. LeftBehindOnlyByFailure'
  BY <1>3, <1>4 DEF Inv, LeftBehindOnlyByFailure, In
<1>10. FreshVolumeOnce'
  BY DEF Inv, FreshVolumeOnce
<1>11. QED
  BY <1>0, <1>2, <1>5, <1>6, <1>7, <1>8, <1>9, <1>10, WorkKeeps

LEMMA ClaimForParseKeeps ==
    ASSUME NEW r \in Run, Inv, ClaimForParse(r)
    PROVE  Inv'
<1> USE DEF ClaimForParse, params
<1>0. Works(r)
  BY DEF Works, Working
<1>1. PICK s \in Batches(In("QUEUED_PARSE")) :
          /\ numbers' = s
          /\ state' = [n \in Enterprise |-> IF n \in s THEN "PARSING" ELSE state[n]]
          /\ stage' = [stage EXCEPT ![r] = IF s = {} THEN "analytics" ELSE "parse"]
          /\ batch' = IF s = {} THEN 0 ELSE batch + 1
  OBVIOUS
<1>2. /\ BatchInv(r) /\ DoneInv(r) /\ MaxOf(r) \in Nat \ {0} /\ batch \in Nat
      /\ numbers = {} /\ batch < MaxOf(r)
  BY <1>0, WorkerFacts, SiteNames DEF BatchInv, Batched
<1> DEFINE to == IF s = {} THEN "analytics" ELSE "parse"
<1>3. to \in Working /\ to \notin SiteSet
  BY SiteNames DEF Working
<1>4. /\ s \subseteq In("QUEUED_PARSE") /\ s \subseteq Enterprise
      /\ IsFiniteSet(s) /\ Cardinality(s) <= Limit
      /\ s = {} => In("QUEUED_PARSE") = {}
  <2>1. In("QUEUED_PARSE") \in SUBSET Enterprise
    BY DEF In
  <2>2. /\ s \subseteq In("QUEUED_PARSE")
        /\ IsFiniteSet(s) /\ Cardinality(s) <= Limit
        /\ s = {} => In("QUEUED_PARSE") = {}
    BY ONLY <2>1, BatchFacts, s \in Batches(In("QUEUED_PARSE"))
  <2>3. QED
    BY <2>1, <2>2
<1>5. /\ \A n \in Enterprise : state'[n] = IF n \in s THEN "PARSING" ELSE state[n]
      /\ state' \in [Enterprise -> State]
  BY <1>1 DEF Inv, TypeOK, State
<1>6. /\ stage' \in [Run -> {"gate", "ready"} \cup Working \cup Over] /\ stage'[r] = to
      /\ \A q \in Run \ {r} : stage'[q] = stage[q] /\ ~Works(q)'
      /\ \A q \in Run : stage[q] = "failed" => stage'[q] = "failed"
  BY <1>0, <1>1, <1>3, StageType
<1>7. s \subseteq settled /\ In("SCRAPING")' = In("SCRAPING") /\ In("ABSENT")' = In("ABSENT")
      /\ In("QUEUED_PARSE")' = In("QUEUED_PARSE") \ s
  BY <1>4, <1>5 DEF Inv, SettledInv, In
<1>8. TypeOK'
  <2>1. batch' \in Nat /\ batch' <= MaxOf(r)
    BY <1>1, <1>2
  <2>2. okNumbers = {}
    BY <1>2 DEF Inv, TypeOK
  <2>3. QED
    BY <1>1, <1>4, <1>5, <1>6, <2>1, <2>2 DEF Inv, TypeOK, MaxOf, Works
<1>9. BatchInv(r)'
  BY <1>1, <1>2, <1>6, <1>7 DEF BatchInv, MaxOf, Batched, Inv, TypeOK
<1>10. DoneInv(r)'
  <2>1. /\ In("ABSENT") \cap Csv = {}
        /\ ~force[r] /\ r \notin blind => began \subseteq {r}
        /\ Unlimited(r) => Decided /\ Suffices("QUEUED_PARSE")
    BY <1>2 DEF DoneInv
  <2>2. Decided' = Decided
    BY <1>7 DEF Decided
  <2>3. ASSUME Unlimited(r), s # {} PROVE Suffices("QUEUED_PARSE")'
    BY <1>1, <1>2, <1>7, <2>1, <2>3, TakingSuffices
  <2>4. ASSUME s = {} PROVE In("QUEUED_PARSE")' = {}
    BY <1>4, <1>7, <2>4
  <2>5. QED
    BY <1>3, <1>6, <1>7, <2>1, <2>2, <2>3, <2>4 DEF DoneInv, Unlimited
<1>11. SettledInv' /\ BeganInv'
  BY <1>5, <1>7 DEF Inv, SettledInv, BeganInv
<1>12. LeftBehindOnlyByFailure'
  BY <1>2, <1>6, <1>7 DEF Inv, LeftBehindOnlyByFailure
<1>13. FreshVolumeOnce'
  BY DEF Inv, FreshVolumeOnce
<1>14. QED
  BY <1>0, <1>1, <1>3, <1>8, <1>9, <1>10, <1>11, <1>12, <1>13, WorkKeeps

LEMMA ParseOneKeeps ==
    ASSUME NEW r \in Run, Inv, ParseOne(r)
    PROVE  Inv'
<1> USE DEF ParseOne, params
<1>0. Works(r)
  BY DEF Works, Working
<1>1. PICK n \in numbers, end \in {"STRUCTURED", "FAILED_PARSE", "PARSING"},
           links \in SUBSET Enterprise :
          state' = Parsed(n, end, links) /\ numbers' = numbers \ {n}
  OBVIOUS
<1>2. /\ BatchInv(r) /\ DoneInv(r) /\ MaxOf(r) \in Nat \ {0} /\ batch \in Nat
      /\ batch <= MaxOf(r) /\ numbers \subseteq settled
  BY <1>0, WorkerFacts DEF BatchInv, Inv, TypeOK, Works
<1> DEFINE to == IF numbers' # {} THEN "parse"
                 ELSE IF batch < MaxOf(r) THEN "extract" ELSE "analytics"
<1>3. to \in Working /\ to \notin SiteSet
  BY SiteNames DEF Working
<1>4. stage' = [stage EXCEPT ![r] = to]
  BY DEF Inv, TypeOK
<1>5. /\ \A m \in Enterprise :
             state'[m] = IF m = n THEN end
                         ELSE IF end = "STRUCTURED" /\ m \in links
                                 /\ state[m] \in {"ABSENT", "FAILED_SCRAPE", "FAILED_PARSE"}
                         THEN "QUEUED_SCRAPE" ELSE state[m]
      /\ state' \in [Enterprise -> State]
      /\ n \in Enterprise /\ n \in settled
  BY <1>1, <1>2 DEF Parsed, Inv, TypeOK, State
<1>6. /\ stage' \in [Run -> {"gate", "ready"} \cup Working \cup Over] /\ stage'[r] = to
      /\ \A q \in Run \ {r} : stage'[q] = stage[q] /\ ~Works(q)'
      /\ \A q \in Run : stage[q] = "failed" => stage'[q] = "failed"
  BY <1>0, <1>3, <1>4, StageType
<1>7. /\ In("SCRAPING") \subseteq In("SCRAPING")' \cup {n}
      /\ In("SCRAPING")' \subseteq In("SCRAPING") \ {n}
      /\ In("ABSENT")' \subseteq In("ABSENT")
      /\ In("QUEUED_PARSE")' \subseteq In("QUEUED_PARSE")
  BY <1>5 DEF In
<1>8. TypeOK'
  <2>1. IsFiniteSet(numbers) /\ numbers' \subseteq numbers
    BY <1>1, FS_Subset DEF Inv, TypeOK
  <2>2. Cardinality(numbers') <= Cardinality(numbers) /\ Cardinality(numbers) \in Nat
        /\ Cardinality(numbers') \in Nat
    BY <2>1, FS_Subset, FS_CardinalityType
  <2>3. Cardinality(numbers') <= Limit
    BY <2>2 DEF Inv, TypeOK
  <2>4. okNumbers = {}
    BY <1>2 DEF BatchInv
  <2>5. batch' \in Nat /\ batch' <= MaxOf(r)
    BY <1>2
  <2>6. QED
    BY <1>1, <1>5, <1>6, <2>1, <2>3, <2>4, <2>5 DEF Inv, TypeOK, MaxOf, Works
<1>9. BatchInv(r)'
  BY <1>1, <1>2, <1>6 DEF BatchInv, MaxOf, Batched
<1>10. SettledInv' /\ BeganInv'
  BY <1>5 DEF Inv, SettledInv, BeganInv
<1>11. DoneInv(r)'
  <2>1. /\ In("ABSENT") \cap Csv = {}
        /\ ~force[r] /\ r \notin blind => began \subseteq {r}
        /\ Unlimited(r) => Decided /\ Suffices("QUEUED_PARSE")
    BY <1>2 DEF DoneInv
  <2>2. Decided => Decided'
    BY <1>5, <1>7 DEF Decided
  <2>3. ASSUME Unlimited(r), to # "analytics" PROVE Suffices("QUEUED_PARSE")'
    <3>1. UNCHANGED batch
      BY <2>3
    <3>2. QED
      BY <1>2, <1>7, <2>1, <2>3, <3>1, ShrinkingSuffices
  <2>4. ASSUME Unlimited(r), to = "analytics" PROVE In("QUEUED_PARSE")' = {}
    <3>1. In("QUEUED_PARSE") = {}
      BY <1>0, <2>1, <2>4, UsedUpIsEmpty DEF Inv
    <3>2. QED
      BY <1>7, <3>1
  <2>5. QED
    BY <1>3, <1>6, <1>7, <2>1, <2>2, <2>3, <2>4 DEF DoneInv, Unlimited
<1>12. LeftBehindOnlyByFailure'
  BY <1>1, <1>6, <1>7 DEF Inv, LeftBehindOnlyByFailure
<1>13. FreshVolumeOnce'
  BY DEF Inv, FreshVolumeOnce
<1>14. QED
  BY <1>0, <1>3, <1>4, <1>8, <1>9, <1>10, <1>11, <1>12, <1>13, WorkKeeps

LEMMA EndKeeps ==
    ASSUME NEW r \in Run, Inv, RefreshAnalytics(r) \/ Mark(r)
    PROVE  Inv'
<1> USE DEF RefreshAnalytics, Mark, params, program
<1>0. Works(r) /\ stage[r] \in {"analytics", "mark"} /\ stage[r] \notin Batched
      /\ batch = 0 /\ numbers = {} /\ DoneInv(r)
  BY WorkerFacts, SiteNames DEF Works, Working, BatchInv, Batched
<1>1. PICK to \in {"mark", "success"} : stage' = [stage EXCEPT ![r] = to]
  OBVIOUS
<1>2. to \in Working \cup {"success", "failed"} /\ to \notin SiteSet
      /\ (to \in Working => to = "mark")
  BY SiteNames DEF Working
<1>3. /\ stage' \in [Run -> {"gate", "ready"} \cup Working \cup Over] /\ stage'[r] = to
      /\ \A s \in Run \ {r} : stage'[s] = stage[s] /\ ~Works(s)'
  BY <1>0, <1>1, <1>2, StageType
<1>4. TypeOK'
  BY <1>0, <1>3, ZenonT(40) DEF Inv, TypeOK, MaxOf, Works
<1>5. ASSUME to = "mark" PROVE BatchInv(r)' /\ DoneInv(r)'
  <2>1. In("ABSENT")' = In("ABSENT") /\ In("QUEUED_PARSE")' = In("QUEUED_PARSE")
        /\ Decided' = Decided /\ Unlimited(r)' = Unlimited(r)
    BY DEF In, Decided, Unlimited
  <2>2. BatchInv(r)'
    BY <1>0, <1>2, <1>3, <1>5 DEF BatchInv, Batched
  <2>3. QED
    BY <1>0, <1>2, <1>3, <1>5, <2>1, <2>2, SiteNames DEF DoneInv
<1>6. SettledInv' /\ BeganInv' /\ LeftBehindOnlyByFailure' /\ FreshVolumeOnce'
  BY <1>0, <1>1, RowsAlone
<1>7. QED
  BY <1>0, <1>1, <1>2, <1>4, <1>5, <1>6, WorkKeeps

LEMMA FailKeeps ==
    ASSUME NEW r \in Run, Inv, Fail(r)
    PROVE  Inv'
<1> USE DEF Fail, params
<1>0. Works(r)
  BY DEF PartlyDone, Works, Working
<1>1. /\ stage' \in [Run -> {"gate", "ready"} \cup Working \cup Over] /\ stage'[r] = "failed"
      /\ \A s \in Run \ {r} : stage'[s] = stage[s] /\ ~Works(s)'
  BY <1>0, StageType
<1>2. "failed" \notin Working
  BY SiteNames DEF Working
<1>3. \/ state' = state /\ began' = began
      \/ \E some \in SUBSET Enterprise :
            /\ state' = Ingested(some)
            /\ began' = IF some = {} THEN began ELSE began \cup {r}
  <2>1. \A f \in files : f \subseteq Enterprise
    BY DEF Inv, TypeOK
  <2>2. QED
    BY <2>1 DEF PartlyDone
<1>4. /\ state' \in [Enterprise -> State]
      /\ \A n \in Enterprise :
             \/ state'[n] = state[n]
             \/ state[n] = "ABSENT" /\ state'[n] = "QUEUED_SCRAPE"
      /\ began' = began \/ (began' = began \cup {r} /\ \E n \in Enterprise : state'[n] # "ABSENT")
  <2>1. CASE state' = state /\ began' = began
    BY <2>1 DEF Inv, TypeOK
  <2>2. ASSUME NEW some \in SUBSET Enterprise, state' = Ingested(some),
               began' = IF some = {} THEN began ELSE began \cup {r}
        PROVE  <1>4
    BY <2>2 DEF Ingested, Inv, TypeOK, State
  <2>3. QED
    BY <1>3, <2>1, <2>2
<1>5. pages' \in [Enterprise -> SUBSET Sources]
  BY DEF PartlyDone, StorePages, Sources, Inv, TypeOK
<1>6. TypeOK'
  BY <1>1, <1>2, <1>4, <1>5, FS_EmptySet DEF Inv, TypeOK, MarkerAfterFailure, Works
<1>7. SettledInv' /\ BeganInv'
  BY <1>4 DEF Inv, SettledInv, BeganInv
<1>8. LeftBehindOnlyByFailure'
  BY <1>1 DEF LeftBehindOnlyByFailure
<1>9. FreshVolumeOnce'
  BY <1>0, <1>4, WorkerFacts DEF DoneInv, Inv, FreshVolumeOnce
<1>10. QED
  BY <1>0, <1>2, <1>6, <1>7, <1>8, <1>9, WorkKeeps

LEMMA NextPreserves == Inv /\ [Next]_vars => Inv'
<1> SUFFICES ASSUME Inv, [Next]_vars PROVE Inv'
  OBVIOUS
<1>1. ASSUME NEW r \in Run, Gate(r) \/ Start(r) PROVE Inv'
  BY <1>1, GateKeeps, StartKeeps
<1>2. ASSUME NEW r \in Run,
             IngestFile(r) \/ Prepare(r) \/ ScrapeKbo(r) \/ ScrapeSite(r) \/ Finalize(r)
      PROVE  Inv'
  BY <1>2, IngestKeeps, PrepareKeeps, ScrapeKboKeeps, ScrapeSiteKeeps, FinalizeKeeps
<1>3. ASSUME NEW r \in Run,
             ClaimForParse(r) \/ ParseOne(r) \/ RefreshAnalytics(r) \/ Mark(r) \/ Fail(r)
      PROVE  Inv'
  BY <1>3, ClaimForParseKeeps, ParseOneKeeps, EndKeeps, FailKeeps
<1>4. CASE UNCHANGED vars
  <2> USE <1>4 DEF vars, params, program, Inv
  <2>1. TypeOK' /\ OneWorks' /\ Rest'
    BY DEF TypeOK, MaxOf, Works, OneWorks, Rest, SlotFree
  <2>2. \A q : In(q)' = In(q) /\ Suffices(q)' = Suffices(q)
    BY DEF In, Suffices
  <2>3. ASSUME NEW r \in Run, Works(r)' PROVE BatchInv(r)' /\ DoneInv(r)'
    BY <2>2, <2>3 DEF Works, BatchInv, DoneInv, MaxOf, Unlimited, Decided
  <2>4. SettledInv' /\ BeganInv' /\ LeftBehindOnlyByFailure' /\ FreshVolumeOnce'
    BY <2>2 DEF SettledInv, BeganInv, LeftBehindOnlyByFailure, FreshVolumeOnce
  <2>5. QED
    BY <2>1, <2>3, <2>4
<1>5. QED
  BY <1>1, <1>2, <1>3, <1>4 DEF Next

------------------------------------------------------------------------------
\* The facts about runs, queues and batches that hold in every reachable state.
THEOREM Invariant == Spec => []Inv
BY InitEstablishes, NextPreserves, PTL DEF Spec

\* Every variable keeps its type: no batch is larger than Limit, no run does more of
\* them than it may.
THEOREM TypeCorrect == Spec => []TypeOK
<1>1. Inv => TypeOK
  BY DEF Inv
<1>2. QED
  BY <1>1, Invariant, PTL

\* Without a failed run nothing stays in SCRAPING outside the batch in hand.
THEOREM OnlyFailuresLeaveClaims == Spec => []LeftBehindOnlyByFailure
<1>1. Inv => LeftBehindOnlyByFailure
  BY DEF Inv
<1>2. QED
  BY <1>1, Invariant, PTL

\* Runs that check the volume and are answered fill it once.
THEOREM VolumeIsFilledOnce == Spec => []FreshVolumeOnce
<1>1. Inv => FreshVolumeOnce
  BY DEF Inv
<1>2. QED
  BY <1>1, Invariant, PTL

\* The marker comes after every file and, without a limit, after every enterprise.
THEOREM MarkerComesLast == Spec => MarkerMeansDone
<1> DEFINE Done(r) ==
        /\ In("ABSENT") \cap Csv = {}
        /\ Unlimited(r) => /\ Csv \subseteq settled \cup In("SCRAPING")
                           /\ In("QUEUED_PARSE") = {}
<1>1. ASSUME Inv, [Next]_vars, NEW q \in marker' \ marker PROVE Done(q)
  <2>1. ASSUME NEW r \in Run, stage[r] = "mark" PROVE Done(r)
    <3>1. DoneInv(r)
      BY <1>1, <2>1, WorkerFacts DEF Works, Working
    <3>2. QED
      BY <2>1, <3>1 DEF DoneInv, Decided
  <2>2. PICK r \in Run : Mark(r) \/ Fail(r)
    BY <1>1 DEF Next, Gate, Start, IngestFile, Prepare, ScrapeKbo, ScrapeSite, Finalize,
       ClaimForParse, ParseOne, RefreshAnalytics, vars
  <2>3. stage[r] = "mark" /\ q = r
    BY <1>1, <2>2 DEF Mark, Fail, MarkerAfterFailure
  <2>4. QED
    BY <2>1, <2>3
<1>2. ASSUME Inv, [Next]_vars PROVE \A r \in marker' \ marker : Done(r)
  BY <1>1, <1>2
<1>3. QED
  BY <1>2, Invariant, PTL DEF Spec, MarkerMeansDone

------------------------------------------------------------------------------
(* Bootstrap implements EnterpriseLifecycle.                               *)

\* The batch in hand is in the state its run has claimed it with.
BusyInv ==
    \A r \in Run :
        /\ stage[r] \in {"kbo", "finalize"} \cup SiteSet => numbers \subseteq In("SCRAPING")
        /\ stage[r] = "parse" => numbers \subseteq In("PARSING")

\* A stage without a batch needs no claim.
NoBatch == numbers = {}

LEMMA BusyWithoutBatch == NoBatch => BusyInv
BY DEF NoBatch, BusyInv

LEMMA EmptyBatchAfter == numbers' = {} => BusyInv'
<1>1. NoBatch' => BusyInv'
  BY BusyWithoutBatch, PTL
<1>2. QED
  BY <1>1 DEF NoBatch

\* A step of r to the stage `to` that leaves its batch in the state `busy`.
LEMMA ClaimStays ==
    ASSUME NEW r \in Run, Inv', NEW to, stage'[r] = to, Works(r)',
           NEW busy, numbers' \subseteq In(busy)',
           \/ to \in {"kbo", "finalize"} \cup SiteSet /\ busy = "SCRAPING"
           \/ to = "parse" /\ busy = "PARSING"
    PROVE  BusyInv'
<1>1. \A q \in Run : Works(q)' => q = r
  BY DEF Inv, OneWorks
<1>2. \A q \in Run : stage'[q] \in {"kbo", "finalize", "parse"} \cup SiteSet => Works(q)'
  BY DEF Works, Working
<1>3. QED
  BY <1>1, <1>2, SiteNames DEF BusyInv

LEMMA NextKeepsBusy ==
    ASSUME Inv, Inv', BusyInv, [Next]_vars
    PROVE  BusyInv'
<1>1. ASSUME NEW r \in Run, Prepare(r) PROVE BusyInv'
  <2>1. PICK s \in Batches(In("QUEUED_SCRAPE")) :
            /\ numbers' = s
            /\ state' = [n \in Enterprise |-> IF n \in s THEN "SCRAPING" ELSE state[n]]
            /\ stage' = [stage EXCEPT ![r] = IF s = {} THEN "extract" ELSE "kbo"]
    BY <1>1 DEF Prepare
  <2>2. CASE s # {}
    <3>1. stage'[r] = "kbo" /\ Works(r)'
      BY <2>1, <2>2 DEF Inv, TypeOK, Works, Working
    <3>2. numbers' \subseteq In("SCRAPING")'
      BY <2>1 DEF In, Batches
    <3>3. QED
      BY <3>1, <3>2, ClaimStays
  <2>3. QED
    BY <2>1, <2>2, EmptyBatchAfter
<1>2. ASSUME NEW r \in Run, ClaimForParse(r) PROVE BusyInv'
  <2>1. PICK s \in Batches(In("QUEUED_PARSE")) :
            /\ numbers' = s
            /\ state' = [n \in Enterprise |-> IF n \in s THEN "PARSING" ELSE state[n]]
            /\ stage' = [stage EXCEPT ![r] = IF s = {} THEN "analytics" ELSE "parse"]
    BY <1>2 DEF ClaimForParse
  <2>2. CASE s # {}
    <3>1. stage'[r] = "parse" /\ Works(r)'
      BY <2>1, <2>2 DEF Inv, TypeOK, Works, Working
    <3>2. numbers' \subseteq In("PARSING")'
      BY <2>1 DEF In, Batches
    <3>3. QED
      BY <3>1, <3>2, ClaimStays
  <2>3. QED
    BY <2>1, <2>2, EmptyBatchAfter
<1>3. ASSUME NEW r \in Run, ScrapeKbo(r) \/ ScrapeSite(r) PROVE BusyInv'
  <2>1. stage[r] \in {"kbo"} \cup SiteSet /\ numbers \subseteq In("SCRAPING")
    BY <1>3, SiteNames DEF ScrapeKbo, ScrapeSite, BusyInv
  <2>2. PICK to \in {"finalize"} \cup SiteSet : stage' = [stage EXCEPT ![r] = to]
    BY <1>3, SiteNames DEF ScrapeKbo, ScrapeSite
  <2>3. stage'[r] = to /\ Works(r)'
    BY <2>2 DEF Inv, TypeOK, Works, Working
  <2>4. numbers' \subseteq In("SCRAPING")'
    BY <1>3, <2>1 DEF ScrapeKbo, ScrapeSite, program, In
  <2>5. QED
    BY <2>2, <2>3, <2>4, ClaimStays
<1>4. ASSUME NEW r \in Run, ParseOne(r) PROVE BusyInv'
  <2>1. PICK n \in numbers, end \in {"STRUCTURED", "FAILED_PARSE", "PARSING"},
             links \in SUBSET Enterprise :
            state' = Parsed(n, end, links) /\ numbers' = numbers \ {n}
    BY <1>4 DEF ParseOne
  <2>2. numbers \subseteq In("PARSING") /\ stage[r] = "parse" /\ stage[r] \in Working
    BY <1>4 DEF ParseOne, BusyInv, Working
  <2>3. numbers' \subseteq In("PARSING")'
    BY <2>1, <2>2 DEF Parsed, In
  <2>4. CASE numbers' # {}
    <3>1. stage' = stage
      BY <1>4, <2>4 DEF ParseOne
    <3>2. QED
      BY <2>2, <2>3, <3>1, ClaimStays DEF Works
  <2>5. QED
    BY <2>4, EmptyBatchAfter
<1>5. ASSUME NEW r \in Run, Finalize(r) \/ Fail(r) PROVE BusyInv'
  BY <1>5, EmptyBatchAfter DEF Finalize, Fail
<1>6. ASSUME NEW r \in Run,
             Gate(r) \/ Start(r) \/ IngestFile(r) \/ RefreshAnalytics(r) \/ Mark(r)
      PROVE  BusyInv'
  <2>1. Works(r) => BatchInv(r)
    BY WorkerFacts
  <2>2. numbers = {}
    BY <1>6, <2>1, SiteNames DEF Gate, Start, IngestFile, RefreshAnalytics, Mark, Inv, Rest,
       Works, Working, BatchInv, Batched
  <2>3. numbers' = numbers
    BY <1>6 DEF Gate, Start, IngestFile, RefreshAnalytics, Mark, program
  <2>4. QED
    BY <2>2, <2>3, EmptyBatchAfter
<1>7. CASE UNCHANGED vars
  BY <1>7 DEF vars, program, BusyInv, In
<1>8. QED
  BY <1>1, <1>2, <1>3, <1>4, <1>5, <1>6, <1>7 DEF Next

\* The batch in hand is in the state its run has claimed it with, whichever way the
\* runs take turns and fail.
THEOREM BatchIsBusy == Spec => [](Inv /\ BusyInv)
<1>1. Init => BusyInv
  BY BusyWithoutBatch DEF Init, NoBatch
<1>2. Inv /\ Inv' /\ BusyInv /\ [Next]_vars => BusyInv'
  BY NextKeepsBusy
<1>3. QED
  BY <1>1, <1>2, Invariant, PTL DEF Spec

\* The holder of the batch is the run that works.
HolderIs ==
    \A r \in Run : Works(r) =>
        ClaimHolder = [n \in Enterprise |-> IF n \in numbers THEN r ELSE Nobody]

LEMMA WorkerHolds == Inv => HolderIs
<1> SUFFICES ASSUME Inv, NEW r \in Run, Works(r)
             PROVE  ClaimHolder = [n \in Enterprise |-> IF n \in numbers THEN r ELSE Nobody]
  BY DEF HolderIs
<1>1. \A q \in Run : stage[q] \in Working <=> q = r
  BY DEF Inv, OneWorks, Works
<1>2. WorkingRun = r
  BY <1>1 DEF WorkingRun
<1>3. QED
  BY <1>2 DEF ClaimHolder

LEMMA WorkerHoldsAfter == Inv' => HolderIs'
BY WorkerHolds, PTL

\* Without a batch there is no holder.
NobodyHolds == ClaimHolder = [n \in Enterprise |-> Nobody]

LEMMA NoBatchNoHolder == NoBatch => NobodyHolds
BY DEF NoBatch, NobodyHolds, ClaimHolder

LEMMA NoBatchNoHolderAfter == NoBatch' => NobodyHolds'
BY NoBatchNoHolder, PTL

\* A batch is taken out of a queue.
LEMMA TakingRefines ==
    ASSUME NEW r \in Run, Inv, Inv', Works(r), numbers = {}, NEW busy \in {"SCRAPING", "PARSING"},
           NEW S \in SUBSET In(IF busy = "SCRAPING" THEN "QUEUED_SCRAPE" ELSE "QUEUED_PARSE"),
           numbers' = S, S # {} => Works(r)',
           state' = [n \in Enterprise |-> IF n \in S THEN busy ELSE state[n]]
    PROVE  Lifecycle!Next
<1>1. \A n \in Enterprise : ClaimHolder[n] = Nobody
  BY NoBatchNoHolder DEF NoBatch, NobodyHolds
<1>2. S \in SUBSET Lifecycle!Claimable(busy)
  BY <1>1 DEF In, Lifecycle!Claimable, Lifecycle!ClaimableFor, Lifecycle!Queued
<1>3. ClaimHolder' = [n \in Enterprise |-> IF n \in S THEN r ELSE Nobody]
  <2>1. CASE S # {}
    BY <2>1, WorkerHoldsAfter DEF HolderIs
  <2>2. CASE S = {}
    BY <2>2, NoBatchNoHolderAfter DEF NoBatch, NobodyHolds
  <2>3. QED
    BY <2>1, <2>2
<1>4. Lifecycle!Claim(r, S, busy)
  BY <1>1, <1>3 DEF Lifecycle!Claim
<1>5. QED
  BY <1>2, <1>4 DEF Lifecycle!Next, Lifecycle!Busy

\* The run gives back S of its batch with results, and queues D.
LEMMA GivingBackRefines ==
    ASSUME NEW r \in Run, Inv, Inv', Works(r), NEW S \in SUBSET numbers,
           numbers' = numbers \ S, numbers' # {} => Works(r)',
           NEW D \in SUBSET (Enterprise \ numbers),
           \A n \in D : state[n] \in {"ABSENT", "FAILED_SCRAPE", "FAILED_PARSE"},
           \A n \in S : state'[n] \in Lifecycle!OutcomesOf(state[n]),
           state' = [n \in Enterprise |->
                        IF n \in S THEN state'[n]
                        ELSE IF n \in D THEN "QUEUED_SCRAPE" ELSE state[n]]
    PROVE  Lifecycle!Next
<1>0. S \subseteq Enterprise
  BY DEF Inv, TypeOK
<1>1. ClaimHolder = [n \in Enterprise |-> IF n \in numbers THEN r ELSE Nobody]
  BY WorkerHolds DEF HolderIs
<1>2. ClaimHolder' = [n \in Enterprise |-> IF n \in numbers' THEN r ELSE Nobody]
  <2>1. CASE numbers' # {}
    BY <2>1, WorkerHoldsAfter DEF HolderIs
  <2>2. CASE numbers' = {}
    BY <2>2, NoBatchNoHolderAfter DEF NoBatch, NobodyHolds
  <2>3. QED
    BY <2>1, <2>2
<1>3. ClaimHolder' = [n \in Enterprise |-> IF n \in S THEN Nobody ELSE ClaimHolder[n]]
  BY <1>1, <1>2
<1>4. S \in SUBSET Lifecycle!Held(r)
  BY <1>0, <1>1 DEF Lifecycle!Held
<1>5. D \in SUBSET Lifecycle!Enqueueable
  BY <1>1 DEF Lifecycle!Enqueueable, Lifecycle!Absent, Lifecycle!Resting
<1> DEFINE result == [n \in S |-> state'[n]]
<1>6. result \in [S -> Lifecycle!Queued \cup Lifecycle!Resting]
  BY DEF Lifecycle!OutcomesOf, Lifecycle!Queued, Lifecycle!Resting
<1>7. state' = [n \in Enterprise |->
                  IF n \in S THEN result[n]
                  ELSE IF n \in D THEN "QUEUED_SCRAPE" ELSE state[n]]
  OBVIOUS
<1>8. \A n \in S : result[n] \in Lifecycle!OutcomesOf(state[n])
  OBVIOUS
<1> HIDE DEF result
<1>9. Lifecycle!Release(r, S, D)
  BY <1>3, <1>6, <1>7, <1>8 DEF Lifecycle!Release
<1>10. QED
  BY <1>4, <1>5, <1>9 DEF Lifecycle!Next

\* The run lets go of S of its batch without a result.
LEMMA LettingGoRefines ==
    ASSUME NEW r \in Run, Inv, Inv', Works(r), NEW S \in SUBSET numbers,
           numbers' = numbers \ S, numbers' # {} => Works(r)', UNCHANGED state
    PROVE  Lifecycle!Next
<1>1. ClaimHolder = [n \in Enterprise |-> IF n \in numbers THEN r ELSE Nobody]
  BY WorkerHolds DEF HolderIs
<1>2. ClaimHolder' = [n \in Enterprise |-> IF n \in numbers' THEN r ELSE Nobody]
  <2>1. CASE numbers' # {}
    BY <2>1, WorkerHoldsAfter DEF HolderIs
  <2>2. CASE numbers' = {}
    BY <2>2, NoBatchNoHolderAfter DEF NoBatch, NobodyHolds
  <2>3. QED
    BY <2>1, <2>2
<1>3. ClaimHolder' = [n \in Enterprise |-> IF n \in S THEN Nobody ELSE ClaimHolder[n]]
  BY <1>1, <1>2
<1>4. S \in SUBSET Lifecycle!Held(r)
  BY <1>1 DEF Lifecycle!Held, Inv, TypeOK
<1>5. Lifecycle!Abandon(r, S)
  BY <1>3 DEF Lifecycle!Abandon
<1>6. QED
  BY <1>4, <1>5 DEF Lifecycle!Next

\* Rows of a file appear in the queue while no batch is in hand.
LEMMA IngestRefines ==
    ASSUME NEW found \in SUBSET Enterprise, numbers = {}, numbers' = {},
           state' = Ingested(found)
    PROVE  Lifecycle!Next
<1> DEFINE D == {n \in found : state[n] = "ABSENT"}
<1>1. NobodyHolds /\ NobodyHolds'
  BY NoBatchNoHolder, NoBatchNoHolderAfter DEF NoBatch
<1>2. D \in SUBSET Lifecycle!Enqueueable
  BY <1>1 DEF NobodyHolds, Lifecycle!Enqueueable, Lifecycle!Absent
<1>3. Lifecycle!Enqueue(D)
  BY <1>1 DEF NobodyHolds, Lifecycle!Enqueue, Ingested
<1> HIDE DEF D
<1>4. QED
  BY <1>2, <1>3 DEF Lifecycle!Next

LEMMA ParseRefines ==
    ASSUME NEW r \in Run, Inv, Inv', BusyInv, ParseOne(r)
    PROVE  Lifecycle!Next
<1>1. PICK n \in numbers, end \in {"STRUCTURED", "FAILED_PARSE", "PARSING"},
           links \in SUBSET Enterprise :
          state' = Parsed(n, end, links) /\ numbers' = numbers \ {n}
  BY DEF ParseOne
<1>2. /\ Works(r) /\ numbers \subseteq In("PARSING") /\ n \in Enterprise
      /\ numbers' # {} => Works(r)'
  BY DEF ParseOne, BusyInv, Works, Working, Inv, TypeOK
<1>3. CASE end = "PARSING"
  <2>1. state' = state
    BY <1>1, <1>2, <1>3 DEF Parsed, In, Inv, TypeOK
  <2>2. QED
    BY <1>1, <1>2, <2>1, LettingGoRefines
<1>4. CASE end # "PARSING"
  <2> DEFINE D == IF end = "STRUCTURED"
                  THEN {m \in links : state[m] \in {"ABSENT", "FAILED_SCRAPE", "FAILED_PARSE"}}
                  ELSE {}
  <2>1. D \in SUBSET (Enterprise \ numbers)
    BY <1>2 DEF In
  <2>2. state' = [m \in Enterprise |->
                    IF m \in {n} THEN state'[m]
                    ELSE IF m \in D THEN "QUEUED_SCRAPE" ELSE state[m]]
    BY <1>1 DEF Parsed
  <2>3. \A m \in {n} : state'[m] \in Lifecycle!OutcomesOf(state[m])
    BY <1>1, <1>2, <1>4 DEF Parsed, In, Lifecycle!OutcomesOf
  <2>4. \A m \in D : state[m] \in {"ABSENT", "FAILED_SCRAPE", "FAILED_PARSE"}
    OBVIOUS
  <2> HIDE DEF D
  <2>5. {n} \in SUBSET numbers /\ numbers' = numbers \ {n}
    BY <1>1
  <2>6. QED
    BY <1>2, <2>1, <2>2, <2>3, <2>4, <2>5, GivingBackRefines
<1>5. QED
  BY <1>3, <1>4

LEMMA FinalizeRefines ==
    ASSUME NEW r \in Run, Inv, Inv', BusyInv, Finalize(r)
    PROVE  Lifecycle!Next
<1> USE DEF Finalize, Finalizes
<1>1. Works(r) /\ numbers \subseteq In("SCRAPING") /\ numbers' = numbers \ numbers
  BY DEF BusyInv, Works, Working
<1>2. \A n \in numbers : state'[n] \in Lifecycle!OutcomesOf(state[n])
  BY <1>1 DEF In, Lifecycle!OutcomesOf
<1>3. state' = [n \in Enterprise |->
                  IF n \in numbers THEN state'[n]
                  ELSE IF n \in {} THEN "QUEUED_SCRAPE" ELSE state[n]]
  OBVIOUS
<1>4. QED
  BY <1>1, <1>2, <1>3, GivingBackRefines

LEMMA FailRefines ==
    ASSUME NEW r \in Run, Inv, Inv', Fail(r)
    PROVE  Lifecycle!Next
<1>1. Works(r)
  BY DEF Fail, PartlyDone, Works, Working
<1>2. CASE UNCHANGED state
  <2>1. numbers' = numbers \ numbers
    BY DEF Fail
  <2>2. QED
    BY <1>1, <1>2, <2>1, LettingGoRefines
<1>3. CASE ~UNCHANGED state
  <2>1. stage[r] = "ingest" /\ \E f \in files : \E some \in SUBSET f : state' = Ingested(some)
    BY <1>3 DEF Fail, PartlyDone
  <2>2. numbers = {} /\ numbers' = {}
    BY <1>1, <2>1, WorkerFacts, SiteNames DEF Fail, BatchInv, Batched
  <2>3. \A f \in files : f \subseteq Enterprise
    BY DEF Inv, TypeOK
  <2>4. QED
    BY <2>1, <2>2, <2>3, IngestRefines
<1>4. QED
  BY <1>2, <1>3

\* What changes neither rows nor claims is not seen.
LEMMA UnseenRefines ==
    ASSUME NEW r \in Run, Inv, Inv', UNCHANGED <<state, numbers>>,
           numbers = {} \/ (Works(r) /\ Works(r)')
    PROVE  UNCHANGED Lifecycle!vars
<1>1. CASE numbers = {}
  BY <1>1, NoBatchNoHolder, NoBatchNoHolderAfter DEF NoBatch, NobodyHolds, Lifecycle!vars
<1>2. CASE Works(r) /\ Works(r)'
  BY <1>2, WorkerHolds, WorkerHoldsAfter DEF HolderIs, Lifecycle!vars
<1>3. QED
  BY <1>1, <1>2

LEMMA StepRefines ==
    ASSUME Inv, Inv', BusyInv, [Next]_vars
    PROVE  [Lifecycle!Next]_(Lifecycle!vars)
<1>1. ASSUME NEW r \in Run, IngestFile(r) PROVE Lifecycle!Next
  <2>1. \E f \in files : f \subseteq Enterprise /\ state' = Ingested(f)
    BY <1>1 DEF IngestFile, Inv, TypeOK
  <2>2. numbers = {} /\ numbers' = {}
    BY <1>1, WorkerFacts, SiteNames DEF IngestFile, BatchInv, Batched, Works, Working
  <2>3. QED
    BY <2>1, <2>2, IngestRefines
<1>2. ASSUME NEW r \in Run, Prepare(r) PROVE Lifecycle!Next
  <2>1. PICK s \in Batches(In("QUEUED_SCRAPE")) :
            /\ numbers' = s
            /\ state' = [n \in Enterprise |-> IF n \in s THEN "SCRAPING" ELSE state[n]]
            /\ stage' = [stage EXCEPT ![r] = IF s = {} THEN "extract" ELSE "kbo"]
    BY <1>2 DEF Prepare
  <2>2. Works(r) /\ Works(r)' /\ numbers = {} /\ s \in SUBSET In("QUEUED_SCRAPE")
    BY <1>2, <2>1, WorkerFacts, SiteNames
       DEF Prepare, BatchInv, Batched, Works, Working, Batches, Inv, TypeOK
  <2>3. QED
    BY <2>1, <2>2, TakingRefines
<1>3. ASSUME NEW r \in Run, ClaimForParse(r) PROVE Lifecycle!Next
  <2>1. PICK s \in Batches(In("QUEUED_PARSE")) :
            /\ numbers' = s
            /\ state' = [n \in Enterprise |-> IF n \in s THEN "PARSING" ELSE state[n]]
            /\ stage' = [stage EXCEPT ![r] = IF s = {} THEN "analytics" ELSE "parse"]
    BY <1>3 DEF ClaimForParse
  <2>2. Works(r) /\ Works(r)' /\ numbers = {} /\ s \in SUBSET In("QUEUED_PARSE")
    BY <1>3, <2>1, WorkerFacts, SiteNames
       DEF ClaimForParse, BatchInv, Batched, Works, Working, Batches, Inv, TypeOK
  <2>3. QED
    BY <2>1, <2>2, TakingRefines
<1>4. ASSUME NEW r \in Run, ScrapeKbo(r) \/ ScrapeSite(r) PROVE UNCHANGED Lifecycle!vars
  <2>1. Works(r) /\ Works(r)' /\ UNCHANGED <<state, numbers>>
    BY <1>4, SiteNames DEF ScrapeKbo, ScrapeSite, program, Works, Working, Inv, TypeOK
  <2>2. QED
    BY <2>1, UnseenRefines
<1>5. ASSUME NEW r \in Run, Gate(r) \/ Start(r) \/ RefreshAnalytics(r) \/ Mark(r)
      PROVE  UNCHANGED Lifecycle!vars
  <2>1. Works(r) => BatchInv(r)
    BY WorkerFacts
  <2>2. numbers = {} /\ UNCHANGED <<state, numbers>>
    BY <1>5, <2>1, SiteNames DEF Gate, Start, RefreshAnalytics, Mark, program, Inv, Rest,
       Works, Working, BatchInv, Batched
  <2>3. QED
    BY <2>2, UnseenRefines
<1>6. CASE UNCHANGED vars
  <2>1. stage' = stage /\ numbers' = numbers /\ state' = state
    BY <1>6 DEF vars, program
  <2>2. WorkingRun' = WorkingRun
    BY <2>1, Zenon DEF WorkingRun
  <2>3. QED
    BY <2>1, <2>2 DEF ClaimHolder, Lifecycle!vars
<1>7. QED
  BY <1>1, <1>2, <1>3, <1>4, <1>5, <1>6, ParseRefines, FinalizeRefines, FailRefines DEF Next

\* The runs of the bootstrap, their batches, failures and deaths implement the register
\* in which an enterprise has one holder, only the holder decides it, and a claim that
\* is let go stays busy.
THEOREM Refinement == Spec => ImplementsLifecycle
<1>1. Init => Lifecycle!Init
  BY NoBatchNoHolder DEF NoBatch, Init, NobodyHolds, Lifecycle!Init, Lifecycle!Absent
<1>2. Inv /\ Inv' /\ BusyInv /\ [Next]_vars => [Lifecycle!Next]_(Lifecycle!vars)
  BY StepRefines
<1>3. QED
  BY <1>1, <1>2, BatchIsBusy, PTL DEF Spec, ImplementsLifecycle, Lifecycle!Spec

==============================================================================
