-------------------------- MODULE KboTorLanes_proofs -------------------------
(***************************************************************************)
(* Theorems about KboTorLanes, for any number of threads, numbers, lanes   *)
(* and cycles.                                                             *)
(***************************************************************************)
EXTENDS KboTorLanes, FiniteSetTheorems, TLAPS

USE ThreadAssumption, LanesAssumption, TorLoopAssumption, MaxCyclesAssumption,
    WithProfileAssumption
    DEF Here, Attempt, Before, NoCaptcha, Position, Last, coordinator, history

(***************************************************************************)
(* The inductive invariant.  The position of the run, its cycle and its    *)
(* lane, only moves forward, and a thread that was stopped never was ahead *)
(* of it: so the run has left the place of the captcha behind by the time  *)
(* the thread asks for a lane again.                                       *)
(***************************************************************************)
NotAfter(p, q) == ~Before(q, p)

LockInv ==
    /\ \A t \in Thread : pc[t] = "resting" <=> mutex = t
    /\ mutex # NoThread => TorLoop /\ cycles < MaxCycles

LaneInv(t) ==
    /\ pc[t] = "choosing" => Before(blockedAt[t], Here)
    /\ pc[t] = "fetching" => Before(blockedAt[t], Attempt(t)) /\ NotAfter(Attempt(t), Here)
    /\ pc[t] \in {"blocked", "exhausted", "resting"} => NotAfter(blockedAt[t], Here)

Inv == TypeOK /\ LockInv /\ \A t \in Thread : LaneInv(t)

------------------------------------------------------------------------------
\* What a step stores are pages of the number the thread works on.
LEMMA StepStores ==
    ASSUME NEW t \in Thread, Step(t)
    PROVE  \/ stored' = stored
           \/ \E P \in SUBSET Pages : stored' = stored \cup (task[t] \X P)
<1>1. ASSUME FetchBlocked(t) PROVE \E P \in SUBSET Pages : stored' = stored \cup (task[t] \X P)
  <2>1. PICK P \in SUBSET (Pages \ {"main"}) : Fetch(t, P)
    BY <1>1 DEF FetchBlocked
  <2>2. QED
    BY <2>1 DEF Fetch
<1>2. QED
  BY <1>1 DEF Step, Take, CurrentLane, FetchEnds, FetchRaises, Fetch,
              Escalate, BeginRest, EndRest, GiveUp

LEMMA PagesKept ==
    ASSUME NEW t \in Thread, TypeOK, Step(t)
    PROVE  stored' \subseteq Number \X Pages
<1>1. task[t] \subseteq Number /\ stored \subseteq Number \X Pages
  BY DEF TypeOK
<1>2. QED
  BY <1>1, StepStores

\* A thread answers for its number and leaves the coordinator alone.
LEMMA AnswerPreserves ==
    ASSUME NEW t \in Thread, NEW answer \in Answer, Inv,
           AnswerTask(t, answer), UNCHANGED <<coordinator, lane, history>>,
           mutex # t, stored' \subseteq Number \X Pages,
           result' \in {"running", "returned", "captcha_blocked", "raised"}
    PROVE  Inv'
<1> USE DEF AnswerTask, TypeOK, PC
<1>1. TypeOK'
  BY DEF Inv
<1>2. LockInv'
  BY DEF Inv, LockInv
<1>3. ASSUME NEW u \in Thread PROVE LaneInv(u)'
  BY DEF Inv, LaneInv, NotAfter
<1>4. QED
  BY <1>1, <1>2, <1>3 DEF Inv

\* A captcha that the run has not left behind is behind its next lane.
LEMMA NextLaneIsLater ==
    ASSUME NEW p \in Position, NEW c \in Nat, NEW l \in Nat, ~Before(<<c, l>>, p)
    PROVE  Before(p, <<c, l + 1>>)
OBVIOUS

LEMMA StepPreserves ==
    ASSUME NEW t \in Thread, Inv, Step(t)
    PROVE  Inv'
<1> USE DEF TypeOK, PC, Answer
<1>0. /\ TypeOK /\ LockInv /\ (\A u \in Thread : LaneInv(u))
      /\ stored' \subseteq Number \X Pages
  BY PagesKept DEF Inv
<1>1. ASSUME NEW n \in Number, Take(t, n) PROVE Inv'
  <2> USE <1>0, <1>1 DEF Take
  <2>1. TypeOK'
    OBVIOUS
  <2>2. LockInv'
    BY DEF LockInv
  <2>3. ASSUME NEW u \in Thread PROVE LaneInv(u)'
    BY DEF LaneInv, NotAfter
  <2>4. QED
    BY <2>1, <2>2, <2>3 DEF Inv
<1>2. CASE CurrentLane(t)
  <2> USE <1>0, <1>2 DEF CurrentLane
  <2>1. TypeOK'
    OBVIOUS
  <2>2. LockInv'
    BY DEF LockInv
  <2>3. ASSUME NEW u \in Thread PROVE LaneInv(u)'
    BY DEF LaneInv, NotAfter
  <2>4. QED
    BY <2>1, <2>2, <2>3 DEF Inv
<1>3. ASSUME NEW answer \in {"ok", "failed"}, FetchEnds(t, answer) PROVE Inv'
  <2>1. mutex # t
    BY <1>0, <1>3 DEF FetchEnds, Fetch, LockInv
  <2>2. QED
    BY <1>0, <1>3, <2>1, AnswerPreserves DEF FetchEnds, Inv
<1>4. CASE FetchRaises(t)
  <2>1. mutex # t
    BY <1>0, <1>4 DEF FetchRaises, Fetch, LockInv
  <2>2. QED
    BY <1>0, <1>4, <2>1, AnswerPreserves DEF FetchRaises, Inv
<1>5. CASE FetchBlocked(t)
  <2>0. /\ pc[t] = "fetching" /\ pc' = [pc EXCEPT ![t] = "blocked"]
        /\ blockedAt' = [blockedAt EXCEPT ![t] = Attempt(t)]
        /\ UNCHANGED <<coordinator, task, lane, cycle, outcome, result>>
    BY <1>5 DEF FetchBlocked, Fetch
  <2> USE <1>0, <2>0
  <2>1. TypeOK'
    OBVIOUS
  <2>2. LockInv'
    BY DEF LockInv
  <2>3. ASSUME NEW u \in Thread PROVE LaneInv(u)'
    BY DEF LaneInv, NotAfter
  <2>4. QED
    BY <2>1, <2>2, <2>3 DEF Inv
<1>6. CASE Escalate(t)
  <2> USE <1>0, <1>6 DEF Escalate, CanAdvance
  <2>1. TypeOK'
    OBVIOUS
  <2>2. LockInv'
    BY DEF LockInv
  <2>3. ASSUME NEW u \in Thread PROVE LaneInv(u)'
    <3>1. LaneInv(u) /\ LaneInv(t) /\ (u = t \/ pc'[u] = pc[u])
      OBVIOUS
    <3>2. CASE CanAdvance
      <4>1. laneIndex' = laneIndex + 1 /\ cycles' = cycles /\ pc'[t] = "choosing"
        BY <3>2
      <4>2. CASE u = t
        <5>1. ~Before(Here, blockedAt[t]) /\ blockedAt' = blockedAt
          BY <3>1 DEF LaneInv, NotAfter
        <5>2. blockedAt[t] \in Position /\ cycles \in Nat /\ laneIndex \in Nat
          OBVIOUS
        <5>3. Before(blockedAt[t], <<cycles, laneIndex + 1>>)
          BY <5>1, <5>2, NextLaneIsLater
        <5>4. QED
          BY <4>1, <4>2, <5>1, <5>3 DEF LaneInv
      <4>3. CASE u # t
        BY <3>1, <4>1, <4>3 DEF LaneInv, NotAfter
      <4>4. QED
        BY <4>2, <4>3
    <3>3. CASE ~CanAdvance
      <4>1. /\ laneIndex' = laneIndex /\ cycles' = cycles /\ pc'[t] = "exhausted"
            /\ laneIndex = Lanes - 1
        BY <3>3
      <4>2. QED
        BY <3>1, <4>1 DEF LaneInv, NotAfter
    <3>4. QED
      BY <3>2, <3>3
  <2>4. QED
    BY <2>1, <2>2, <2>3 DEF Inv
<1>7. CASE BeginRest(t)
  <2> USE <1>0, <1>7 DEF BeginRest, CanLoopAgain
  <2>1. TypeOK'
    OBVIOUS
  <2>2. LockInv'
    BY DEF LockInv
  <2>3. ASSUME NEW u \in Thread PROVE LaneInv(u)'
    BY DEF LaneInv, NotAfter
  <2>4. QED
    BY <2>1, <2>2, <2>3 DEF Inv
<1>8. CASE EndRest(t)
  <2> USE <1>0, <1>8 DEF EndRest
  <2>1. mutex = t /\ TorLoop /\ cycles < MaxCycles
    BY DEF LockInv
  <2>2. TypeOK'
    BY <2>1
  <2>3. LockInv'
    BY <2>1 DEF LockInv
  <2>4. ASSUME NEW u \in Thread PROVE LaneInv(u)'
    BY <2>1 DEF LaneInv, NotAfter
  <2>5. QED
    BY <2>2, <2>3, <2>4 DEF Inv
<1>9. CASE GiveUp(t)
  <2>1. mutex # t
    BY <1>0, <1>9 DEF GiveUp, LockInv
  <2>2. QED
    BY <1>0, <1>9, <2>1, AnswerPreserves DEF GiveUp, Inv
<1>10. QED
  BY <1>1, <1>2, <1>3, <1>4, <1>5, <1>6, <1>7, <1>8, <1>9 DEF Step

LEMMA InitEstablishes == Init => Inv
BY DEF Init, Inv, TypeOK, PC, LockInv, LaneInv

LEMMA NextPreserves == Inv /\ [Next]_vars => Inv'
<1> SUFFICES ASSUME Inv, [Next]_vars PROVE Inv'
  OBVIOUS
<1>1. CASE Return
  BY <1>1 DEF Return, Inv, TypeOK, PC, LockInv, LaneInv, NotAfter
<1>2. CASE UNCHANGED vars
  BY <1>2 DEF vars, Inv, TypeOK, PC, LockInv, LaneInv, NotAfter
<1>3. QED
  BY <1>1, <1>2, StepPreserves DEF Next, Finished

THEOREM Invariant == Spec => []Inv
BY InitEstablishes, NextPreserves, PTL DEF Spec

\* The lane index never leaves the list of lanes and the cycles never pass
\* MaxCycles, however the threads interleave at the coordinator.
THEOREM TypeCorrect == Spec => []TypeOK
<1>1. Inv => TypeOK
  BY DEF Inv
<1>2. QED
  BY <1>1, Invariant, PTL

\* No thread retries a number on a lane that stopped it, in the same cycle.
THEOREM GoesForward == Spec => []NeverBackToABlockedLane
<1>1. Inv => NeverBackToABlockedLane
  BY DEF Inv, LaneInv, NeverBackToABlockedLane
<1>2. QED
  BY <1>1, Invariant, PTL

------------------------------------------------------------------------------
(***************************************************************************)
(* What the cycles cost.  A thread that has run out of lanes may still     *)
(* begin a cycle; as long as the run is on its last lane, every thread     *)
(* may come to that.  The cycles begun and those owed in this way are at   *)
(* most one for each thread and each walk over the lanes.                  *)
(***************************************************************************)
Threads == Cardinality(Thread)
Out == {t \in Thread : pc[t] \in {"exhausted", "resting"}}
Owed == IF laneIndex = Lanes - 1 THEN Threads ELSE Cardinality(Out)

WalkInv == cycles + Owed <= Threads * walks + 1

LEMMA ThreadsCounted == Threads \in Nat /\ Threads >= 1
BY FS_CardinalityType, FS_EmptySet DEF Threads

LEMMA OutCounted ==
    /\ IsFiniteSet(Out) /\ Cardinality(Out) \in Nat /\ Cardinality(Out) <= Threads
    /\ \A t \in Out : Cardinality(Out) >= 1 /\ Cardinality(Out \ {t}) = Cardinality(Out) - 1
<1>1. Out \subseteq Thread
  BY DEF Out
<1>2. IsFiniteSet(Out) /\ Cardinality(Out) \in Nat /\ Cardinality(Out) <= Threads
  BY <1>1, FS_Subset, FS_CardinalityType DEF Threads
<1>3. ASSUME NEW t \in Out
      PROVE  Cardinality(Out) >= 1 /\ Cardinality(Out \ {t}) = Cardinality(Out) - 1
  <2>1. Cardinality(Out \ {t}) = Cardinality(Out) - 1
    BY <1>2, <1>3, FS_RemoveElement
  <2>2. Cardinality(Out) # 0
    BY <1>2, <1>3, FS_EmptySet
  <2>3. QED
    BY <1>2, <2>1, <2>2
<1>4. QED
  BY <1>2, <1>3

LEMMA OneWalkMore == ASSUME NEW a \in Nat, NEW b \in Nat PROVE a * (b + 1) = a * b + a
OBVIOUS

LEMMA StepCosts ==
    ASSUME NEW t \in Thread, Inv, WalkInv, Step(t)
    PROVE  WalkInv'
<1> DEFINE product == Threads * walks
<1>1. /\ TypeOK /\ LockInv /\ Threads' = Threads
      /\ cycles \in Nat /\ laneIndex \in Nat /\ walks \in Nat /\ laneIndex <= Lanes - 1
  BY DEF Inv, TypeOK, Threads
<1>2. product \in Int /\ Threads * (walks + 1) = product + Threads
  BY <1>1, ThreadsCounted, OneWalkMore
<1>3. cycles + Owed <= product + 1
  BY DEF WalkInv
<1>4. ASSUME UNCHANGED coordinator, Out' \subseteq Out PROVE WalkInv'
  <2>1. Cardinality(Out') \in Nat /\ Cardinality(Out') <= Cardinality(Out)
    BY <1>4, OutCounted, FS_Subset, FS_CardinalityType
  <2>2. UNCHANGED <<laneIndex, cycles, walks>>
    BY <1>4
  <2>3. CASE laneIndex = Lanes - 1
    BY <1>1, <1>3, <2>2, <2>3 DEF WalkInv, Owed
  <2>4. CASE laneIndex # Lanes - 1
    <3>1. cycles + Cardinality(Out) <= product + 1
      BY <1>3, <2>4 DEF Owed
    <3> HIDE DEF product
    <3>2. cycles + Cardinality(Out') <= product + 1
      BY <1>1, <1>2, <2>1, <3>1, OutCounted
    <3>3. QED
      BY <1>1, <2>2, <2>4, <3>2 DEF WalkInv, Owed, product
  <2>5. QED
    BY <2>3, <2>4
<1>5. CASE \/ \E n \in Number : Take(t, n)
           \/ CurrentLane(t)
           \/ \E answer \in {"ok", "failed"} : FetchEnds(t, answer)
           \/ FetchRaises(t) \/ FetchBlocked(t) \/ GiveUp(t)
  <2>1. UNCHANGED coordinator /\ Out' \subseteq Out
    BY <1>1, <1>5 DEF Take, CurrentLane, FetchEnds, FetchRaises, FetchBlocked, Fetch, GiveUp,
                      AnswerTask, Out, TypeOK
  <2>2. QED
    BY <1>4, <2>1
<1>6. CASE BeginRest(t)
  <2>1. Out' = Out /\ UNCHANGED <<laneIndex, cycles, walks>>
    BY <1>1, <1>6 DEF BeginRest, Out, TypeOK
  <2>2. QED
    BY <1>1, <2>1, <1>3 DEF WalkInv, Owed
<1>7. CASE Escalate(t) /\ CanAdvance
  <2>1. /\ Out' = Out /\ cycles' = cycles /\ laneIndex' = laneIndex + 1
        /\ walks' = IF laneIndex + 1 = Lanes - 1 THEN walks + 1 ELSE walks
    BY <1>1, <1>7 DEF Escalate, Out, TypeOK
  <2>2. cycles + Cardinality(Out) <= product + 1
    BY <1>1, <1>3, <1>7 DEF Owed, CanAdvance
  <2>3. CASE laneIndex + 1 = Lanes - 1
    <3>1. Owed' = Threads /\ product' = product + Threads
      BY <1>1, <1>2, <2>1, <2>3 DEF Owed
    <3> HIDE DEF product
    <3>2. cycles' + Owed' <= product' + 1
      BY <1>1, <1>2, <2>1, <2>2, <3>1, OutCounted, ThreadsCounted
    <3>3. QED
      BY <3>2 DEF WalkInv, product
  <2>4. CASE laneIndex + 1 # Lanes - 1
    <3>1. Owed' = Cardinality(Out) /\ product' = product
      BY <1>1, <2>1, <2>4 DEF Owed
    <3>2. QED
      BY <2>1, <2>2, <3>1 DEF WalkInv
  <2>5. QED
    BY <2>3, <2>4
<1>8. CASE Escalate(t) /\ ~CanAdvance
  <2>1. laneIndex = Lanes - 1 /\ UNCHANGED <<laneIndex, cycles, walks>>
    BY <1>1, <1>8 DEF Escalate, CanAdvance
  <2>2. QED
    BY <1>1, <1>3, <2>1 DEF WalkInv, Owed
<1>9. CASE EndRest(t)
  <2>1. /\ t \in Out /\ Out' = Out \ {t} /\ cycles' = cycles + 1 /\ laneIndex' = 0
        /\ walks' = IF Lanes = 1 THEN walks + 1 ELSE walks
    BY <1>1, <1>9 DEF EndRest, Out, TypeOK
  <2>2. Cardinality(Out') = Cardinality(Out) - 1 /\ Cardinality(Out) <= Owed
    BY <1>1, <2>1, OutCounted, ThreadsCounted DEF Owed
  <2>3. CASE Lanes = 1
    <3>1. Owed = Threads /\ Owed' = Threads /\ product' = product + Threads
      BY <1>1, <1>2, <2>1, <2>3 DEF Owed
    <3> HIDE DEF product
    <3>2. cycles' + Owed' <= product' + 1
      BY <1>1, <1>2, <1>3, <2>1, <3>1, ThreadsCounted
    <3>3. QED
      BY <3>2 DEF WalkInv, product
  <2>4. CASE Lanes # 1
    <3>1. Owed' = Cardinality(Out) - 1 /\ product' = product
      BY <1>1, <2>1, <2>2, <2>4 DEF Owed
    <3>2. Owed \in Nat
      BY OutCounted, ThreadsCounted DEF Owed
    <3> HIDE DEF product
    <3>3. cycles' + Owed' <= product' + 1
      BY <1>1, <1>2, <1>3, <2>1, <2>2, <3>1, <3>2, OutCounted
    <3>4. QED
      BY <3>3 DEF WalkInv, product
  <2>5. QED
    BY <2>3, <2>4
<1>10. QED
  BY <1>5, <1>6, <1>7, <1>8, <1>9 DEF Step

\* The count holds throughout.
THEOREM CyclesCounted == Spec => [](Inv /\ WalkInv)
<1>1. Init => WalkInv
  <2> SUFFICES ASSUME Init PROVE WalkInv
    OBVIOUS
  <2>1. Out = {} /\ Cardinality(Out) = 0
    BY FS_EmptySet DEF Init, Out
  <2>2. Threads * 1 = Threads /\ Threads * 0 = 0
    BY ThreadsCounted
  <2>3. QED
    BY <2>1, <2>2, ThreadsCounted DEF Init, WalkInv, Owed
<1>2. Inv /\ WalkInv /\ [Next]_vars => WalkInv'
  <2>1. ASSUME WalkInv, Return \/ UNCHANGED vars PROVE WalkInv'
    BY <2>1 DEF Return, vars, WalkInv, Owed, Out, Threads
  <2>2. QED
    BY <2>1, StepCosts DEF Next, Finished
<1>3. QED
  BY <1>1, <1>2, InitEstablishes, NextPreserves, PTL DEF Spec

\* However the threads restart the cycle behind each other's backs, a number is given up
\* only when one in as many cycles as there are threads was walked to its last lane.
THEOREM GivesUpAfterWalks == Spec => GiveUpAfterWalks
<1> DEFINE Walked ==
        \A n \in Number :
            outcome'[n] = "tor_lanes_exhausted" /\ outcome[n] # "tor_lanes_exhausted"
                => CyclesAllowed <= Cardinality(Thread) * walks
<1>1. ASSUME Inv, WalkInv, [Next]_vars PROVE Walked
  <2>1. ASSUME NEW t \in Thread, GiveUp(t) PROVE CyclesAllowed <= Threads * walks
    <3>1. /\ t \in Out /\ ~CanLoopAgain
          /\ cycles \in 1 .. MaxCycles /\ walks \in Nat
      BY <1>1, <2>1 DEF GiveUp, Out, Inv, TypeOK
    <3>2. Owed >= 1 /\ Owed \in Nat
      BY <3>1, OutCounted, ThreadsCounted DEF Owed
    <3>3. Threads * walks \in Int
      BY <3>1, ThreadsCounted
    <3>4. cycles <= Threads * walks
      BY <1>1, <3>1, <3>2, <3>3 DEF WalkInv
    <3>5. CyclesAllowed <= cycles
      BY <3>1 DEF CyclesAllowed, CanLoopAgain
    <3>6. CyclesAllowed \in Int
      BY DEF CyclesAllowed
    <3>7. QED
      BY <3>1, <3>3, <3>4, <3>5, <3>6
  <2>2. ASSUME NEW t \in Thread, Step(t), ~GiveUp(t) PROVE Walked
    <3>1. \/ \E answer \in {"ok", "failed", "worker_error"} : AnswerTask(t, answer)
          \/ \E n \in Number : outcome' = [outcome EXCEPT ![n] = "running"]
          \/ outcome' = outcome
      BY <2>2 DEF Step, Take, CurrentLane, FetchEnds, FetchRaises, FetchBlocked,
                  Escalate, BeginRest, EndRest
    <3>2. QED
      BY <1>1, <3>1 DEF AnswerTask, Inv, TypeOK
  <2>3. CASE Return \/ UNCHANGED vars
    BY <2>3 DEF Return, vars
  <2>4. QED
    BY <1>1, <2>1, <2>2, <2>3 DEF Next, Finished, Threads
<1>2. QED
  BY <1>1, CyclesCounted, PTL DEF Spec, GiveUpAfterWalks

(***************************************************************************)
(* LaneLeftOnlyAfterItsCaptcha fails as soon as two threads share the run  *)
(* (run lane_burned).  With one request at a time nobody moves the lane    *)
(* between a captcha and the escalation it causes.                         *)
(***************************************************************************)
AtItsCaptcha ==
    \A t \in Thread :
        /\ pc[t] = "fetching" => Attempt(t) = Here
        /\ pc[t] \in {"blocked", "exhausted", "resting"} => blockedAt[t] = Here

\* With one thread, parallel_requests_per_site = 1, the docstring of
\* KboTorLaneCoordinator is right: every lane that is left has just met a captcha.
THEOREM OneThreadLeavesNoLane ==
    ASSUME NEW one, Thread = {one}
    PROVE  Spec => LaneLeftOnlyAfterItsCaptcha
<1> DEFINE LeftAfterCaptcha == Here' # Here => \E t \in Thread : blockedAt[t] = Here
<1>1. Init => AtItsCaptcha
  BY DEF Init, AtItsCaptcha
<1>2. Inv /\ AtItsCaptcha /\ [Next]_vars => AtItsCaptcha'
  <2> SUFFICES ASSUME TypeOK, AtItsCaptcha, [Next]_vars PROVE AtItsCaptcha'
    BY DEF Inv
  <2> USE DEF AtItsCaptcha, TypeOK
  <2>1. ASSUME NEW t \in Thread, Step(t) PROVE AtItsCaptcha'
    <3>1. CASE \E n \in Number : Take(t, n)
      BY <3>1 DEF Take
    <3>2. CASE CurrentLane(t) \/ FetchBlocked(t)
      BY <3>2 DEF CurrentLane, FetchBlocked, Fetch
    <3>3. CASE \/ \E answer \in {"ok", "failed"} : FetchEnds(t, answer)
               \/ FetchRaises(t) \/ GiveUp(t)
      BY <3>3 DEF FetchEnds, FetchRaises, GiveUp, AnswerTask
    <3>4. CASE Escalate(t)
      BY <3>4 DEF Escalate, CanAdvance
    <3>5. CASE BeginRest(t) \/ EndRest(t)
      BY <3>5 DEF BeginRest, EndRest
    <3>6. QED
      BY <2>1, <3>1, <3>2, <3>3, <3>4, <3>5 DEF Step
  <2>2. CASE Return \/ UNCHANGED vars
    BY <2>2 DEF Return, vars
  <2>3. QED
    BY <2>1, <2>2 DEF Next, Finished
<1>3. ASSUME AtItsCaptcha, [Next]_vars PROVE LeftAfterCaptcha
  <2>1. ASSUME NEW t \in Thread, Step(t), ~Escalate(t), ~EndRest(t) PROVE Here' = Here
    BY <2>1 DEF Step, Take, CurrentLane, FetchEnds, FetchRaises, FetchBlocked, BeginRest, GiveUp
  <2>2. ASSUME NEW t \in Thread, Escalate(t) \/ EndRest(t) PROVE blockedAt[t] = Here
    BY <1>3, <2>2 DEF AtItsCaptcha, Escalate, EndRest
  <2>3. CASE Return \/ UNCHANGED vars
    BY <2>3 DEF Return, vars
  <2>4. QED
    BY <1>3, <2>1, <2>2, <2>3 DEF Next, Finished
<1>4. QED
  BY <1>1, <1>2, <1>3, Invariant, PTL DEF Spec, LaneLeftOnlyAfterItsCaptcha

------------------------------------------------------------------------------
(***************************************************************************)
(* The steps of scrape_kbo in ScrapeBySource.                              *)
(***************************************************************************)

\* A thread works on one number, which nobody else has, or on none; the main page of a
\* number is not stored before it is answered for.
NumbersInv ==
    /\ \A t \in Thread :
          IF pc[t] = "idle" THEN task[t] = {}
          ELSE /\ result = "running"
               /\ \E n \in Number : task[t] = {n} /\ outcome[n] = "running"
    /\ \A t, u \in Thread : t # u => task[t] \cap task[u] = {}
    /\ \A n \in Number : outcome[n] \notin Answer => <<n, "main">> \notin stored

\* How a step of a thread leaves its number: in its hands, or answered for.
Keeps(t) ==
    /\ pc[t] # "idle" /\ pc'[t] # "idle"
    /\ \A u \in Thread \ {t} : pc'[u] = pc[u]
    /\ UNCHANGED <<task, outcome, result>>
    /\ \E P \in SUBSET (Pages \ {"main"}) : stored' = stored \cup (task[t] \X P)

Answers(t, answer, P) ==
    /\ pc[t] # "idle"
    /\ AnswerTask(t, answer)
    /\ stored' = stored \cup (task[t] \X P)

Effect(t) ==
    \/ Keeps(t)
    \/ Answers(t, "ok", Pages) /\ UNCHANGED result
    \/ \E P \in SUBSET Pages : Answers(t, "failed", P) /\ UNCHANGED result
    \/ \E P \in SUBSET Pages : Answers(t, "worker_error", P) /\ UNCHANGED result
    \/ /\ Thread = {t} /\ result' = "raised"
       /\ \E P \in SUBSET Pages : Answers(t, "worker_error", P)
    \/ Answers(t, "tor_lanes_exhausted", {}) /\ UNCHANGED result

LEMMA OneThread ==
    ASSUME NEW t \in Thread, ~(Cardinality(Thread) > 1)
    PROVE  Thread = {t}
<1>1. Cardinality(Thread) \in Nat /\ Cardinality(Thread) # 0
  BY FS_CardinalityType, FS_EmptySet
<1>2. Cardinality(Thread) = 1
  BY <1>1
<1>3. QED
  BY <1>2, FS_Singleton

LEMMA StepEffect ==
    ASSUME NEW t \in Thread, TypeOK, Step(t)
    PROVE  Effect(t) \/ \E n \in Number : Take(t, n)
<1>1. ASSUME CurrentLane(t) \/ Escalate(t) \/ BeginRest(t) \/ EndRest(t) PROVE Keeps(t)
  <2>1. stored' = stored \cup (task[t] \X {})
    BY <1>1 DEF CurrentLane, Escalate, BeginRest, EndRest
  <2>2. UNCHANGED <<task, outcome, result>> /\ pc[t] # "idle"
    BY <1>1 DEF CurrentLane, Escalate, BeginRest, EndRest
  <2>3. \E at \in PC \ {"idle"} : pc' = [pc EXCEPT ![t] = at]
    BY <1>1 DEF CurrentLane, Escalate, BeginRest, EndRest, PC
  <2>4. pc'[t] # "idle" /\ \A u \in Thread \ {t} : pc'[u] = pc[u]
    BY <2>3 DEF TypeOK
  <2>5. QED
    BY <2>1, <2>2, <2>4 DEF Keeps
<1>2. ASSUME FetchBlocked(t) PROVE Keeps(t)
  BY <1>2 DEF FetchBlocked, Fetch, Keeps, TypeOK
<1>3. ASSUME NEW answer \in {"ok", "failed"}, FetchEnds(t, answer) PROVE Effect(t)
  <2>1. PICK P \in SUBSET Pages : Fetch(t, P) /\ answer = Reported(P)
    BY <1>3 DEF FetchEnds
  <2>2. Answers(t, answer, P) /\ UNCHANGED result
    BY <1>3, <2>1 DEF FetchEnds, Fetch, Answers
  <2>3. IF P = Pages THEN answer = "ok" ELSE answer = "failed"
    BY <2>1 DEF Reported
  <2>4. QED
    BY <2>2, <2>3 DEF Effect
<1>4. ASSUME FetchRaises(t) PROVE Effect(t)
  <2>1. PICK P \in SUBSET Pages : Fetch(t, P)
    BY <1>4 DEF FetchRaises
  <2>2. Answers(t, "worker_error", P)
    BY <1>4, <2>1 DEF FetchRaises, Fetch, Answers
  <2>3. CASE Cardinality(Thread) > 1
    BY <1>4, <2>2, <2>3 DEF FetchRaises, Effect
  <2>4. CASE ~(Cardinality(Thread) > 1)
    BY <1>4, <2>2, <2>4, OneThread DEF FetchRaises, Effect
  <2>5. QED
    BY <2>3, <2>4
<1>5. ASSUME GiveUp(t) PROVE Effect(t)
  <2>1. stored' = stored \cup (task[t] \X {})
    BY <1>5 DEF GiveUp
  <2>2. QED
    BY <1>5, <2>1 DEF GiveUp, Answers, Effect
<1>6. QED
  BY <1>1, <1>2, <1>3, <1>4, <1>5 DEF Step, Effect

LEMMA EffectKeepsNumbers ==
    ASSUME NEW t \in Thread, TypeOK, NumbersInv, Effect(t)
    PROVE  NumbersInv'
<1>1. PICK n \in Number : pc[t] # "idle" /\ task[t] = {n} /\ outcome[n] = "running"
                          /\ result = "running"
  BY DEF Effect, Keeps, Answers, NumbersInv
<1>2. CASE Keeps(t)
  <2>1. \A m \in Number : <<m, "main">> \in stored' => <<m, "main">> \in stored
    BY <1>2 DEF Keeps
  <2>2. QED
    BY <1>2, <2>1 DEF Keeps, NumbersInv
<1>3. ASSUME NEW answer \in Answer, NEW P \in SUBSET Pages, Answers(t, answer, P),
             result' = result \/ Thread = {t}
      PROVE  NumbersInv'
  <2>1. /\ outcome' = [m \in Number |-> IF m \in task[t] THEN answer ELSE outcome[m]]
        /\ pc'[t] = "idle" /\ task'[t] = {}
        /\ \A u \in Thread \ {t} : pc'[u] = pc[u] /\ task'[u] = task[u]
    BY <1>3 DEF Answers, AnswerTask, TypeOK
  <2>2. outcome'[n] = answer /\ \A m \in Number \ {n} : outcome'[m] = outcome[m]
    BY <1>1, <2>1
  <2>3. \A m \in Number \ {n} : <<m, "main">> \in stored' => <<m, "main">> \in stored
    BY <1>1, <1>3 DEF Answers
  <2>4. ASSUME NEW u \in Thread
        PROVE  IF pc'[u] = "idle" THEN task'[u] = {}
               ELSE /\ result' = "running"
                    /\ \E m \in Number : task'[u] = {m} /\ outcome'[m] = "running"
    <3>1. CASE u = t
      BY <2>1, <3>1
    <3>2. CASE u # t /\ pc[u] = "idle"
      BY <2>1, <3>2 DEF NumbersInv
    <3>3. CASE u # t /\ pc[u] # "idle"
      <4>1. PICK m \in Number : task[u] = {m} /\ outcome[m] = "running"
        BY <3>3 DEF NumbersInv
      <4>2. m # n /\ result' = "running"
        BY <1>1, <1>3, <3>3, <4>1 DEF NumbersInv
      <4>3. QED
        BY <2>1, <2>2, <3>3, <4>1, <4>2
    <3>4. QED
      BY <3>1, <3>2, <3>3
  <2>5. \A u, v \in Thread : u # v => task'[u] \cap task'[v] = {}
    BY <2>1 DEF NumbersInv
  <2>6. \A m \in Number : outcome'[m] \notin Answer => <<m, "main">> \notin stored'
    BY <2>2, <2>3 DEF NumbersInv
  <2>7. QED
    BY <2>4, <2>5, <2>6 DEF NumbersInv
<1>4. QED
  BY <1>2, <1>3 DEF Effect, Answer

LEMMA NextKeepsNumbers == Inv /\ NumbersInv /\ [Next]_vars => NumbersInv'
<1> SUFFICES ASSUME TypeOK, NumbersInv, [Next]_vars PROVE NumbersInv'
  BY DEF Inv
<1>1. ASSUME NEW t \in Thread, NEW n \in Number, Take(t, n) PROVE NumbersInv'
  <2>1. /\ pc[t] = "idle" /\ outcome[n] = "queued" /\ result = "running"
        /\ UNCHANGED <<stored, result>>
        /\ pc'[t] = "choosing" /\ task'[t] = {n} /\ outcome'[n] = "running"
        /\ \A u \in Thread \ {t} : pc'[u] = pc[u] /\ task'[u] = task[u]
        /\ \A m \in Number \ {n} : outcome'[m] = outcome[m]
    BY <1>1 DEF Take, TypeOK
  <2>2. \A u \in Thread : n \notin task[u]
    BY <2>1 DEF NumbersInv
  <2>3. ASSUME NEW u \in Thread
        PROVE  IF pc'[u] = "idle" THEN task'[u] = {}
               ELSE /\ result' = "running"
                    /\ \E m \in Number : task'[u] = {m} /\ outcome'[m] = "running"
    <3>1. CASE u = t
      BY <2>1, <3>1
    <3>2. CASE u # t
      BY <2>1, <2>2, <3>2 DEF NumbersInv
    <3>3. QED
      BY <3>1, <3>2
  <2>4. \A u, v \in Thread : u # v => task'[u] \cap task'[v] = {}
    BY <2>1, <2>2 DEF NumbersInv
  <2>5. \A m \in Number : outcome'[m] \notin Answer => <<m, "main">> \notin stored'
    BY <2>1 DEF NumbersInv, Answer
  <2>6. QED
    BY <2>3, <2>4, <2>5 DEF NumbersInv
<1>2. CASE Return
  <2>1. \A t \in Thread : pc[t] = "idle"
    BY <1>2 DEF Return, NumbersInv, Answer
  <2>2. QED
    BY <1>2, <2>1 DEF Return, NumbersInv
<1>3. CASE UNCHANGED vars
  BY <1>3 DEF vars, NumbersInv
<1>4. QED
  BY <1>1, <1>2, <1>3, StepEffect, EffectKeepsNumbers DEF Next, Finished

\* Every number has one thread, and its pages are complete only with its answer.
THEOREM NumbersApart == Spec => [](Inv /\ NumbersInv)
<1>1. Init => NumbersInv
  BY DEF Init, NumbersInv
<1>2. QED
  BY <1>1, InitEstablishes, NextPreserves, NextKeepsNumbers, PTL DEF Spec

\* A number nobody has answered for waits in the queue or is in a thread's hands.
Attended == \A n \in Number : outcome[n] = "running" => \E t \in Thread : n \in task[t]

(***************************************************************************)
(* Somebody can go on: the caller has all its answers, a thread is free    *)
(* for a number of the queue, or a thread is not waiting for a lock that   *)
(* another one holds.                                                      *)
(***************************************************************************)
SomebodyGoesOn ==
    \/ \A n \in Number : outcome[n] \in Answer
    \/ \E t \in Thread, n \in Number : pc[t] = "idle" /\ outcome[n] = "queued"
    \/ \E t \in Thread : pc[t] \in {"fetching", "resting"}
    \/ \E t \in Thread : pc[t] \in {"choosing", "blocked", "exhausted"} /\ mutex = NoThread

\* restart_loop_cycle sleeps with the lock in its hands, but the threads behind it never
\* wait for each other: until the pass ends somebody can go on.
THEOREM NobodyIsStuck == Spec => [](result = "running" => SomebodyGoesOn)
<1>1. Init => Attended
  BY DEF Init, Attended
<1>2. Inv /\ NumbersInv /\ Attended /\ [Next]_vars => Attended'
  <2> SUFFICES ASSUME TypeOK, NumbersInv, Attended, [Next]_vars PROVE Attended'
    BY DEF Inv
  <2>1. ASSUME NEW t \in Thread, NEW n \in Number, Take(t, n) PROVE Attended'
    <3>1. /\ task[t] = {} /\ task'[t] = {n} /\ \A u \in Thread \ {t} : task'[u] = task[u]
          /\ \A m \in Number \ {n} : outcome'[m] = outcome[m]
      BY <2>1 DEF Take, TypeOK, NumbersInv
    <3>2. QED
      BY <3>1 DEF Attended
  <2>2. ASSUME NEW t \in Thread, Keeps(t) PROVE Attended'
    BY <2>2 DEF Keeps, Attended
  <2>3. ASSUME NEW t \in Thread, NEW answer \in Answer, NEW P, Answers(t, answer, P)
        PROVE  Attended'
    <3>1. \A u \in Thread \ {t} : task'[u] = task[u]
      BY <2>3 DEF Answers, AnswerTask, TypeOK
    <3>2. \A n \in Number : outcome'[n] = IF n \in task[t] THEN answer ELSE outcome[n]
      BY <2>3 DEF Answers, AnswerTask
    <3>3. answer # "running"
      BY DEF Answer
    <3>4. QED
      BY <3>1, <3>2, <3>3 DEF Attended
  <2>4. CASE Return \/ UNCHANGED vars
    BY <2>4 DEF Return, vars, Attended
  <2>5. QED
    BY <2>1, <2>2, <2>3, <2>4, StepEffect DEF Next, Finished, Effect, Answer
<1>3. ASSUME TypeOK, LockInv, NumbersInv, Attended PROVE SomebodyGoesOn
  <2>1. CASE \A n \in Number : outcome[n] \in Answer
    BY <2>1 DEF SomebodyGoesOn
  <2>2. CASE \E n \in Number : outcome[n] \notin Answer
    <3>1. PICK n \in Number : outcome[n] \in {"queued", "running"}
      BY <1>3, <2>2 DEF TypeOK
    <3>2. CASE \E t \in Thread : pc[t] # "idle"
      <4>1. PICK t \in Thread : pc[t] # "idle"
        BY <3>2
      <4>2. mutex = NoThread \/ \E u \in Thread : pc[u] = "resting"
        BY <1>3 DEF TypeOK, LockInv
      <4>3. QED
        BY <1>3, <4>1, <4>2 DEF TypeOK, PC, SomebodyGoesOn
    <3>3. CASE \A t \in Thread : pc[t] = "idle"
      <4>1. outcome[n] = "queued"
        BY <1>3, <3>1, <3>3 DEF Attended, NumbersInv
      <4>2. QED
        BY <3>3, <4>1 DEF SomebodyGoesOn
    <3>4. QED
      BY <3>2, <3>3
  <2>3. QED
    BY <2>1, <2>2
<1>4. Inv /\ NumbersInv /\ Attended => SomebodyGoesOn
  BY <1>3 DEF Inv
<1>5. QED
  BY <1>1, <1>2, <1>4, NumbersApart, PTL DEF Spec

OwnPages(n) == {page \in SitePages : page[1] = n /\ page[2] = "kbo"}
Named(n, P) == {<<n, "kbo", p>> : p \in P}

LEMMA DagPages ==
    ASSUME NEW n \in Number
    PROVE  /\ Dag!Page = SitePages
           /\ Dag!PagesOf(n, "kbo") = OwnPages(n)
           /\ OwnPages(n) = Named(n, Pages)
<1>1. Dag!Source = {"kbo", "statutes"}
  BY DEF Dag!Source
<1>2. Dag!Page = SitePages
  BY <1>1 DEF Dag!Page, Dag!Pages, SitePages, Pages
<1>3. OwnPages(n) = Named(n, Pages)
  BY DEF OwnPages, Named, SitePages, Pages
<1>4. Dag!PagesOf(n, "kbo") = Named(n, Pages)
  BY DEF Dag!PagesOf, Dag!Pages, Pages, Named
<1>5. QED
  BY <1>2, <1>3, <1>4

LEMMA FetchedGrows ==
    ASSUME NEW n \in Number, NEW P \in SUBSET Pages, stored' = stored \cup ({n} \X P)
    PROVE  Fetched' = Fetched \cup Named(n, P)
<1>1. Named(n, P) \subseteq SitePages
  BY DEF Named, SitePages, Pages
<1>2. \A page \in SitePages :
         page[2] = "kbo" /\ <<page[1], page[3]>> \in stored'
            <=> page \in Fetched \/ page \in Named(n, P)
  BY DEF Fetched, Named, SitePages
<1>3. Fetched' = {page \in SitePages : page[2] = "kbo" /\ <<page[1], page[3]>> \in stored'}
  BY DEF Fetched, SitePages
<1>4. QED
  BY <1>1, <1>2, <1>3 DEF Fetched

LEMMA Storing ==
    ASSUME NEW n \in Open, NEW new \in SUBSET (Named(n, Pages) \ Fetched),
           Fetched' = Fetched \cup new
    PROVE  /\ Dag!StorePages("kbo", n, new)
           /\ Own(Fetched, {})["kbo"] = Fetched
           /\ Dag!PagesOf(n, "kbo") \ Own(Fetched, {})["kbo"] = Named(n, Pages) \ Fetched
<1> DEFINE SiteRows == [page \in SitePages |-> IF page \in Fetched THEN 1 ELSE 0]
<1>1. n \in Number /\ result = "running"
  BY DEF Open
<1>2. /\ SiteTasks["kbo"] = "running" /\ Own(Open, {})["kbo"] = Open
      /\ Own(Fetched, {})["kbo"] = Fetched
  BY <1>1 DEF SiteTasks, Own
<1>3. Dag!PagesOf(n, "kbo") = Named(n, Pages) /\ Dag!Page = SitePages
  BY <1>1, DagPages
<1>4. SiteRows' = [page \in SitePages |->
                      IF page \in new /\ SiteRows[page] < Dag!Counted(page)
                      THEN SiteRows[page] + 1 ELSE SiteRows[page]]
  <2>1. SiteRows' = [page \in SitePages |-> IF page \in Fetched' THEN 1 ELSE 0]
    BY DEF SitePages
  <2>2. ASSUME NEW page \in SitePages
        PROVE  (IF page \in Fetched' THEN 1 ELSE 0)
                  = IF page \in new /\ SiteRows[page] < Dag!Counted(page)
                    THEN SiteRows[page] + 1 ELSE SiteRows[page]
    <3>1. CASE page \in new
      <4>1. SiteRows[page] = 0 /\ 0 < Dag!Counted(page) /\ page \in Fetched'
        BY <3>1 DEF Dag!Counted, Dag!MaxRows
      <4>2. QED
        BY <3>1, <4>1
    <3>2. CASE page \notin new
      BY <3>2
    <3>3. QED
      BY <3>1, <3>2
  <2>3. QED
    BY <2>1, <2>2
<1>5. Own(Fetched, {})' = [Own(Fetched, {}) EXCEPT !["kbo"] = @ \cup new]
  BY DEF Own
<1>6. QED
  BY <1>2, <1>3, <1>4, <1>5 DEF Dag!StorePages

\* The main page is one of those a number without its answer lacks.
LEMMA MainIsMissing ==
    ASSUME NEW n \in Open, NumbersInv
    PROVE  <<n, "kbo", "main">> \in Named(n, Pages) \ Fetched
<1>1. n \in Number /\ <<n, "main">> \notin stored
  BY DEF Open, NumbersInv
<1>2. QED
  BY <1>1 DEF Named, Fetched, Pages

\* What an answer does to the numbers.
LEMMA Answering ==
    ASSUME NEW t \in Thread, TypeOK, NEW n \in Number, task[t] = {n}, outcome[n] = "running",
           NEW answer \in Answer, NEW P, Answers(t, answer, P)
    PROVE  /\ outcome'[n] = answer /\ \A m \in Number \ {n} : outcome'[m] = outcome[m]
           /\ Reports' = IF answer = "ok" THEN Reports \cup {n} ELSE Reports
           /\ UNCHANGED result /\ result = "running" => Open' = Open \ {n}
           /\ (\E m \in Number : outcome'[m] = "tor_lanes_exhausted")
                 <=> \/ answer = "tor_lanes_exhausted"
                     \/ \E m \in Number : outcome[m] = "tor_lanes_exhausted"
<1>1. outcome'[n] = answer /\ \A m \in Number \ {n} : outcome'[m] = outcome[m]
  BY DEF Answers, AnswerTask
<1>2. QED
  BY <1>1 DEF Reports, Open, Answer

LEMMA EffectRefines ==
    ASSUME NEW t \in Thread, TypeOK, NumbersInv, Effect(t)
    PROVE  Dag!Run("kbo") \/ UNCHANGED Dag!vars
<1> DEFINE gone(o) == \E m \in Number : o[m] = "tor_lanes_exhausted"
<1>1. PICK n \in Number : pc[t] # "idle" /\ task[t] = {n} /\ outcome[n] = "running"
                          /\ result = "running"
  BY DEF Effect, Keeps, Answers, NumbersInv
<1>2. n \in Open /\ Named(n, Pages) \ Fetched # {}
  BY <1>1, MainIsMissing DEF Open, Answer
<1>3. CASE Keeps(t)
  <2>1. PICK P \in SUBSET (Pages \ {"main"}) : stored' = stored \cup ({n} \X P)
    BY <1>1, <1>3 DEF Keeps
  <2>2. P \in SUBSET Pages /\ Fetched' = Fetched \cup Named(n, P)
    BY <2>1, FetchedGrows
  <2>3. UNCHANGED <<outcome, result>>
    BY <1>3 DEF Keeps
  <2>4. /\ SiteTasks' = SiteTasks /\ Own(Open, {})' = Own(Open, {}) /\ Reports' = Reports
        /\ Own(IF result \in {"running", "returned"} THEN Reports ELSE {}, {})'
              = Own(IF result \in {"running", "returned"} THEN Reports ELSE {}, {})
    BY <2>3 DEF SiteTasks, Own, Open, Reports
  <2>5. CASE Named(n, P) \subseteq Fetched
    <3>1. Fetched' = Fetched
      BY <2>2, <2>5
    <3>2. QED
      BY <2>3, <2>4, <3>1 DEF Dag!vars, Dag!scraping, Own, SitePages
  <2>6. CASE ~(Named(n, P) \subseteq Fetched)
    <3>1. P = {"profile"} /\ Named(n, P) = {<<n, "kbo", "profile">>}
      BY <2>1, <2>6 DEF Pages, Named
    <3>2. Named(n, P) \ Fetched = {<<n, "kbo", "profile">>}
      BY <2>6, <3>1
    <3>3. Dag!ScrapePage("kbo", n, <<n, "kbo", "profile">>)
      <4>1. /\ Dag!StorePages("kbo", n, {<<n, "kbo", "profile">>})
            /\ Dag!PagesOf(n, "kbo") \ Own(Fetched, {})["kbo"] = Named(n, Pages) \ Fetched
        <5>1. Fetched' = Fetched \cup {<<n, "kbo", "profile">>}
          BY <2>2, <3>1
        <5>2. {<<n, "kbo", "profile">>} \in SUBSET (Named(n, Pages) \ Fetched)
          BY <2>2, <3>1, <3>2 DEF Named
        <5>3. QED
          BY <1>2, <5>1, <5>2, Storing
      <4>2. Named(n, Pages) \ Fetched # {<<n, "kbo", "profile">>}
        BY <1>2, MainIsMissing
      <4>3. QED
        BY <2>3, <2>4, <4>1, <4>2 DEF Dag!ScrapePage, Own
    <3>4. <<n, "kbo", "profile">> \in Dag!PagesOf(n, "kbo")
      BY <1>1, <2>2, <3>1, DagPages DEF Named
    <3>5. QED
      BY <1>1, <3>3, <3>4 DEF Dag!Run
  <2>7. QED
    BY <2>5, <2>6
<1>4. ASSUME NEW answer \in Answer, NEW P \in SUBSET Pages, Answers(t, answer, P)
      PROVE  /\ Fetched' = Fetched \cup Named(n, P)
             /\ \E new \in SUBSET (Named(n, Pages) \ Fetched) : Fetched' = Fetched \cup new
             /\ Reports' = IF answer = "ok" THEN Reports \cup {n} ELSE Reports
             /\ UNCHANGED result => Own(Open, {})' = [Own(Open, {}) EXCEPT !["kbo"] = @ \ {n}]
             /\ gone(outcome') <=> answer = "tor_lanes_exhausted" \/ gone(outcome)
  <2>1. Fetched' = Fetched \cup Named(n, P)
    BY <1>1, <1>4, FetchedGrows DEF Answers
  <2>2. /\ Reports' = IF answer = "ok" THEN Reports \cup {n} ELSE Reports
        /\ UNCHANGED result => Open' = Open \ {n}
        /\ gone(outcome') <=> answer = "tor_lanes_exhausted" \/ gone(outcome)
    BY <1>1, <1>4, Answering
  <2>3. PICK new \in SUBSET (Named(n, Pages) \ Fetched) : new = Named(n, P) \ Fetched
    BY DEF Named
  <2>4. Fetched' = Fetched \cup new
    BY <2>1, <2>3
  <2>5. QED
    BY <2>1, <2>2, <2>4 DEF Own
<1>5. CASE Answers(t, "ok", Pages) /\ UNCHANGED result
  <2>1. /\ Fetched' = Fetched \cup (Named(n, Pages) \ Fetched) /\ Reports' = Reports \cup {n}
        /\ Own(Open, {})' = [Own(Open, {}) EXCEPT !["kbo"] = @ \ {n}]
        /\ gone(outcome') <=> gone(outcome)
    BY <1>4, <1>5 DEF Answer
  <2>2. PICK new \in SUBSET (Named(n, Pages) \ Fetched) : new = Named(n, Pages) \ Fetched
    OBVIOUS
  <2>3. /\ Dag!StorePages("kbo", n, new)
        /\ Dag!PagesOf(n, "kbo") \ Own(Fetched, {})["kbo"] = new
    BY <1>2, <2>1, <2>2, Storing
  <2>4. /\ SiteTasks' = SiteTasks
        /\ Own(IF result \in {"running", "returned"} THEN Reports ELSE {}, {})'
              = [Own(IF result \in {"running", "returned"} THEN Reports ELSE {}, {})
                    EXCEPT !["kbo"] = @ \cup {n}]
    BY <1>1, <1>5, <2>1 DEF SiteTasks, Own
  <2>5. Dag!StorePages("kbo", n, Dag!PagesOf(n, "kbo") \ Own(Fetched, {})["kbo"])
    BY <2>3 DEF Dag!StorePages
  <2>6. Dag!ScrapeSucceeds("kbo", n)
    BY <1>1, <1>5, <2>1, <2>4, <2>5 DEF Dag!ScrapeSucceeds, Dag!NextNumber, Own
  <2>7. QED
    BY <1>1, <2>6 DEF Dag!Run
<1>6. ASSUME NEW answer \in Answer \ {"ok"}, NEW P \in SUBSET Pages, Answers(t, answer, P),
             UNCHANGED result
      PROVE  Dag!Run("kbo")
  <2>0. PICK new \in SUBSET (Named(n, Pages) \ Fetched) : Fetched' = Fetched \cup new
    BY <1>4, <1>6
  <2>1. /\ Reports' = Reports
        /\ Own(Open, {})' = [Own(Open, {}) EXCEPT !["kbo"] = @ \ {n}]
        /\ gone(outcome') \in {gone(outcome), TRUE}
    BY <1>4, <1>6
  <2>2. /\ Dag!StorePages("kbo", n, new)
        /\ Dag!PagesOf(n, "kbo") \ Own(Fetched, {})["kbo"] # {}
    BY <1>2, <2>0, Storing
  <2>3. /\ SiteTasks' = SiteTasks
        /\ Own(IF result \in {"running", "returned"} THEN Reports ELSE {}, {})'
              = Own(IF result \in {"running", "returned"} THEN Reports ELSE {}, {})
    BY <1>1, <1>6, <2>1 DEF SiteTasks, Own
  <2>4. Dag!ScrapeFails("kbo", n, new)
    BY <1>1, <1>6, <2>1, <2>2, <2>3 DEF Dag!ScrapeFails, Dag!NextNumber, Own
  <2>5. new \in SUBSET Dag!PagesOf(n, "kbo")
    BY <1>1, DagPages DEF Named
  <2>6. QED
    BY <1>1, <2>4, <2>5 DEF Dag!Run
<1>7. ASSUME NEW P \in SUBSET Pages, Answers(t, "worker_error", P), result' = "raised"
      PROVE  Dag!Run("kbo")
  <2>0. PICK new \in SUBSET (Named(n, Pages) \ Fetched) : Fetched' = Fetched \cup new
    BY <1>4, <1>7 DEF Answer
  <2>1. gone(outcome') <=> gone(outcome)
    BY <1>4, <1>7 DEF Answer
  <2>2. /\ Dag!StorePages("kbo", n, new)
        /\ Dag!PagesOf(n, "kbo") \ Own(Fetched, {})["kbo"] # {}
    BY <1>2, <2>0, Storing
  <2>3. /\ SiteTasks' = [SiteTasks EXCEPT !["kbo"] = "retry"]
        /\ Own(Open, {})' = [Own(Open, {}) EXCEPT !["kbo"] = {}]
        /\ Own(IF result \in {"running", "returned"} THEN Reports ELSE {}, {})'
              = [Own(IF result \in {"running", "returned"} THEN Reports ELSE {}, {})
                    EXCEPT !["kbo"] = {}]
    BY <1>1, <1>7 DEF SiteTasks, Own, Open
  <2>4. Dag!Retried("kbo") = "retry"
    BY DEF Dag!Retried, Dag!MaxTries, Own
  <2>5. Dag!TaskRaises("kbo", n, new)
    BY <1>1, <1>7, <2>1, <2>2, <2>3, <2>4 DEF Dag!TaskRaises, Dag!SetTask, Own
  <2>6. new \in SUBSET Dag!PagesOf(n, "kbo")
    BY <1>1, DagPages DEF Named
  <2>7. QED
    BY <1>1, <2>5, <2>6 DEF Dag!Run
<1>8. QED
  BY <1>3, <1>5, <1>6, <1>7 DEF Effect, Answer

LEMMA ReturnRefines ==
    ASSUME TypeOK, Return
    PROVE  Dag!Run("kbo")
<1> DEFINE gone == \E m \in Number : outcome[m] = "tor_lanes_exhausted"
<1>1. /\ result = "running" /\ UNCHANGED <<stored, outcome>> /\ Reports' = Reports
      /\ Open = {} /\ Open' = {} /\ Fetched' = Fetched
  BY DEF Return, Open, Reports, Fetched, SitePages
<1>2. /\ SiteTasks["kbo"] = "running" /\ Own(Open, {})["kbo"] = {}
      /\ Own(Open, {})' = Own(Open, {}) /\ Own(Fetched, {})' = Own(Fetched, {})
  BY <1>1 DEF SiteTasks, Own
<1>3. CASE ~TorLoop /\ gone
  <2>1. /\ result' = "captcha_blocked"
        /\ SiteTasks' = [SiteTasks EXCEPT !["kbo"] = "retry"]
        /\ Own(IF result \in {"running", "returned"} THEN Reports ELSE {}, {})'
              = [Own(IF result \in {"running", "returned"} THEN Reports ELSE {}, {})
                    EXCEPT !["kbo"] = {}]
    BY <1>3, <1>1 DEF Return, SiteTasks, Own
  <2>2. Dag!Retried("kbo") = "retry"
    BY DEF Dag!Retried, Dag!MaxTries, Own
  <2>3. Dag!EndTask("kbo")
    BY <1>1, <1>2, <1>3, <2>1, <2>2 DEF Dag!EndTask, Dag!SetTask, Own, SitePages
  <2>4. QED
    BY <2>3 DEF Dag!Run
<1>4. CASE ~(~TorLoop /\ gone)
  <2>1. /\ result' = "returned"
        /\ SiteTasks' = [SiteTasks EXCEPT !["kbo"] = "success"]
        /\ Own(IF result \in {"running", "returned"} THEN Reports ELSE {}, {})'
              = Own(IF result \in {"running", "returned"} THEN Reports ELSE {}, {})
        /\ Own(IF result \in {"running", "returned"} THEN Reports ELSE {}, {})["kbo"] = Reports
    BY <1>4, <1>1 DEF Return, SiteTasks, Own
  <2>2. Dag!EndTask("kbo")
    BY <1>1, <1>2, <1>4, <2>1 DEF Dag!EndTask, Dag!SetTask, Own, SitePages
  <2>3. QED
    BY <2>2 DEF Dag!Run
<1>5. QED
  BY <1>3, <1>4

\* For any threads, lanes and cycles, with the profile or without, scrape_kbo over Tor does
\* to the DAG run only what ScrapeBySource has it do.
THEOREM Refinement == Spec => ImplementsTask
<1> DEFINE Started ==
        /\ SiteTasks["kbo"] = "running" /\ Reports = {}
        /\ Open = Dag!Numbers("kbo") /\ Fetched = Dag!AlreadyStored("kbo")
<1>1. Init => Started
  BY DEF Init, SiteTasks, Reports, Open, Fetched, Answer, Dag!Numbers, Dag!AlreadyStored
<1>2. Inv /\ NumbersInv /\ [Next]_vars => [Dag!Run("kbo")]_(Dag!vars)
  <2> SUFFICES ASSUME TypeOK, NumbersInv, [Next]_vars
               PROVE  Dag!Run("kbo") \/ UNCHANGED Dag!vars
    BY DEF Inv
  <2>1. ASSUME NEW t \in Thread, NEW n \in Number, Take(t, n) PROVE UNCHANGED Dag!vars
    <3>1. UNCHANGED <<stored, result>> /\ outcome[n] = "queued"
          /\ outcome'[n] = "running" /\ \A m \in Number \ {n} : outcome'[m] = outcome[m]
      BY <2>1 DEF Take, TypeOK
    <3>2. /\ Fetched' = Fetched /\ Open' = Open /\ Reports' = Reports
          /\ (\E m \in Number : outcome'[m] = "tor_lanes_exhausted")
                = (\E m \in Number : outcome[m] = "tor_lanes_exhausted")
      BY <3>1 DEF Fetched, SitePages, Open, Reports, Answer
    <3>3. QED
      BY <3>1, <3>2 DEF Dag!vars, Dag!scraping, SiteTasks, Own, SitePages
  <2>2. CASE UNCHANGED vars
    <3>1. Fetched' = Fetched /\ Open' = Open /\ Reports' = Reports
      BY <2>2 DEF vars, Fetched, SitePages, Open, Reports
    <3>2. QED
      BY <2>2, <3>1 DEF vars, Dag!vars, Dag!scraping, SiteTasks, Own, SitePages
  <2>3. QED
    BY <2>1, <2>2, StepEffect, EffectRefines, ReturnRefines DEF Next, Finished
<1>3. QED
  BY <1>1, <1>2, NumbersApart, PTL DEF Spec, ImplementsTask

==============================================================================
