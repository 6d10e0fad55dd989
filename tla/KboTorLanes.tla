----------------------------- MODULE KboTorLanes -----------------------------
(***************************************************************************)
(* One pass over the claimed enterprises on the KBO site                   *)
(* (_scrape_kbo_tor_passes in packages/acquisition/worker.py): a pool of   *)
(* threads, each scraping one enterprise at a time over the egress lane    *)
(* that a KboTorLaneCoordinator (tor_strategy.py) hands out.  The lane is  *)
(* shared by the whole run: a thread that is stopped by a captcha moves    *)
(* the run on to the next lane and tries again there, and after the last   *)
(* lane begins a new cycle when tor_loop asks for it.                      *)
(*                                                                         *)
(* A fetch of an enterprise's pages is one step with one of the results    *)
(* the code tells apart and the pages it leaves behind; the coordinator's  *)
(* lock is explicit because restart_loop_cycle sleeps while it holds it.   *)
(***************************************************************************)
EXTENDS Naturals, FiniteSets

CONSTANTS
    Number,         \* the claimed enterprise numbers
    Thread,         \* the threads of the pool
    NoThread,       \* the owner of a free lock
    Lanes,          \* how many lanes there are: direct, tor1, tor2, ...
    TorLoop,        \* the parameter tor_loop
    MaxCycles,      \* the 50 of can_loop_again
    WithProfile     \* the environment variable KBO_INCLUDE_PROFILE

ASSUME ThreadAssumption == IsFiniteSet(Thread) /\ Thread # {} /\ NoThread \notin Thread
ASSUME LanesAssumption == Lanes \in Nat \ {0}
ASSUME TorLoopAssumption == TorLoop \in BOOLEAN
ASSUME MaxCyclesAssumption == MaxCycles \in Nat \ {0}
ASSUME WithProfileAssumption == WithProfile \in BOOLEAN

VARIABLES
    laneIndex,      \* KboTorScheduler.lane_index
    cycles,         \* KboTorScheduler.loop_cycles
    mutex,          \* who holds KboTorLaneCoordinator._lock
    walks,          \* history: how often the run has come to its last lane
    pc,             \* where each thread is
    task,           \* the numbers each thread works on: none or one
    lane,           \* the lane current_lane gave to the thread
    cycle,          \* history: the cycle it was given in
    blockedAt,      \* history: the <<cycle, lane>> of the last captcha on task
    stored,         \* the pages stored by this pass
    outcome,        \* what became of each number
    result          \* how the pass ended

coordinator == <<laneIndex, cycles, mutex, walks>>
history == <<cycle, blockedAt>>
vars == <<coordinator, pc, task, lane, history, stored, outcome, result>>

\* The jobs of build_urls, the main page after the profile.
Pages == IF WithProfile THEN {"profile", "main"} ELSE {"main"}

Position == Nat \X Nat
Before(p, q) == p[1] < q[1] \/ (p[1] = q[1] /\ p[2] < q[2])
Here == <<cycles, laneIndex>>
Attempt(t) == <<cycle[t], lane[t]>>
NoCaptcha == <<0, 0>>
Last(l) == IF l = Lanes - 1 THEN 1 ELSE 0

PC == {"idle", "choosing", "fetching", "blocked", "exhausted", "resting"}
Answer == {"ok", "failed", "tor_lanes_exhausted", "worker_error"}

TypeOK ==
    /\ laneIndex \in 0 .. Lanes - 1
    /\ cycles \in 1 .. MaxCycles
    /\ mutex \in Thread \cup {NoThread}
    /\ walks \in Nat
    /\ pc \in [Thread -> PC]
    /\ task \in [Thread -> SUBSET Number]
    /\ lane \in [Thread -> 0 .. Lanes - 1]
    /\ cycle \in [Thread -> Nat]
    /\ blockedAt \in [Thread -> Position]
    /\ stored \subseteq Number \X Pages
    /\ outcome \in [Number -> Answer \cup {"queued", "running"}]
    /\ result \in {"running", "returned", "captcha_blocked", "raised"}

Init ==
    /\ laneIndex = 0
    /\ cycles = 1
    /\ mutex = NoThread
    /\ walks = Last(0)
    /\ pc = [t \in Thread |-> "idle"]
    /\ task = [t \in Thread |-> {}]
    /\ lane = [t \in Thread |-> 0]
    /\ cycle = [t \in Thread |-> 0]
    /\ blockedAt = [t \in Thread |-> NoCaptcha]
    /\ stored = {}
    /\ outcome = [n \in Number |-> "queued"]
    /\ result = "running"

------------------------------------------------------------------------------
(* A thread takes a number off the queue and answers for it.               *)

Take(t, n) ==
    /\ result = "running" /\ pc[t] = "idle" /\ outcome[n] = "queued"
    /\ pc' = [pc EXCEPT ![t] = "choosing"]
    /\ task' = [task EXCEPT ![t] = {n}]
    /\ blockedAt' = [blockedAt EXCEPT ![t] = NoCaptcha]
    /\ outcome' = [outcome EXCEPT ![n] = "running"]
    /\ UNCHANGED <<coordinator, lane, cycle, stored, result>>

AnswerTask(t, answer) ==
    /\ pc' = [pc EXCEPT ![t] = "idle"]
    /\ task' = [task EXCEPT ![t] = {}]
    /\ outcome' = [n \in Number |-> IF n \in task[t] THEN answer ELSE outcome[n]]

\* current_lane.
CurrentLane(t) ==
    /\ pc[t] = "choosing" /\ mutex = NoThread
    /\ lane' = [lane EXCEPT ![t] = laneIndex]
    /\ cycle' = [cycle EXCEPT ![t] = cycles]
    /\ pc' = [pc EXCEPT ![t] = "fetching"]
    /\ UNCHANGED <<coordinator, task, blockedAt, stored, outcome, result>>

\* The pages of P pass and are stored, again if another lane has brought them already.
Fetch(t, P) ==
    /\ pc[t] = "fetching"
    /\ stored' = stored \cup (task[t] \X P)

\* Deviation: the answer for a number is that for its main page.
ReportedByMain(P) == IF "main" \in P THEN "ok" ELSE "failed"

\* job_ok.
Reported(P) == IF P = Pages THEN "ok" ELSE "failed"

\* Every page is stored, or one fails for a reason that is not the lane's.
FetchEnds(t, answer) ==
    /\ \E P \in SUBSET Pages : Fetch(t, P) /\ answer = Reported(P)
    /\ AnswerTask(t, answer)
    /\ UNCHANGED <<coordinator, lane, history, result>>

(***************************************************************************)
(* Storing raises, with the row of the page there or not.  With a pool the *)
(* number gets worker_error; without one (one thread: the loop of the      *)
(* caller) the whole pass ends.                                            *)
(***************************************************************************)
FetchRaises(t) ==
    /\ \E P \in SUBSET Pages : Fetch(t, P)
    /\ AnswerTask(t, "worker_error")
    /\ result' = IF Cardinality(Thread) > 1 THEN result ELSE "raised"
    /\ UNCHANGED <<coordinator, lane, history>>

\* CAPTCHA_SUSPECT or HTTP_4XX on the lane the thread was given: no page is asked for
\* after it, a profile may have come before.
FetchBlocked(t) ==
    /\ \E P \in SUBSET (Pages \ {"main"}) : Fetch(t, P)
    /\ pc' = [pc EXCEPT ![t] = "blocked"]
    /\ blockedAt' = [blockedAt EXCEPT ![t] = Attempt(t)]
    /\ UNCHANGED <<coordinator, task, lane, cycle, outcome, result>>

------------------------------------------------------------------------------
(* The coordinator.                                                        *)

CanAdvance == laneIndex + 1 < Lanes

\* Deviations: the limit is tested after the cycle it should forbid, or one early.
CanLoopOnceMore == TorLoop /\ cycles <= MaxCycles
CanLoopOnceLess == TorLoop /\ cycles + 1 < MaxCycles

CanLoopAgain == TorLoop /\ cycles < MaxCycles

\* Deviation: the scheduler wraps round to the first lane by itself.
EscalateRound(t) ==
    /\ pc[t] = "blocked" /\ mutex = NoThread
    /\ laneIndex' = (laneIndex + 1) % Lanes
    /\ pc' = [pc EXCEPT ![t] = "choosing"]
    /\ UNCHANGED <<cycles, mutex, walks, task, lane, history, stored, outcome, result>>

\* escalate_on_captcha moves on from the lane that is current now.
Escalate(t) ==
    /\ pc[t] = "blocked" /\ mutex = NoThread
    /\ laneIndex' = IF CanAdvance THEN laneIndex + 1 ELSE laneIndex
    /\ walks' = IF CanAdvance THEN walks + Last(laneIndex + 1) ELSE walks
    /\ pc' = [pc EXCEPT ![t] = IF CanAdvance THEN "choosing" ELSE "exhausted"]
    /\ UNCHANGED <<cycles, mutex, task, lane, history, stored, outcome, result>>

\* restart_loop_cycle up to its sleep.
BeginRest(t) ==
    /\ pc[t] = "exhausted" /\ mutex = NoThread
    /\ CanLoopAgain
    /\ mutex' = t
    /\ pc' = [pc EXCEPT ![t] = "resting"]
    /\ UNCHANGED <<laneIndex, cycles, walks, task, lane, history, stored, outcome, result>>

\* Deviation: reset_cycle does not count the cycle.
EndRestUncounted(t) ==
    /\ pc[t] = "resting"
    /\ laneIndex' = 0
    /\ mutex' = NoThread
    /\ pc' = [pc EXCEPT ![t] = "choosing"]
    /\ UNCHANGED <<cycles, walks, task, lane, history, stored, outcome, result>>

\* restart_loop_cycle after its sleep: reset_cycle.
EndRest(t) ==
    /\ pc[t] = "resting"
    /\ laneIndex' = 0
    /\ cycles' = cycles + 1
    /\ walks' = walks + Last(0)
    /\ mutex' = NoThread
    /\ pc' = [pc EXCEPT ![t] = "choosing"]
    /\ UNCHANGED <<task, lane, history, stored, outcome, result>>

GiveUp(t) ==
    /\ pc[t] = "exhausted" /\ mutex = NoThread
    /\ ~CanLoopAgain
    /\ AnswerTask(t, "tor_lanes_exhausted")
    /\ UNCHANGED <<coordinator, lane, history, stored, result>>

------------------------------------------------------------------------------
\* The caller has every answer: without tor_loop one exhausted number makes the
\* whole pass raise CaptchaBlockedError.
Return ==
    /\ result = "running"
    /\ \A n \in Number : outcome[n] \in Answer
    /\ result' = IF ~TorLoop /\ \E n \in Number : outcome[n] = "tor_lanes_exhausted"
                 THEN "captcha_blocked" ELSE "returned"
    /\ UNCHANGED <<coordinator, pc, task, lane, history, stored, outcome>>

Finished == result # "running" /\ UNCHANGED vars

Step(t) ==
    \/ \E n \in Number : Take(t, n)
    \/ CurrentLane(t)
    \/ \E answer \in {"ok", "failed"} : FetchEnds(t, answer)
    \/ FetchRaises(t) \/ FetchBlocked(t)
    \/ Escalate(t) \/ BeginRest(t) \/ EndRest(t) \/ GiveUp(t)

Next == (\E t \in Thread : Step(t)) \/ Return \/ Finished

Spec == Init /\ [][Next]_vars

\* Requests and sleeps end, threads are scheduled, and a lock that others keep
\* taking is granted in the end.
Fairness == (\A t \in Thread : SF_vars(Step(t))) /\ WF_vars(Return)

FairSpec == Spec /\ Fairness

------------------------------------------------------------------------------
(* Properties.                                                             *)

(***************************************************************************)
(* A thread stopped by a captcha never tries the same number again on the  *)
(* lane and in the cycle that stopped it, nor on an earlier one, however   *)
(* the other threads move the shared lane in the meantime: the loop of     *)
(* _scrape_one_bce_tor_lanes always goes forward.                          *)
(***************************************************************************)
NeverBackToABlockedLane ==
    \A t \in Thread : pc[t] = "fetching" => Before(blockedAt[t], Attempt(t))

(***************************************************************************)
(* Threads that ran out of lanes together each restart the cycle: a walk   *)
(* over the lanes may use up as many cycles as there are threads, and the  *)
(* cycles in between have lanes that nobody tried.  No more than that is   *)
(* lost: when a number is given up as tor_lanes_exhausted, one in that     *)
(* many of the cycles allowed has been walked to its last lane, with one   *)
(* thread every one.                                                       *)
(***************************************************************************)
CyclesAllowed == IF TorLoop THEN MaxCycles ELSE 1

GiveUpAfterWalks ==
    [][\A n \in Number :
        outcome'[n] = "tor_lanes_exhausted" /\ outcome[n] # "tor_lanes_exhausted"
            => CyclesAllowed <= Cardinality(Thread) * walks]_vars

(***************************************************************************)
(* The task scrape_kbo as ScrapeBySource sees it: a number is open until   *)
(* it has its answer, whatever lanes it is tried on.                       *)
(***************************************************************************)
Own(kbo, others) == [src \in {"kbo", "statutes"} |-> IF src = "kbo" THEN kbo ELSE others]

SitePages ==
    {page \in Number \X {"kbo", "statutes"} \X {"main", "profile"} :
        page[3] \in IF page[2] = "kbo" THEN Pages ELSE {"main"}}

Fetched == {page \in SitePages : page[2] = "kbo" /\ <<page[1], page[3]>> \in stored}
Open == IF result = "running" THEN {n \in Number : outcome[n] \notin Answer} ELSE {}
Reports == {n \in Number : outcome[n] = "ok"}

SiteTasks ==
    [t \in {"prepare", "kbo", "statutes", "finalize"} |->
        IF t = "prepare" THEN "success"
        ELSE IF t # "kbo" THEN "none"
        ELSE IF result = "running" THEN "running"
        ELSE IF result = "returned" THEN "success" ELSE "retry"]

Dag == INSTANCE ScrapeBySource WITH
    Enterprise <- Number, Site <- {"statutes"}, Enabled <- {"kbo", "statutes"},
    KnownSources <- TRUE, UseTor <- TRUE,
    state <- [n \in Number |-> "SCRAPING"],
    rows <- [page \in SitePages |-> IF page \in Fetched THEN 1 ELSE 0],
    task <- SiteTasks, claimed <- Number, tries <- Own(1, 0), todo <- Own(Open, {}),
    stored <- Own(Fetched, {}),
    ok <- Own(IF result \in {"running", "returned"} THEN Reports ELSE {}, {}),
    exhausted <- \E n \in Number : outcome[n] = "tor_lanes_exhausted",
    kboOk <- IF result = "returned" THEN Reports ELSE {}

(***************************************************************************)
(* What ScrapeBySource says of scrape_kbo over Tor is what the threads and *)
(* the coordinator do: a number gets one answer, whichever lanes it was    *)
(* stopped on before; its pages are complete when the answer is ok, and    *)
(* one is missing while it is not there; kbo_ok_numbers names the ok ones, *)
(* unless a number was given up without tor_loop or storing has raised.    *)
(***************************************************************************)
ImplementsTask ==
    /\ /\ SiteTasks["kbo"] = "running" /\ Reports = {}
       /\ Open = Dag!Numbers("kbo") /\ Fetched = Dag!AlreadyStored("kbo")
    /\ [][Dag!Run("kbo")]_(Dag!vars)

(***************************************************************************)
(* Every pass ends, even when every fetch meets a captcha: the lanes and   *)
(* the cycles run out whichever threads use them up.                       *)
(***************************************************************************)
PassEnds == <>(result # "running")

(***************************************************************************)
(* The run leaves a lane only because a request met a captcha on that lane *)
(* in this cycle, as the class docstring of KboTorLaneCoordinator says.    *)
(***************************************************************************)
LaneLeftOnlyAfterItsCaptcha ==
    [][Here' # Here => \E t \in Thread : blockedAt[t] = Here]_vars

==============================================================================
