-------------------------- MODULE SourceTask_proofs --------------------------
(***************************************************************************)
(* Theorems about SourceTask, for any number of enterprise numbers,        *)
(* threads, proxies, pages and attempts, and any answers of the sites.     *)
(***************************************************************************)
EXTENDS SourceTask, TLAPS

USE DirectAssumption, NothingAssumption, ProgramsAssumption, JobsAssumption,
    MaxRetriesAssumption

(***************************************************************************)
(* The inductive invariant.                                                *)
(***************************************************************************)
Works(t) == thread[t].at # "idle"

Activity == [at : {"idle", "picking", "requesting"}, number : Number \cup {Nothing},
             job : 1 .. Jobs, attempt : 1 .. MaxRetries, via : Proxy \cup {Direct},
             ok : BOOLEAN]

\* A thread works on a number of its own; while job_ok is true every page before the
\* one it is at has been stored.
ThreadInv(t) ==
    Works(t) =>
        LET n == thread[t].number
        IN /\ n \in Number \ todo
           /\ outcome[n] = "none"
           /\ thread[t].job <= JobsOf(program)
           /\ thread[t].ok => \A j \in 1 .. (thread[t].job - 1) : <<n, j>> \in stored

Apart ==
    \A t, u \in Thread :
        t # u /\ Works(t) /\ Works(u) =>
            program = "pool" /\ thread[t].number # thread[u].number

\* A number without an answer is waiting or worked on.
Awaited ==
    \A n \in Number :
        /\ outcome[n] = "none" => n \in todo \/ \E t \in Thread : Works(t) /\ thread[t].number = n
        /\ n \in todo => outcome[n] = "none"

\* A task that has ended has left no thread at work.
EndedInv ==
    task # "running" =>
        /\ \A t \in Thread : ~Works(t)
        /\ task = "success" /\ program # "statutes" => todo = {}

\* What is left of a captcha, until the executor's loop raises it.
BlockedInv ==
    blocked =>
        /\ program = "sequential" => task = "failed"
        /\ program = "statutes" => task # "running"
        /\ program = "pool" =>
              \/ task = "failed"
              \/ task = "running" /\ \E n \in Number : outcome[n] = "captcha"

Inv ==
    /\ TypeOK
    /\ \A t \in Thread : ThreadInv(t)
    /\ Apart
    /\ Awaited
    /\ ReportIsTrue
    /\ EndedInv
    /\ BlockedInv

------------------------------------------------------------------------------
LEMMA InitEstablishes == Init => Inv
<1> SUFFICES ASSUME Init PROVE Inv
  OBVIOUS
<1> USE DEF Init, Idle
<1>1. TypeOK
  <2>1. Idle \in Activity
    BY DEF Activity
  <2>2. thread \in [Thread -> Activity]
    BY <2>1
  <2>3. QED
    BY <2>2 DEF TypeOK, Outcome, Activity
<1>2. \A t \in Thread : ~Works(t)
  BY DEF Works
<1>3. QED
  BY <1>1, <1>2 DEF Inv, ThreadInv, Apart, Awaited, ReportIsTrue, EndedInv, BlockedInv

\* What a step of a thread may do to the other variables.
Beside(t) ==
    /\ UNCHANGED <<fixed, check, todo>>
    /\ healthy' \subseteq healthy
    /\ stored \subseteq stored' /\ stored' \subseteq Number \X (1 .. Jobs)

LEMMA AwaitedKeeps ==
    ASSUME Awaited, UNCHANGED <<todo, outcome>>,
           \A t \in Thread : Works(t)' = Works(t) /\ thread'[t].number = thread[t].number
    PROVE  Awaited'
<1>1. ASSUME NEW n \in Number, outcome[n] = "none", n \notin todo
      PROVE  \E t \in Thread : Works(t)' /\ thread'[t].number = n
  <2>1. PICK t \in Thread : Works(t) /\ thread[t].number = n
    BY <1>1 DEF Awaited
  <2>2. Works(t)' /\ thread'[t].number = n
    BY <2>1
  <2>3. QED
    BY <2>2
<1>2. QED
  BY <1>1 DEF Awaited

\* Another attempt at the same page, or its next request.
LEMMA SameJobKeeps ==
    ASSUME NEW t \in Thread, Inv, Works(t), Beside(t), UNCHANGED <<task, outcome, blocked>>,
           NEW at \in {"picking", "requesting"}, NEW attempt \in 1 .. MaxRetries,
           NEW via \in Proxy \cup {Direct},
           thread' = [thread EXCEPT ![t].at = at, ![t].attempt = attempt, ![t].via = via]
    PROVE  Inv'
<1> USE DEF Inv, Beside, fixed
<1>1. TypeOK'
  <2> DEFINE next == [thread[t] EXCEPT !.at = at, !.attempt = attempt, !.via = via]
  <2>1. thread \in [Thread -> Activity]
    BY DEF TypeOK, Activity
  <2>2. next \in Activity
    BY <2>1 DEF Activity
  <2>3. thread' = [thread EXCEPT ![t] = next]
    BY <2>1
  <2>4. thread' \in [Thread -> Activity]
    BY <2>1, <2>2, <2>3
  <2>5. QED
    BY <2>4 DEF TypeOK, Activity
<1>2. /\ thread'[t].at = at /\ thread'[t].number = thread[t].number
      /\ thread'[t].job = thread[t].job /\ thread'[t].ok = thread[t].ok
      /\ \A u \in Thread \ {t} : thread'[u] = thread[u]
  BY DEF TypeOK
<1>3. \A u \in Thread : Works(u)' = Works(u) /\ thread'[u].number = thread[u].number
      /\ thread'[u].job = thread[u].job /\ thread'[u].ok = thread[u].ok
  BY <1>2 DEF Works
<1>4. \A u \in Thread : ThreadInv(u)'
  BY <1>3, ZenonT(40) DEF ThreadInv, JobsOf
<1>5. Apart' /\ Awaited'
  <2>1. Apart'
    BY <1>3, ZenonT(40) DEF Apart
  <2>2. Awaited'
    BY <1>3, AwaitedKeeps
  <2>3. QED
    BY <2>1, <2>2
<1>6. ReportIsTrue'
  BY DEF ReportIsTrue, AllJobs, JobsOf
<1>7. EndedInv' /\ BlockedInv'
  BY <1>3 DEF EndedInv, BlockedInv
<1>8. QED
  BY <1>1, <1>4, <1>5, <1>6, <1>7

\* The thread is done with its number.
LEMMA NumberKeeps ==
    ASSUME NEW t \in Thread, Inv, Works(t), Beside(t), blocked' \in BOOLEAN,
           NEW answer \in Outcome \ {"none"},
           thread' = [thread EXCEPT ![t] = Idle],
           outcome' = [outcome EXCEPT ![thread[t].number] = answer],
           answer = "ok" => AllJobs(thread[t].number) \subseteq stored',
           task' \in {task, "success", "failed"},
           task' = "success" => program = "statutes" \/ task = "success",
           task' # task => program # "pool",
           blocked' # blocked =>
               /\ program = "sequential" => task' = "failed"
               /\ program = "statutes" => task' # "running"
               /\ program = "pool" => answer = "captcha"
    PROVE  Inv'
<1> DEFINE n == thread[t].number
<1> USE DEF Inv, Beside, fixed
<1>0. task = "running" /\ n \in Number \ todo /\ outcome[n] = "none"
  BY DEF EndedInv, TypeOK, ThreadInv
<1>1. TypeOK'
  <2>1. thread' \in [Thread -> Activity]
    BY DEF TypeOK, Idle, Activity
  <2>2. QED
    BY <1>0, <2>1 DEF TypeOK, Activity
<1>2. /\ ~Works(t)'
      /\ \A u \in Thread \ {t} : thread'[u] = thread[u] /\ Works(u)' = Works(u)
  BY DEF TypeOK, Idle, Works
<1>3. outcome'[n] = answer /\ \A m \in Number \ {n} : outcome'[m] = outcome[m]
  BY <1>0 DEF TypeOK
<1>4. ASSUME NEW u \in Thread PROVE ThreadInv(u)'
  BY <1>0, <1>2, <1>3 DEF ThreadInv, Apart, JobsOf
<1>5. Apart'
  BY <1>2 DEF Apart
<1>6. Awaited'
  BY <1>0, <1>2, <1>3 DEF Awaited
<1>7. ReportIsTrue'
  BY <1>0, <1>3 DEF ReportIsTrue, AllJobs, JobsOf
<1>8. EndedInv'
  BY <1>0, <1>2 DEF EndedInv, Apart
<1>9. BlockedInv'
  BY <1>0, <1>3 DEF BlockedInv, TypeOK
<1>10. QED
  BY <1>1, <1>4, <1>5, <1>6, <1>7, <1>8, <1>9

\* The next page of the number is begun.
LEMMA NextPageKeeps ==
    ASSUME NEW t \in Thread, Inv, Works(t), Beside(t), UNCHANGED <<task, outcome, blocked>>,
           NEW ok \in BOOLEAN, thread[t].job < JobsOf(program),
           ok => thread[t].ok /\ <<thread[t].number, thread[t].job>> \in stored',
           thread' = [thread EXCEPT ![t] =
                         [Idle EXCEPT !.at = "picking", !.number = thread[t].number,
                                      !.job = thread[t].job + 1, !.ok = ok]]
    PROVE  Inv'
<1> DEFINE n == thread[t].number
           next == [Idle EXCEPT !.at = "picking", !.number = n,
                                !.job = thread[t].job + 1, !.ok = ok]
<1> USE DEF Inv, Beside, fixed
<1>1. thread[t] \in Activity /\ JobsOf(program) \in 1 .. Jobs
  BY DEF TypeOK, Activity, JobsOf
<1>2. /\ next \in Activity /\ next.at = "picking" /\ next.number = n
      /\ next.job = thread[t].job + 1 /\ next.ok = ok
  <2>1. n \in Number \cup {Nothing} /\ thread[t].job + 1 \in 1 .. Jobs
    BY <1>1 DEF Activity
  <2>2. Idle \in Activity
    BY DEF Idle, Activity
  <2>3. next \in Activity
    BY <2>1, <2>2 DEF Activity
  <2>4. QED
    BY <2>3 DEF Idle
<1>3. thread'[t] = next /\ \A u \in Thread \ {t} : thread'[u] = thread[u]
  BY DEF TypeOK
<1>4. TypeOK'
  <2>1. thread' \in [Thread -> Activity]
    BY <1>2 DEF TypeOK, Activity
  <2>2. QED
    BY <2>1 DEF TypeOK, Activity
<1>5. \A u \in Thread : Works(u)' = Works(u) /\ thread'[u].number = thread[u].number
  BY <1>2, <1>3 DEF Works
<1>6. ASSUME NEW u \in Thread PROVE ThreadInv(u)'
  <2>1. CASE u = t
    <3>1. ok => \A j \in 1 .. thread[t].job : <<n, j>> \in stored'
      BY <1>1 DEF ThreadInv, Activity
    <3>2. QED
      BY <1>1, <1>2, <1>3, <2>1, <3>1 DEF ThreadInv, JobsOf, Activity
  <2>2. CASE u # t
    BY <1>3, <1>5, <2>2 DEF ThreadInv, JobsOf
  <2>3. QED
    BY <2>1, <2>2
<1>7. Apart'
  BY <1>5 DEF Apart
<1>8. Awaited'
  BY <1>5, AwaitedKeeps
<1>9. ReportIsTrue'
  BY DEF ReportIsTrue, AllJobs, JobsOf
<1>10. EndedInv' /\ BlockedInv'
  BY <1>5 DEF EndedInv, BlockedInv
<1>11. QED
  BY <1>4, <1>6, <1>7, <1>8, <1>9, <1>10

LEMMA EndJobKeeps ==
    ASSUME NEW t \in Thread, Inv, Works(t), Beside(t), NEW ok \in BOOLEAN, NEW reason,
           EndJob(t, ok, reason),
           ok => <<thread[t].number, thread[t].job>> \in stored',
           \/ UNCHANGED blocked
           \/ blocked' = TRUE /\ program = "statutes" /\ reason = "CAPTCHA_SUSPECT"
    PROVE  Inv'
<1>1. thread[t] \in Activity /\ JobsOf(program) \in 1 .. Jobs /\ thread[t].job <= JobsOf(program)
  BY DEF Inv, TypeOK, ThreadInv, Activity, JobsOf
<1>2. AllOk(t, ok) \in BOOLEAN /\ (AllOk(t, ok) => thread[t].ok /\ ok)
  BY <1>1 DEF AllOk, Activity
<1>3. CASE thread[t].job < JobsOf(program)
  <2>1. program # "statutes"
    BY <1>1, <1>3 DEF JobsOf, Activity
  <2>2. QED
    BY <1>2, <1>3, <2>1, NextPageKeeps DEF EndJob
<1>4. CASE ~(thread[t].job < JobsOf(program))
  <2>1. thread[t].job = JobsOf(program)
    BY <1>1, <1>4 DEF Activity
  <2> DEFINE answer == IF AllOk(t, ok) THEN "ok" ELSE "failed"
  <2>2. answer = "ok" => AllJobs(thread[t].number) \subseteq stored'
    <3>1. ASSUME AllOk(t, ok), NEW j \in 1 .. JobsOf(program)
          PROVE  <<thread[t].number, j>> \in stored'
      BY <1>1, <1>2, <2>1, <3>1 DEF Inv, ThreadInv, Beside, Activity
    <3>2. QED
      BY <3>1 DEF AllJobs
  <2>3. /\ task' \in {task, "success"} /\ (task' # task => program = "statutes")
        /\ blocked' # blocked => program = "statutes" /\ task' = "success"
    BY DEF EndJob, Escalates, Inv, TypeOK
  <2>4. /\ thread' = [thread EXCEPT ![t] = Idle]
        /\ outcome' = [outcome EXCEPT ![thread[t].number] = answer]
        /\ answer \in Outcome \ {"none"}
        /\ blocked' \in BOOLEAN
    BY <1>4 DEF EndJob, Outcome, Inv, TypeOK
  <2>5. QED
    BY <2>2, <2>3, <2>4, NumberKeeps
<1>5. QED
  BY <1>3, <1>4

LEMMA RaiseKeeps ==
    ASSUME NEW t \in Thread, Inv, Works(t), Beside(t),
           NEW error \in {"captcha", "worker_error"}, Raise(t, error),
           UNCHANGED blocked \/ (blocked' = TRUE /\ error = "captcha" /\ program # "statutes")
    PROVE  Inv'
<1>1. Kept(error) \in Outcome \ {"none", "ok"} /\ (program = "pool" => Kept(error) = error)
  BY DEF Kept, Outcome
<1>2. /\ task' \in {task, "failed"} /\ (task' # task => program # "pool")
      /\ program = "sequential" => task' = "failed"
  BY DEF Raise, AfterError
<1>3. /\ thread' = [thread EXCEPT ![t] = Idle]
      /\ outcome' = [outcome EXCEPT ![thread[t].number] = Kept(error)]
      /\ blocked' \in BOOLEAN
  BY DEF Raise, Inv, TypeOK
<1>4. QED
  BY <1>1, <1>2, <1>3, NumberKeeps

LEMMA RetryKeeps ==
    ASSUME NEW t \in Thread, Inv, Works(t), Beside(t), NEW r \in Response, NEW reason,
           Again(t, r, reason), UNCHANGED blocked
    PROVE  Inv'
<1>1. CASE AttemptsLeft(t, r)
  <2>1. NextAttempt(t, r) \in 1 .. MaxRetries
    BY <1>1 DEF AttemptsLeft, NextAttempt, Inv, TypeOK
  <2>2. QED
    BY <1>1, <2>1, SameJobKeeps DEF Again, Retry
<1>2. CASE ~AttemptsLeft(t, r)
  BY <1>2, EndJobKeeps DEF Again
<1>3. QED
  BY <1>1, <1>2

------------------------------------------------------------------------------
(* The steps.                                                              *)

LEMMA TakeKeeps ==
    ASSUME NEW t \in Thread, NEW n \in Number, Inv, Take(t, n)
    PROVE  Inv'
<1> USE DEF Inv, Take, fixed, pool
<1>0. ~Works(t) /\ outcome[n] = "none"
  BY DEF MayTake, Works, Awaited
<1>1. CASE n \in existing
  <2>1. TypeOK'
    BY <1>1 DEF TypeOK, Outcome
  <2>2. /\ outcome'[n] = "already_stored" /\ thread' = thread
        /\ \A m \in Number \ {n} : outcome'[m] = outcome[m]
    BY <1>1 DEF TypeOK
  <2>3. ASSUME NEW u \in Thread PROVE ThreadInv(u)'
    BY <2>2 DEF ThreadInv, Works, JobsOf
  <2>4. Apart' /\ Awaited' /\ ReportIsTrue'
    BY <2>2 DEF Apart, Awaited, ReportIsTrue, AllJobs, JobsOf, Works
  <2>5. EndedInv' /\ BlockedInv'
    BY <1>0, <2>2 DEF EndedInv, BlockedInv
  <2>6. QED
    BY <2>1, <2>3, <2>4, <2>5
<1>2. CASE n \notin existing
  <2> DEFINE next == [Idle EXCEPT !.at = "picking", !.number = n]
  <2>1. next \in Activity
    <3>1. Idle \in Activity
      BY DEF Idle, Activity
    <3>2. QED
      BY <3>1 DEF Activity
  <2>2. next.at = "picking" /\ next.number = n /\ next.job = 1
    BY DEF Idle
  <2>3. thread' = [thread EXCEPT ![t] = next] /\ outcome' = outcome
    BY <1>2
  <2>4. /\ thread'[t].at = "picking" /\ thread'[t].number = n /\ thread'[t].job = 1
        /\ \A u \in Thread \ {t} : thread'[u] = thread[u] /\ Works(u)' = Works(u)
    BY <2>2, <2>3 DEF TypeOK, Works
  <2>5. TypeOK'
    <3>1. thread' \in [Thread -> Activity]
      BY <2>1, <2>3 DEF TypeOK, Activity
    <3>2. QED
      BY <2>3, <3>1 DEF TypeOK, Activity
  <2>6. ASSUME NEW u \in Thread PROVE ThreadInv(u)'
    <3>1. CASE u = t
      <4>1. 1 <= JobsOf(program)' /\ 1 .. (1 - 1) = {}
        BY DEF JobsOf
      <4>2. n \in Number \ todo' /\ outcome'[n] = "none"
        BY <1>0, <2>3
      <4>3. QED
        BY <2>4, <3>1, <4>1, <4>2 DEF ThreadInv
    <3>2. CASE u # t
      BY <2>3, <2>4, <3>2 DEF ThreadInv, JobsOf
    <3>3. QED
      BY <3>1, <3>2
  <2>7. Apart'
    <3>1. \A u \in Thread \ {t} : Works(u) => program = "pool" /\ thread[u].number # n
      BY DEF ThreadInv, MayTake, Busy, Works
    <3>2. \A u, v \in Thread : u # t /\ v # t /\ u # v /\ Works(u)' /\ Works(v)' =>
              program = "pool" /\ thread'[u].number # thread'[v].number
      BY <2>4 DEF Apart
    <3>3. QED
      BY <2>4, <3>1, <3>2 DEF Apart
  <2>8. Awaited'
    <3>1. Works(t)' /\ thread'[t].number = n
      BY <2>4 DEF Works
    <3>2. ASSUME NEW m \in Number, outcome[m] = "none", m \notin todo
          PROVE  \E u \in Thread : Works(u)' /\ thread'[u].number = m
      <4>1. PICK u \in Thread : Works(u) /\ thread[u].number = m
        BY <3>2 DEF Awaited
      <4>2. u # t
        BY <1>0, <4>1
      <4>3. Works(u)' /\ thread'[u].number = m
        BY <2>4, <4>1, <4>2
      <4>4. QED
        BY <4>3
    <3>3. QED
      BY <2>3, <3>1, <3>2 DEF Awaited
  <2>9. ReportIsTrue'
    BY <2>3 DEF ReportIsTrue, AllJobs, JobsOf
  <2>10. EndedInv' /\ BlockedInv'
    BY <2>3 DEF EndedInv, BlockedInv
  <2>11. QED
    BY <2>5, <2>6, <2>7, <2>8, <2>9, <2>10
<1>3. QED
  BY <1>1, <1>2

LEMMA PickKeeps ==
    ASSUME NEW t \in Thread, Inv, Pick(t)
    PROVE  Inv'
<1>1. PICK p \in Exits : thread' = [thread EXCEPT ![t].at = "requesting", ![t].via = p]
  BY DEF Pick
<1>2. p \in Proxy \cup {Direct}
  BY DEF Exits, Inv, TypeOK
<1>3. thread[t] \in Activity
  BY DEF Inv, TypeOK, Activity
<1>4. thread' = [thread EXCEPT ![t].at = "requesting", ![t].attempt = thread[t].attempt,
                               ![t].via = p]
  BY <1>1, <1>3 DEF Inv, TypeOK
<1>5. Works(t) /\ Beside(t) /\ UNCHANGED <<task, outcome, blocked>>
      /\ thread[t].attempt \in 1 .. MaxRetries
  BY <1>3 DEF Pick, Works, Beside, pool, Inv, TypeOK, Activity
<1>6. QED
  BY <1>2, <1>4, <1>5, SameJobKeeps

LEMMA AnswerKeeps ==
    ASSUME NEW t \in Thread, NEW r \in Response, Inv, Answer(t, r)
    PROVE  Inv'
<1> DEFINE verdict == Decision(r)
           page == <<thread[t].number, thread[t].job>>
<1>1. Works(t)
  BY DEF Answer, Works
<1>2. page \in Number \X (1 .. Jobs)
  BY <1>1 DEF Inv, ThreadInv, TypeOK
<1>3. UNCHANGED <<fixed, check, todo>> /\ healthy' \subseteq healthy
  BY DEF Answer, HealthyAfter
<1>4. stored' = stored \/ stored' = stored \cup {page} => Beside(t)
  BY <1>2, <1>3 DEF Beside, Inv, TypeOK
<1>5. CASE verdict.reason = "CAPTCHA_SUSPECT"
  <2>1. Blocked(t)
    BY <1>5 DEF Answer
  <2>2. QED
    BY <1>1, <1>4, <2>1, EndJobKeeps, RaiseKeeps DEF Blocked
<1>6. CASE verdict.reason # "CAPTCHA_SUSPECT"
  <2>1. UNCHANGED blocked
    BY <1>6 DEF Answer
  <2>2. CASE Store(t, r, verdict.reason)
    <3>1. CASE stored' = stored \cup {page} /\ EndJob(t, TRUE, verdict.reason)
      BY <1>1, <1>4, <2>1, <3>1, EndJobKeeps
    <3>2. CASE /\ stored' = stored \/ stored' = stored \cup {page}
               /\ Raise(t, "worker_error")
      BY <1>1, <1>4, <2>1, <3>2, RaiseKeeps
    <3>3. QED
      BY <2>2, <3>1, <3>2 DEF Store
  <2>3. CASE EndJob(t, FALSE, verdict.reason) /\ UNCHANGED stored
    BY <1>1, <1>4, <2>1, <2>3, EndJobKeeps
  <2>4. CASE Again(t, r, verdict.reason) /\ UNCHANGED stored
    BY <1>1, <1>4, <2>1, <2>4, RetryKeeps
  <2>5. QED
    BY <1>6, <2>2, <2>3, <2>4 DEF Answer
<1>7. QED
  BY <1>5, <1>6

LEMMA NoProxyKeeps ==
    ASSUME NEW t \in Thread, Inv, NoProxy(t)
    PROVE  Inv'
<1>1. Works(t) /\ Beside(t) /\ UNCHANGED blocked
  BY DEF NoProxy, Works, Beside, pool, Inv, TypeOK
<1>2. [status |-> 0, body |-> "empty"] \in Response
  BY DEF Response
<1>3. QED
  BY <1>1, <1>2, RetryKeeps DEF NoProxy

LEMMA NextPreserves == Inv /\ [Next]_vars => Inv'
<1> SUFFICES ASSUME Inv, [Next]_vars PROVE Inv'
  OBVIOUS
<1> USE DEF Inv, TypeOK, ThreadInv, Works, Apart, Awaited, ReportIsTrue, AllJobs, JobsOf,
        EndedInv, BlockedInv, fixed, pool, requests
<1>1. ASSUME NEW t \in Thread, ThreadStep(t) PROVE Inv'
  BY <1>1, TakeKeeps, PickKeeps, NoProxyKeeps, AnswerKeeps DEF ThreadStep
<1>2. ASSUME NEW p \in Proxy, HealthCheck(p) PROVE Inv'
  BY <1>2 DEF HealthCheck
<1>3. CASE Finish
  <2>1. /\ UNCHANGED <<fixed, pool, todo, thread, stored, outcome, blocked>>
        /\ \A t \in Thread : ~Works(t)
        /\ todo = {}
    BY <1>3 DEF Finish, Busy
  <2>2. /\ task' = "failed" \/ task' = "success"
        /\ (\E n \in Number : outcome[n] = "captcha") => task' = "failed"
        /\ task = "running"
    BY <1>3 DEF Finish
  <2>3. EndedInv' /\ BlockedInv'
    BY <2>1, <2>2
  <2>4. QED
    BY <2>1, <2>2, <2>3
<1>4. CASE UNCHANGED vars
  BY <1>4 DEF vars
<1>5. QED
  BY <1>1, <1>2, <1>3, <1>4 DEF Next

------------------------------------------------------------------------------
\* The facts about threads, numbers and captchas that hold in every reachable state.
THEOREM Invariant == Spec => []Inv
BY InitEstablishes, NextPreserves, PTL DEF Spec

\* Every variable of a task keeps its type: no job makes more than MaxRetries attempts.
THEOREM TypeCorrect == Spec => []TypeOK
<1>1. Inv => TypeOK
  BY DEF Inv
<1>2. QED
  BY <1>1, Invariant, PTL

\* A number reported ok has every page of it stored by the task that reports it.
THEOREM ReportsAreTrue == Spec => []ReportIsTrue
<1>1. Inv => ReportIsTrue
  BY DEF Inv
<1>2. QED
  BY <1>1, Invariant, PTL

\* A task that succeeds has an answer for each of its numbers, or was one of statutes.
THEOREM SuccessIsComplete == Spec => []SuccessAnswersAll
<1>1. Inv => SuccessAnswersAll
  BY DEF Inv, EndedInv, Awaited, SuccessAnswersAll
<1>2. QED
  BY <1>1, Invariant, PTL

\* A captcha fails the task, in whichever thread and however late it is met.
THEOREM CaptchasFail == Spec => []CaptchaFailsTask
<1>1. Inv => CaptchaFailsTask
  BY DEF Inv, TypeOK, BlockedInv, CaptchaFailsTask
<1>2. QED
  BY <1>1, Invariant, PTL

\* The programs with one request at a time are silent after a block.
THEOREM BlocksSilence == Spec => StopsAtBlock
<1> DEFINE Silent == (blocked \/ task # "running") /\ program \in {"sequential", "statutes"}
                        => UNCHANGED requests
<1>1. ASSUME Inv, [Next]_vars PROVE Silent
  <2> SUFFICES ASSUME blocked \/ task # "running", program \in {"sequential", "statutes"}
               PROVE  UNCHANGED requests
    OBVIOUS
  <2>1. task # "running" /\ \A t \in Thread : thread[t].at = "idle"
    BY <1>1 DEF Inv, EndedInv, BlockedInv, Works
  <2>2. ASSUME NEW t \in Thread, ThreadStep(t) PROVE FALSE
    BY <2>1, <2>2 DEF ThreadStep, Take, Pick, NoProxy, Answer
  <2>3. QED
    BY <1>1, <2>2 DEF Next, HealthCheck, Finish, vars, requests
<1>2. QED
  BY <1>1, Invariant, PTL DEF Spec, StopsAtBlock

------------------------------------------------------------------------------
(***************************************************************************)
(* The steps of ScrapeBySource.                                            *)
(***************************************************************************)

\* Pages are stored in the order of their jobs, and a captcha leaves one out.
PagesBehind ==
    /\ program # "statutes" => existing = {}
    /\ \A t \in Thread : Works(t) => thread[t].number \notin existing
    /\ \A n \in Number, j \in 1 .. Jobs :
          <<n, j>> \in stored =>
              /\ n \notin todo
              /\ \A t \in Thread : Works(t) /\ thread[t].number = n => j < thread[t].job
    /\ \A n \in Number :
          outcome[n] = "captcha" =>
              /\ n \notin existing
              /\ \E j \in 1 .. JobsOf(program) : <<n, j>> \notin stored

PageOf(t) == <<thread[t].number, thread[t].job>>
MayStore(t) == stored' = stored \/ stored' = stored \cup {PageOf(t)}

\* How a step of a thread leaves its number: under way, at some page, or answered.
UnderWay(t, job) ==
    /\ UNCHANGED <<outcome, task>>
    /\ Works(t)' /\ thread'[t].number = thread[t].number /\ thread'[t].job = job

Answered(t, answer, to) ==
    /\ ~Works(t)'
    /\ outcome' = [outcome EXCEPT ![thread[t].number] = answer]
    /\ task' = to

Effect(t) ==
    \/ UnderWay(t, thread[t].job) /\ UNCHANGED stored
    \/ thread[t].job < JobsOf(program) /\ UnderWay(t, thread[t].job + 1) /\ MayStore(t)
    \/ /\ Answered(t, "ok", task)
       /\ thread[t].ok /\ thread[t].job = JobsOf(program)
       /\ stored' = stored \cup {PageOf(t)}
    \/ \E answer \in {"failed", "worker_error"} : Answered(t, answer, task) /\ MayStore(t)
    \/ program = "statutes" /\ Answered(t, "failed", "success") /\ UNCHANGED stored
    \/ program = "pool" /\ Answered(t, "captcha", task) /\ UNCHANGED stored
    \/ /\ program \in {"sequential", "statutes"}
       /\ \/ Answered(t, "captcha", "failed") /\ UNCHANGED stored
          \/ Answered(t, "worker_error", "failed") /\ MayStore(t)

LEMMA EndJobEffect ==
    ASSUME NEW t \in Thread, Inv, Works(t), NEW ok \in BOOLEAN, NEW reason,
           EndJob(t, ok, reason),
           IF ok THEN stored' = stored \cup {PageOf(t)} /\ ~Escalates(reason)
           ELSE UNCHANGED stored
    PROVE  Effect(t) /\ \A u \in Thread \ {t} : thread'[u] = thread[u]
<1> DEFINE n == thread[t].number
           next == [Idle EXCEPT !.at = "picking", !.number = n, !.job = thread[t].job + 1,
                                !.ok = AllOk(t, ok)]
<1>1. /\ thread[t] \in Activity /\ JobsOf(program) \in 1 .. Jobs
      /\ thread[t].job <= JobsOf(program) /\ thread \in [Thread -> Activity]
  BY DEF Inv, TypeOK, ThreadInv, Activity, JobsOf
<1>2. CASE thread[t].job < JobsOf(program)
  <2>1. program # "statutes"
    BY <1>1, <1>2 DEF JobsOf, Activity
  <2>2. thread' = [thread EXCEPT ![t] = next] /\ UNCHANGED <<outcome, task>>
    BY <1>2, <2>1 DEF EndJob
  <2>3. next.at = "picking" /\ next.number = n /\ next.job = thread[t].job + 1
    BY DEF Idle
  <2>4. thread'[t] = next /\ \A u \in Thread \ {t} : thread'[u] = thread[u]
    BY <1>1, <2>2
  <2>5. UnderWay(t, thread[t].job + 1)
    BY <2>2, <2>3, <2>4 DEF UnderWay, Works
  <2>6. QED
    BY <1>2, <2>4, <2>5 DEF Effect, MayStore
<1>3. CASE ~(thread[t].job < JobsOf(program))
  <2> DEFINE answer == IF AllOk(t, ok) THEN "ok" ELSE "failed"
  <2>1. thread[t].job = JobsOf(program)
    BY <1>1, <1>3 DEF Activity
  <2>2. thread' = [thread EXCEPT ![t] = Idle] /\ outcome' = [outcome EXCEPT ![n] = answer]
    BY <1>3 DEF EndJob
  <2>3. ~Works(t)' /\ \A u \in Thread \ {t} : thread'[u] = thread[u]
    BY <1>1, <2>2 DEF Works, Idle
  <2>4. Answered(t, answer, task')
    BY <2>2, <2>3 DEF Answered
  <2>5. task' = task \/ (program = "statutes" /\ Escalates(reason) /\ task' = "success")
    BY DEF EndJob
  <2>6. CASE AllOk(t, ok)
    <3>1. ok /\ thread[t].ok /\ answer = "ok"
      BY <2>6 DEF AllOk
    <3>2. QED
      BY <2>1, <2>3, <2>4, <2>5, <3>1 DEF Effect
  <2>7. CASE ~AllOk(t, ok)
    <3>1. answer = "failed"
      BY <2>7
    <3>2. QED
      BY <2>3, <2>4, <2>5, <3>1 DEF Effect, MayStore
  <2>8. QED
    BY <2>6, <2>7
<1>4. QED
  BY <1>2, <1>3

LEMMA RaiseEffect ==
    ASSUME NEW t \in Thread, Inv, Works(t), NEW error \in {"captcha", "worker_error"},
           Raise(t, error), MayStore(t), error = "captcha" => UNCHANGED stored
    PROVE  Effect(t) /\ \A u \in Thread \ {t} : thread'[u] = thread[u]
<1>1. ~Works(t)' /\ \A u \in Thread \ {t} : thread'[u] = thread[u]
  BY DEF Raise, Works, Idle, Inv, TypeOK
<1>2. Answered(t, Kept(error), AfterError)
  BY <1>1 DEF Answered, Raise
<1>3. CASE program = "batch"
  BY <1>1, <1>2, <1>3 DEF Effect, Kept, AfterError
<1>4. CASE program = "pool"
  BY <1>1, <1>2, <1>4 DEF Effect, Kept, AfterError
<1>5. CASE program \in {"sequential", "statutes"}
  BY <1>1, <1>2, <1>5 DEF Effect, Kept, AfterError
<1>6. QED
  BY <1>3, <1>4, <1>5 DEF Inv, TypeOK

LEMMA RetryEffect ==
    ASSUME NEW t \in Thread, Inv, Works(t), NEW r, NEW reason, Again(t, r, reason),
           UNCHANGED stored
    PROVE  Effect(t) /\ \A u \in Thread \ {t} : thread'[u] = thread[u]
<1>1. CASE AttemptsLeft(t, r)
  <2>1. /\ UNCHANGED <<task, outcome>>
        /\ thread'[t].at = "picking" /\ thread'[t].number = thread[t].number
        /\ thread'[t].job = thread[t].job
        /\ \A u \in Thread \ {t} : thread'[u] = thread[u]
    BY <1>1 DEF Again, Retry, Inv, TypeOK
  <2>2. QED
    BY <2>1 DEF Effect, UnderWay, Works
<1>2. CASE ~AttemptsLeft(t, r)
  BY <1>2, EndJobEffect DEF Again
<1>3. QED
  BY <1>1, <1>2

\* Only a page that passed every check of validate_fetch goes to the store.
LEMMA StoreReason ==
    ASSUME NEW r \in Response, Decision(r).action = "STORE"
    PROVE  Decision(r).reason = "HTTP_2XX"
<1>1. Decision(r) \in
        {Verdict("STORE", "HTTP_2XX"), Verdict("RETRY", "FETCH_ERROR"), Verdict("DROP", "HTTP_404"),
         Verdict("RETRY", "CAPTCHA_SUSPECT"), Verdict("RETRY", "HTTP_4XX"),
         Verdict("DROP", "HTTP_4XX"), Verdict("RETRY", "HTTP_5XX"), Verdict("DROP", "HTTP_OTHER"),
         Verdict("RETRY", "EMPTY_BODY"), Verdict("DROP", "CONTENT_TYPE_MISMATCH"),
         Verdict("DROP", "HTML_ERROR_MARKER")}
  BY DEF Decision
<1>2. QED
  BY <1>1 DEF Verdict

LEMMA RequestEffect ==
    ASSUME NEW t \in Thread, Inv, NoProxy(t) \/ \E r \in Response : Answer(t, r)
    PROVE  /\ Works(t) /\ UNCHANGED <<fixed, todo>> /\ Effect(t)
           /\ \A u \in Thread \ {t} : thread'[u] = thread[u]
<1>1. CASE NoProxy(t)
  <2>1. Works(t)
    BY <1>1 DEF NoProxy, Works
  <2>2. QED
    BY <1>1, <2>1, RetryEffect DEF NoProxy
<1>2. ASSUME NEW r \in Response, Answer(t, r)
      PROVE  /\ Works(t) /\ UNCHANGED <<fixed, todo>> /\ Effect(t)
             /\ \A u \in Thread \ {t} : thread'[u] = thread[u]
  <2> DEFINE verdict == Decision(r)
  <2>1. Works(t) /\ UNCHANGED <<fixed, todo>>
    BY <1>2 DEF Answer, Works
  <2>2. CASE verdict.reason = "CAPTCHA_SUSPECT"
    <3>1. Blocked(t)
      BY <1>2, <2>2 DEF Answer
    <3>2. CASE program = "statutes"
      BY <2>1, <3>1, <3>2, EndJobEffect DEF Blocked
    <3>3. CASE program # "statutes"
      BY <2>1, <3>1, <3>3, RaiseEffect DEF Blocked, MayStore
    <3>4. QED
      BY <3>2, <3>3
  <2>3. CASE verdict.reason # "CAPTCHA_SUSPECT"
    <3>1. CASE verdict.action = "STORE" /\ Store(t, r, verdict.reason)
      <4>1. ~Escalates(verdict.reason)
        BY <3>1, StoreReason DEF Escalates
      <4>2. CASE stored' = stored \cup {PageOf(t)} /\ EndJob(t, TRUE, verdict.reason)
        BY <2>1, <4>1, <4>2, EndJobEffect
      <4>3. CASE MayStore(t) /\ Raise(t, "worker_error")
        BY <2>1, <4>3, RaiseEffect
      <4>4. QED
        BY <3>1, <4>2, <4>3 DEF Store, MayStore, PageOf
    <3>2. CASE EndJob(t, FALSE, verdict.reason) /\ UNCHANGED stored
      BY <2>1, <3>2, EndJobEffect
    <3>3. CASE Again(t, r, verdict.reason) /\ UNCHANGED stored
      BY <2>1, <3>3, RetryEffect
    <3>4. QED
      BY <1>2, <2>3, <3>1, <3>2, <3>3 DEF Answer
  <2>4. QED
    BY <2>2, <2>3
<1>3. QED
  BY <1>1, <1>2

LEMMA NextKeepsBehind == Inv /\ PagesBehind /\ [Next]_vars => PagesBehind'
<1> SUFFICES ASSUME Inv, PagesBehind, [Next]_vars PROVE PagesBehind'
  OBVIOUS
<1> USE DEF Inv, PagesBehind, fixed
<1>1. ASSUME NEW t \in Thread, NEW n \in Number, Take(t, n) PROVE PagesBehind'
  <2>1. UNCHANGED <<fixed, stored>> /\ todo' \subseteq todo
    BY <1>1 DEF Take
  <2>2. \A m \in Number : outcome'[m] = "captcha" => outcome[m] = "captcha"
    BY <1>1 DEF Take, TypeOK
  <2>3. ASSUME NEW u \in Thread, Works(u)'
        PROVE  \/ Works(u) /\ thread'[u] = thread[u]
               \/ thread'[u].number = n /\ n \notin existing /\ n \in todo
    <3>1. CASE n \in existing
      BY <1>1, <2>3, <3>1 DEF Take, Works
    <3>2. CASE n \notin existing
      <4> DEFINE next == [Idle EXCEPT !.at = "picking", !.number = n]
      <4>1. next.number = n
        BY DEF Idle
      <4>2. thread' = [thread EXCEPT ![t] = next] /\ n \in todo
        BY <1>1, <3>2 DEF Take
      <4>3. thread'[t] = next /\ \A v \in Thread \ {t} : thread'[v] = thread[v]
        BY <4>2 DEF TypeOK
      <4>4. QED
        BY <2>3, <3>2, <4>1, <4>2, <4>3 DEF Works
    <3>3. QED
      BY <3>1, <3>2
  <2>4. QED
    BY <2>1, <2>2, <2>3 DEF JobsOf
<1>2. ASSUME NEW t \in Thread, Pick(t) PROVE PagesBehind'
  <2>1. \A u \in Thread : /\ Works(u)' = Works(u) /\ thread'[u].number = thread[u].number
                          /\ thread'[u].job = thread[u].job
    BY <1>2 DEF Pick, Works, TypeOK
  <2>2. QED
    BY <1>2, <2>1, ZenonT(40) DEF Pick, JobsOf
<1>3. ASSUME NEW t \in Thread, NoProxy(t) \/ \E r \in Response : Answer(t, r)
      PROVE  PagesBehind'
  <2> DEFINE n == thread[t].number
             j == thread[t].job
  <2>1. /\ Works(t) /\ UNCHANGED <<fixed, todo>> /\ Effect(t)
        /\ \A u \in Thread \ {t} : thread'[u] = thread[u]
    BY <1>3, RequestEffect
  <2>2. n \in Number \ todo /\ outcome[n] = "none" /\ j \in 1 .. JobsOf(program)
    BY <2>1 DEF ThreadInv, TypeOK
  <2>3. JobsOf(program)' = JobsOf(program) /\ JobsOf(program) \in 1 .. Jobs
    BY <2>1 DEF JobsOf
  <2>4. <<n, j>> \notin stored
    BY <2>1, <2>2, <2>3
  <2>5. MayStore(t) /\ (Works(t)' => thread'[t].number = n /\ thread'[t].job >= j)
    BY <2>1, <2>2, <2>3 DEF Effect, MayStore, UnderWay, Answered
  <2>6. stored' # stored => ~Works(t)' \/ thread'[t].job > j
    BY <2>1, <2>2, <2>3 DEF Effect, UnderWay, Answered
  <2>7. \A m \in Number \ {n} : outcome'[m] = outcome[m]
    BY <2>1 DEF Effect, UnderWay, Answered, TypeOK
  <2>8. outcome'[n] = "captcha" => stored' = stored
    BY <2>1, <2>2 DEF Effect, UnderWay, Answered, TypeOK
  <2>9. \A u \in Thread : Works(u)' => thread'[u].number \notin existing'
    BY <2>1, <2>5 DEF Works
  <2>10. ASSUME NEW m \in Number, NEW k \in 1 .. Jobs, <<m, k>> \in stored'
         PROVE  /\ m \notin todo'
                /\ \A u \in Thread : Works(u)' /\ thread'[u].number = m => k < thread'[u].job
    <3>1. CASE <<m, k>> \in stored
      <4>1. /\ m \notin todo'
            /\ \A u \in Thread : Works(u) /\ thread[u].number = m => k < thread[u].job
        BY <2>1, <3>1
      <4>2. (thread'[t].job \in Nat /\ j \in Nat) \/ ~Works(t)'
        BY <2>1, <2>2, <2>3 DEF Effect, UnderWay, Answered
      <4>3. QED
        BY <2>1, <2>5, <4>1, <4>2 DEF Works
    <3>2. CASE <<m, k>> \notin stored
      <4>1. m = n /\ k = j /\ stored' # stored
        BY <2>5, <2>10, <3>2 DEF MayStore, PageOf
      <4>2. \A u \in Thread \ {t} : Works(u) => thread[u].number # n
        BY <2>1 DEF Apart
      <4>3. QED
        BY <2>1, <2>2, <2>6, <4>1, <4>2 DEF Works
    <3>3. QED
      BY <3>1, <3>2
  <2>11. ASSUME NEW m \in Number, outcome'[m] = "captcha"
         PROVE  /\ m \notin existing'
                /\ \E k \in 1 .. JobsOf(program)' : <<m, k>> \notin stored'
    <3>1. CASE m = n
      BY <2>1, <2>2, <2>3, <2>4, <2>8, <2>11, <3>1
    <3>2. CASE m # n
      <4>1. PICK k \in 1 .. JobsOf(program) : <<m, k>> \notin stored
        BY <2>7, <2>11, <3>2
      <4>2. m \notin existing'
        BY <2>1, <2>7, <2>11, <3>2
      <4>3. QED
        BY <2>3, <2>5, <3>2, <4>1, <4>2 DEF MayStore, PageOf
    <3>3. QED
      BY <3>1, <3>2
  <2>12. QED
    BY <2>1, <2>9, <2>10, <2>11
<1>4. ASSUME NEW p \in Proxy, HealthCheck(p) PROVE PagesBehind'
  BY <1>4 DEF HealthCheck, Works, JobsOf
<1>5. CASE Finish \/ UNCHANGED vars
  BY <1>5 DEF Finish, vars, Works, JobsOf
<1>6. QED
  BY <1>1, <1>2, <1>3, <1>4, <1>5 DEF Next, ThreadStep

\* A page is stored only while its number is worked on, in the order of the pages, and a
\* number that a captcha has stopped lacks one.
THEOREM PagesInOrder == Spec => [](Inv /\ PagesBehind)
<1>1. Init => PagesBehind
  <2> SUFFICES ASSUME Init PROVE PagesBehind
    OBVIOUS
  <2>1. \A t \in Thread : ~Works(t)
    BY DEF Init, Works, Idle
  <2>2. QED
    BY <2>1 DEF Init, PagesBehind
<1>2. QED
  BY <1>1, InitEstablishes, NextPreserves, NextKeepsBehind, PTL DEF Spec

\* The pages of a number as ScrapeBySource names them.
OwnPages(n) == {page \in SitePages : page[1] = n /\ page[2] = SourceName}
PageNamed(n, j) == <<n, SourceName, IF j = JobsOf(program) THEN "main" ELSE "profile">>

LEMMA DagPages ==
    ASSUME NEW tor \in BOOLEAN
    PROVE  /\ Dag(tor)!Page = SitePages
           /\ \A n \in Number : Dag(tor)!PagesOf(n, SourceName) = OwnPages(n)
           /\ Dag(tor)!Source = {"statutes", "kbo"}
           /\ SourceName \in {"statutes", "kbo"}
<1>1. Dag(tor)!Source = {"statutes", "kbo"}
  BY DEF Dag!Source
<1>2. Dag(tor)!Page = SitePages
  BY <1>1 DEF Dag!Page, Dag!Pages, SitePages
<1>3. SourceName \in {"statutes", "kbo"} /\ Dag(tor)!Pages(SourceName) \subseteq {"main", "profile"}
  BY DEF SourceName, Dag!Pages
<1>4. ASSUME NEW n \in Number PROVE Dag(tor)!PagesOf(n, SourceName) = OwnPages(n)
  <2>1. OwnPages(n) = {page \in Dag(tor)!Page : page[1] = n /\ page[2] = SourceName}
    BY <1>2 DEF OwnPages
  <2>2. QED
    BY <1>1, <1>3, <2>1 DEF Dag!PagesOf, Dag!Page
<1>5. QED
  BY <1>1, <1>2, <1>3, <1>4

LEMMA PageNames ==
    ASSUME Jobs <= 2, NEW n \in Number
    PROVE  /\ \A j \in 1 .. JobsOf(program) :
                 PageNamed(n, j) \in OwnPages(n) /\ JobOf(PageNamed(n, j)[3]) = j
           /\ \A page \in OwnPages(n) :
                 /\ JobOf(page[3]) \in 1 .. JobsOf(program)
                 /\ page = PageNamed(n, JobOf(page[3]))
<1>1. Jobs \in {1, 2}
  OBVIOUS
<1>2. CASE program = "statutes"
  BY <1>1, <1>2 DEF OwnPages, PageNamed, JobOf, JobsOf, SourceName, SitePages
<1>3. CASE program # "statutes"
  BY <1>1, <1>3 DEF OwnPages, PageNamed, JobOf, JobsOf, SourceName, SitePages
<1>4. QED
  BY <1>2, <1>3

\* What is fetched of a number the task works on.
LEMMA FetchedPages ==
    ASSUME Jobs <= 2, NEW n \in Number, n \notin existing,
           NEW j \in 1 .. JobsOf(program)
    PROVE  PageNamed(n, j) \in Fetched <=> <<n, j>> \in stored
BY PageNames DEF Fetched, IsFetched, OwnPages, PageNamed

LEMMA FetchedGrows ==
    ASSUME Jobs <= 2, UNCHANGED fixed, NEW n \in Number, NEW j \in 1 .. JobsOf(program),
           stored' = stored \cup {<<n, j>>}
    PROVE  Fetched' = Fetched \cup {PageNamed(n, j)}
<1>1. ASSUME NEW page \in SitePages, page[2] = SourceName
      PROVE  page \in Fetched' <=> page \in Fetched \/ page = PageNamed(n, j)
  <2>1. page[1] \in Number /\ page \in OwnPages(page[1])
    BY <1>1 DEF SitePages, OwnPages
  <2>2. page = PageNamed(page[1], JobOf(page[3]))
    BY <2>1, PageNames
  <2>3. page = PageNamed(n, j) <=> page[1] = n /\ JobOf(page[3]) = j
    BY <2>2, PageNames DEF PageNamed
  <2>4. JobOf(page[3])' = JobOf(page[3]) /\ SourceName' = SourceName
    BY DEF JobOf, JobsOf, SourceName, fixed
  <2>5. QED
    BY <1>1, <2>3, <2>4 DEF Fetched, IsFetched, fixed
<1>2. Fetched' \subseteq SitePages /\ Fetched \subseteq SitePages /\ PageNamed(n, j) \in SitePages
  BY PageNames DEF Fetched, IsFetched, OwnPages, SitePages
<1>3. \A page \in Fetched \cup Fetched' \cup {PageNamed(n, j)} : page[2] = SourceName
  BY DEF Fetched, IsFetched, PageNamed, SourceName, fixed
<1>4. QED
  BY <1>1, <1>2, <1>3

LEMMA FetchedStays ==
    ASSUME UNCHANGED <<fixed, stored>>
    PROVE  Fetched' = Fetched
BY DEF Fetched, IsFetched, JobOf, JobsOf, SourceName, SitePages, fixed

------------------------------------------------------------------------------
(* Each step of ScrapeBySource, from what happens to the numbers and pages. *)

LEMMA OpenTask == \A n \in Open : n \in Number /\ task = "running"
BY DEF Open

LEMMA Storing ==
    ASSUME NEW tor \in BOOLEAN, NEW n \in Open, UNCHANGED fixed,
           NEW P \in SUBSET (OwnPages(n) \ Fetched), Fetched' = Fetched \cup P
    PROVE  /\ Dag(tor)!StorePages(SourceName, n, P)
           /\ Dag(tor)!PagesOf(n, SourceName) \ Of(Fetched, {}, {})[SourceName]
                 = OwnPages(n) \ Fetched
<1>1. n \in Number /\ task = "running" /\ SourceName \in {"statutes", "kbo"}
  BY OpenTask DEF SourceName
<1>2. /\ SiteTasks[SourceName] = "running" /\ Of(Open, {}, {})[SourceName] = Open
      /\ Of(Fetched, {}, {})[SourceName] = Fetched /\ SourceName' = SourceName
  BY <1>1 DEF SiteTasks, Of, SourceName, fixed
<1>3. Dag(tor)!PagesOf(n, SourceName) = OwnPages(n) /\ Dag(tor)!Page = SitePages
  BY <1>1, DagPages
<1>4. \A page \in P : page \in SitePages /\ page[2] = SourceName /\ page \notin Fetched
  BY DEF OwnPages
<1>5. SiteRows' = [page \in SitePages |->
                      IF page \in P /\ SiteRows[page] < Dag(tor)!Counted(page)
                      THEN SiteRows[page] + 1 ELSE SiteRows[page]]
  <2>1. \A page \in SitePages : SiteRows[page] \in {0, 1}
    BY DEF SiteRows, Fetched
  <2>2. \A page \in P : SiteRows[page] = 0 /\ 0 < Dag(tor)!Counted(page)
    BY <1>1, <1>4 DEF SiteRows, Fetched, Dag!Counted, Dag!MaxRows
  <2>3. \A page \in SitePages :
           page \in Fetched' \/ (page[2] = "kbo" /\ SourceName' = "statutes")
              <=> page \in P \/ page \in Fetched \/ (page[2] = "kbo" /\ SourceName = "statutes")
    BY <1>2
  <2>4. SiteRows' = [page \in SitePages |->
                        IF page \in P THEN 1 ELSE SiteRows[page]]
    BY <1>4, <2>3 DEF SiteRows, Fetched, SitePages
  <2>5. QED
    BY <2>1, <2>2, <2>4
<1>6. Of(Fetched, {}, {})' = [Of(Fetched, {}, {}) EXCEPT ![SourceName] = @ \cup P]
  BY <1>2 DEF Of
<1>7. QED
  BY <1>2, <1>3, <1>5, <1>6 DEF Dag!StorePages

LEMMA Unmoved ==
    ASSUME UNCHANGED fixed
    PROVE  /\ [n \in Number |-> "SCRAPING"]' = [n \in Number |-> "SCRAPING"]
           /\ Of(1, 1, 0)' = Of(1, 1, 0) /\ SourceName' = SourceName
           /\ (IF program = "statutes" THEN Number ELSE {})'
                 = IF program = "statutes" THEN Number ELSE {}
BY DEF Of, SourceName, fixed

LEMMA PageRefines ==
    ASSUME NEW tor \in BOOLEAN, NEW n \in Open, UNCHANGED <<fixed, task>>,
           NEW page \in OwnPages(n) \ Fetched, OwnPages(n) \ Fetched # {page},
           Fetched' = Fetched \cup {page}, Open' = Open, Succeeded' = Succeeded
    PROVE  Dag(tor)!Run(SourceName)
<1>1. /\ Dag(tor)!StorePages(SourceName, n, {page})
      /\ Dag(tor)!PagesOf(n, SourceName) \ Of(Fetched, {}, {})[SourceName] = OwnPages(n) \ Fetched
  BY Storing
<1>2. SiteTasks' = SiteTasks /\ Of(Open, {}, {})' = Of(Open, {}, {})
      /\ Of(Succeeded, Number, {})' = Of(Succeeded, Number, {})
  BY Unmoved DEF SiteTasks, Of
<1>3. Dag(tor)!ScrapePage(SourceName, n, page)
  BY <1>1, <1>2, Unmoved DEF Dag!ScrapePage
<1>4. page \in Dag(tor)!PagesOf(n, SourceName)
  BY DagPages, OpenTask
<1>5. QED
  BY <1>3, <1>4, OpenTask DEF Dag!Run

LEMMA SuccessRefines ==
    ASSUME NEW tor \in BOOLEAN, NEW n \in Open, UNCHANGED <<fixed, task>>,
           Fetched' = Fetched \cup OwnPages(n), Open' = Open \ {n},
           Succeeded' = Succeeded \cup {n}
    PROVE  Dag(tor)!Run(SourceName)
<1>1. /\ Dag(tor)!StorePages(SourceName, n, OwnPages(n) \ Fetched)
      /\ Dag(tor)!PagesOf(n, SourceName) \ Of(Fetched, {}, {})[SourceName] = OwnPages(n) \ Fetched
  BY Storing, SMTT(30)
<1>2. /\ SiteTasks' = SiteTasks
      /\ Of(Open, {}, {})' = [Of(Open, {}, {}) EXCEPT ![SourceName] = @ \ {n}]
      /\ Of(Succeeded, Number, {})'
            = [Of(Succeeded, Number, {}) EXCEPT ![SourceName] = @ \cup {n}]
  BY Unmoved DEF SiteTasks, Of
<1>3. Dag(tor)!ScrapeSucceeds(SourceName, n)
  BY <1>1, <1>2, Unmoved DEF Dag!ScrapeSucceeds, Dag!NextNumber
<1>4. QED
  BY <1>3, OpenTask DEF Dag!Run

LEMMA FailureRefines ==
    ASSUME NEW tor \in BOOLEAN, NEW n \in Open, UNCHANGED <<fixed, task>>,
           NEW P \in SUBSET (OwnPages(n) \ Fetched), OwnPages(n) \ Fetched # {},
           Fetched' = Fetched \cup P, Open' = Open \ {n}, Succeeded' = Succeeded
    PROVE  Dag(tor)!Run(SourceName)
<1>1. /\ Dag(tor)!StorePages(SourceName, n, P)
      /\ Dag(tor)!PagesOf(n, SourceName) \ Of(Fetched, {}, {})[SourceName] = OwnPages(n) \ Fetched
  BY Storing
<1>2. /\ SiteTasks' = SiteTasks
      /\ Of(Open, {}, {})' = [Of(Open, {}, {}) EXCEPT ![SourceName] = @ \ {n}]
      /\ Of(Succeeded, Number, {})' = Of(Succeeded, Number, {})
  BY Unmoved DEF SiteTasks, Of
<1>3. Dag(tor)!ScrapeFails(SourceName, n, P)
  BY <1>1, <1>2, Unmoved DEF Dag!ScrapeFails, Dag!NextNumber
<1>4. P \in SUBSET Dag(tor)!PagesOf(n, SourceName)
  BY DagPages, OpenTask
<1>5. QED
  BY <1>3, <1>4, OpenTask DEF Dag!Run

LEMMA RaisingRefines ==
    ASSUME NEW tor \in BOOLEAN, NEW n \in Open, UNCHANGED fixed, task' = "failed",
           NEW P \in SUBSET (OwnPages(n) \ Fetched), OwnPages(n) \ Fetched # {},
           Fetched' = Fetched \cup P
    PROVE  Dag(tor)!Run(SourceName)
<1>1. /\ Dag(tor)!StorePages(SourceName, n, P)
      /\ Dag(tor)!PagesOf(n, SourceName) \ Of(Fetched, {}, {})[SourceName] = OwnPages(n) \ Fetched
  BY Storing
<1>2. Dag(tor)!Retried(SourceName) = "retry"
  BY DEF Dag!Retried, Dag!MaxTries, Of, SourceName
<1>3. /\ SiteTasks' = [SiteTasks EXCEPT ![SourceName] = "retry"]
      /\ Of(Open, {}, {})' = [Of(Open, {}, {}) EXCEPT ![SourceName] = {}]
      /\ Of(Succeeded, Number, {})' = [Of(Succeeded, Number, {}) EXCEPT ![SourceName] = {}]
  BY Unmoved DEF SiteTasks, Of, Open, Succeeded, SourceName
<1>4. Dag(tor)!TaskRaises(SourceName, n, P)
  BY <1>1, <1>2, <1>3, Unmoved DEF Dag!TaskRaises, Dag!SetTask
<1>5. P \in SUBSET Dag(tor)!PagesOf(n, SourceName)
  BY DagPages, OpenTask
<1>6. QED
  BY <1>4, <1>5, OpenTask DEF Dag!Run

LEMMA StoppingRefines ==
    ASSUME NEW tor \in BOOLEAN, NEW n \in Open, UNCHANGED fixed, program = "statutes",
           task' = "success", OwnPages(n) \ Fetched # {}, Fetched' = Fetched,
           Succeeded' = Succeeded
    PROVE  Dag(tor)!Run(SourceName)
<1>1. /\ Dag(tor)!StorePages(SourceName, n, {})
      /\ Dag(tor)!PagesOf(n, SourceName) \ Of(Fetched, {}, {})[SourceName] = OwnPages(n) \ Fetched
  BY Storing, SMTT(30)
<1>2. SourceName = "statutes"
  BY DEF SourceName
<1>3. /\ SiteTasks' = [SiteTasks EXCEPT !["statutes"] = "success"]
      /\ Of(Open, {}, {})' = [Of(Open, {}, {}) EXCEPT !["statutes"] = {}]
      /\ Of(Succeeded, Number, {})' = Of(Succeeded, Number, {})
  BY <1>2, Unmoved DEF SiteTasks, Of, Open
<1>4. Dag(tor)!StopGracefully(n)
  BY <1>1, <1>2, <1>3, Unmoved DEF Dag!StopGracefully, Dag!SetTask
<1>5. QED
  BY <1>2, <1>4, OpenTask DEF Dag!Run

LEMMA EndingRefines ==
    ASSUME NEW tor \in BOOLEAN, UNCHANGED <<fixed, outcome, stored>>,
           task = "running", task' = "success", Open = {},
           SourceName = "kbo" => tor = FALSE
    PROVE  Dag(tor)!Run(SourceName)
<1>1. SourceName \in {"statutes", "kbo"}
  BY DEF SourceName
<1>2. Fetched' = Fetched /\ Succeeded' = Succeeded /\ Open' = {}
  BY FetchedStays DEF Succeeded, Open
<1>3. /\ SiteTasks' = [SiteTasks EXCEPT ![SourceName] = "success"]
      /\ SiteTasks[SourceName] = "running"
      /\ Of(Open, {}, {})' = Of(Open, {}, {}) /\ Of(Open, {}, {})[SourceName] = {}
      /\ Of(Fetched, {}, {})' = Of(Fetched, {}, {})
      /\ Of(Succeeded, Number, {})' = Of(Succeeded, Number, {})
      /\ SiteRows' = SiteRows
  BY <1>1, <1>2, Unmoved DEF SiteTasks, Of, SiteRows, Fetched, SitePages
<1>4. Dag(tor)!EndTask(SourceName)
  BY <1>3, Unmoved DEF Dag!EndTask, Dag!SetTask
<1>5. QED
  BY <1>4 DEF Dag!Run

LEMMA NothingSeen ==
    ASSUME NEW tor \in BOOLEAN, UNCHANGED <<fixed, task>>, Fetched' = Fetched, Open' = Open,
           Succeeded' = Succeeded
    PROVE  UNCHANGED Dag(tor)!vars
<1>1. /\ SiteTasks' = SiteTasks /\ SiteRows' = SiteRows
      /\ Of(Open, {}, {})' = Of(Open, {}, {}) /\ Of(Fetched, {}, {})' = Of(Fetched, {}, {})
      /\ Of(Succeeded, Number, {})' = Of(Succeeded, Number, {})
  BY Unmoved DEF SiteTasks, Of, SiteRows, Fetched, SitePages
<1>2. QED
  BY <1>1, Unmoved DEF Dag!vars, Dag!scraping

------------------------------------------------------------------------------
(* The steps of the loops.                                                 *)

LEMMA TakeRefines ==
    ASSUME Jobs <= 2, NEW tor \in BOOLEAN, NEW t \in Thread, NEW n \in Number,
           Inv, PagesBehind, Take(t, n)
    PROVE  Dag(tor)!Run(SourceName) \/ UNCHANGED Dag(TRUE)!vars
<1>1. /\ UNCHANGED <<fixed, task, stored>> /\ task = "running" /\ outcome[n] = "none"
      /\ Fetched' = Fetched
  BY FetchedStays DEF Take, Inv, Awaited
<1>2. CASE n \in existing
  <2>1. outcome' = [outcome EXCEPT ![n] = "already_stored"]
    BY <1>2 DEF Take
  <2>2. n \in Open /\ Open' = Open \ {n} /\ Succeeded' = Succeeded \cup {n}
    BY <1>1, <2>1 DEF Open, Succeeded, Inv, TypeOK
  <2>3. OwnPages(n) \subseteq Fetched
    BY <1>2 DEF OwnPages, Fetched, IsFetched
  <2>4. QED
    BY <1>1, <2>2, <2>3, SuccessRefines
<1>3. CASE n \notin existing
  <2>1. Open' = Open /\ Succeeded' = Succeeded
    BY <1>1, <1>3 DEF Take, Open, Succeeded
  <2>2. QED
    BY <1>1, <2>1, NothingSeen
<1>4. QED
  BY <1>2, <1>3

LEMMA RequestRefines ==
    ASSUME Jobs <= 2, NEW tor \in BOOLEAN, NEW t \in Thread, Inv, PagesBehind,
           NoProxy(t) \/ \E r \in Response : Answer(t, r)
    PROVE  Dag(tor)!Run(SourceName) \/ UNCHANGED Dag(TRUE)!vars
<1> DEFINE n == thread[t].number
           j == thread[t].job
           page == PageNamed(n, j)
<1>1. Works(t) /\ UNCHANGED fixed /\ Effect(t)
  BY RequestEffect
<1>2. /\ n \in Number /\ n \notin existing /\ j \in 1 .. JobsOf(program)
      /\ outcome[n] = "none" /\ task = "running" /\ JobsOf(program) \in 1 .. Jobs
  BY <1>1 DEF Inv, ThreadInv, TypeOK, EndedInv, PagesBehind, JobsOf
<1>3. n \in Open /\ page \in OwnPages(n) /\ page \notin Fetched
  <2>1. <<n, j>> \notin stored
    BY <1>1, <1>2 DEF PagesBehind
  <2>2. QED
    BY <1>2, <2>1, PageNames, FetchedPages DEF Open
<1>4. stored' = stored => Fetched' = Fetched
  BY <1>1, FetchedStays
<1>5. stored' = stored \cup {PageOf(t)} => Fetched' = Fetched \cup {page}
  BY <1>1, <1>2, FetchedGrows DEF PageOf
<1>6. ASSUME NEW answer \in Outcome, NEW to, Answered(t, answer, to)
      PROVE  /\ to = "running" /\ answer # "captcha" /\ answer # "none" => Open' = Open \ {n}
             /\ to = "running" /\ answer = "captcha" => Open' = Open
             /\ to # "failed" /\ answer \in {"ok", "already_stored"} =>
                   Succeeded' = Succeeded \cup {n}
             /\ to # "failed" /\ answer \notin {"ok", "already_stored"} => Succeeded' = Succeeded
  <2>1. /\ outcome'[n] = answer /\ task' = to
        /\ \A m \in Number \ {n} : outcome'[m] = outcome[m]
    BY <1>2, <1>6 DEF Answered, Inv, TypeOK
  <2>2. QED
    BY <1>2, <2>1 DEF Open, Succeeded
<1>7. CASE UnderWay(t, j) /\ UNCHANGED stored
  <2>1. Open' = Open /\ Succeeded' = Succeeded
    BY <1>7 DEF UnderWay, Open, Succeeded
  <2>2. QED
    BY <1>1, <1>4, <1>7, <2>1, NothingSeen DEF UnderWay
<1>8. CASE j < JobsOf(program) /\ UnderWay(t, j + 1) /\ MayStore(t)
  <2>1. Open' = Open /\ Succeeded' = Succeeded
    BY <1>8 DEF UnderWay, Open, Succeeded
  <2>2. CASE stored' = stored
    BY <1>1, <1>4, <1>8, <2>1, <2>2, NothingSeen DEF UnderWay
  <2>3. CASE stored' = stored \cup {PageOf(t)}
    <3> DEFINE next == PageNamed(n, j + 1)
    <3>1. j + 1 \in 1 .. JobsOf(program) /\ j + 1 \in 1 .. Jobs /\ ~(j + 1 < j)
      BY <1>2, <1>8
    <3>2. <<n, j + 1>> \notin stored
      BY <1>1, <1>2, <3>1 DEF PagesBehind
    <3>3. next \in OwnPages(n) \ Fetched /\ next # page
      BY <1>2, <3>1, <3>2, PageNames, FetchedPages
    <3>4. OwnPages(n) \ Fetched # {page}
      BY <3>3
    <3>5. QED
      BY <1>1, <1>3, <1>5, <1>8, <2>1, <2>3, <3>4, PageRefines DEF UnderWay
  <2>4. QED
    BY <1>8, <2>2, <2>3 DEF MayStore
<1>9. CASE /\ Answered(t, "ok", task)
           /\ thread[t].ok /\ j = JobsOf(program)
           /\ stored' = stored \cup {PageOf(t)}
  <2>1. \A k \in 1 .. JobsOf(program) : k # j => PageNamed(n, k) \in Fetched
    <3>1. \A k \in 1 .. (j - 1) : <<n, k>> \in stored
      BY <1>1, <1>9 DEF Inv, ThreadInv
    <3>2. ASSUME NEW k \in 1 .. JobsOf(program), k # j PROVE PageNamed(n, k) \in Fetched
      <4>1. k \in 1 .. (j - 1)
        BY <1>2, <1>9, <3>2
      <4>2. <<n, k>> \in stored
        BY <3>1, <4>1
      <4>3. QED
        BY <1>2, <4>2, FetchedPages
    <3>3. QED
      BY <3>2
  <2>2. OwnPages(n) \subseteq Fetched \cup {page}
    BY <1>2, <2>1, PageNames
  <2>3. Fetched' = Fetched \cup OwnPages(n)
    BY <1>3, <1>5, <1>9, <2>2
  <2>4. Open' = Open \ {n} /\ Succeeded' = Succeeded \cup {n} /\ task' = task
    BY <1>2, <1>6, <1>9 DEF Outcome, Answered
  <2>5. QED
    BY <1>1, <1>3, <2>3, <2>4, SuccessRefines
<1>10. ASSUME NEW answer \in {"failed", "worker_error"}, Answered(t, answer, task), MayStore(t)
       PROVE  Dag(tor)!Run(SourceName)
  <2>1. Open' = Open \ {n} /\ Succeeded' = Succeeded /\ task' = task
    <3>1. task' = task
      BY <1>10 DEF Answered
    <3>2. answer \in Outcome /\ answer \notin {"captcha", "none", "ok", "already_stored"}
      BY <1>10 DEF Outcome
    <3>3. QED
      BY <1>2, <1>6, <1>10, <3>1, <3>2
  <2>2. PICK P \in {{}, {page}} : Fetched' = Fetched \cup P
    BY <1>4, <1>5, <1>10 DEF MayStore
  <2>3. P \in SUBSET (OwnPages(n) \ Fetched) /\ OwnPages(n) \ Fetched # {}
    BY <1>3, <2>2
  <2>4. UNCHANGED <<fixed, task>> /\ n \in Open
    BY <1>1, <1>3, <2>1
  <2>5. QED
    BY <2>1, <2>2, <2>3, <2>4, FailureRefines
<1>11. CASE program = "statutes" /\ Answered(t, "failed", "success") /\ UNCHANGED stored
  <2>1. Succeeded' = Succeeded /\ task' = "success"
    BY <1>6, <1>11 DEF Outcome, Answered
  <2>2. QED
    BY <1>1, <1>3, <1>4, <1>11, <2>1, StoppingRefines
<1>12. CASE program = "pool" /\ Answered(t, "captcha", task) /\ UNCHANGED stored
  <2>1. Open' = Open /\ Succeeded' = Succeeded /\ task' = task
    BY <1>2, <1>6, <1>12 DEF Outcome, Answered
  <2>2. QED
    BY <1>1, <1>4, <1>12, <2>1, NothingSeen
<1>13. ASSUME NEW answer, Answered(t, answer, "failed"), MayStore(t)
       PROVE  Dag(tor)!Run(SourceName)
  <2>1. task' = "failed"
    BY <1>13 DEF Answered
  <2>2. PICK P \in {{}, {page}} : Fetched' = Fetched \cup P
    BY <1>4, <1>5, <1>13 DEF MayStore
  <2>3. QED
    BY <1>1, <1>3, <2>1, <2>2, RaisingRefines
<1>14. QED
  BY <1>1, <1>7, <1>8, <1>9, <1>10, <1>11, <1>12, <1>13 DEF Effect, MayStore

LEMMA FinishRefines ==
    ASSUME Jobs <= 2, NEW tor \in BOOLEAN, SourceName = "kbo" => tor = FALSE,
           Inv, PagesBehind, Finish
    PROVE  Dag(tor)!Run(SourceName)
<1>1. UNCHANGED <<fixed, outcome, stored>> /\ task = "running" /\ Fetched' = Fetched
  BY FetchedStays DEF Finish
<1>2. CASE \E n \in Number : outcome[n] = "captcha"
  <2>1. PICK n \in Number : outcome[n] = "captcha"
    BY <1>2
  <2>2. n \in Open /\ task' = "failed"
    BY <1>1, <1>2, <2>1 DEF Open, Finish
  <2>3. PICK j \in 1 .. JobsOf(program) : <<n, j>> \notin stored
    BY <2>1 DEF PagesBehind
  <2>4. PageNamed(n, j) \in OwnPages(n) \ Fetched
    BY <2>1, <2>3, PageNames, FetchedPages DEF PagesBehind
  <2>5. {} \in SUBSET (OwnPages(n) \ Fetched) /\ OwnPages(n) \ Fetched # {}
        /\ Fetched' = Fetched \cup {}
    BY <1>1, <2>4
  <2>6. QED
    BY <1>1, <2>2, <2>5, RaisingRefines
<1>3. CASE ~\E n \in Number : outcome[n] = "captcha"
  <2>1. \A n \in Number : outcome[n] # "none"
    BY DEF Finish, Busy, Inv, Awaited, Works
  <2>2. Open = {} /\ task' = "success"
    BY <1>3, <2>1 DEF Open, Finish
  <2>3. QED
    BY <1>1, <2>2, EndingRefines
<1>4. QED
  BY <1>2, <1>3

LEMMA StepRefines ==
    ASSUME Jobs <= 2, NEW tor \in BOOLEAN, SourceName = "kbo" => tor = FALSE,
           Inv, PagesBehind, [Next]_vars
    PROVE  Dag(tor)!Run(SourceName) \/ UNCHANGED Dag(TRUE)!vars
<1>1. ASSUME NEW t \in Thread, Pick(t) PROVE UNCHANGED Dag(TRUE)!vars
  BY <1>1, FetchedStays, NothingSeen DEF Pick, Open, Succeeded
<1>2. ASSUME NEW p \in Proxy, HealthCheck(p) PROVE UNCHANGED Dag(TRUE)!vars
  BY <1>2, FetchedStays, NothingSeen DEF HealthCheck, Open, Succeeded
<1>3. CASE UNCHANGED vars
  BY <1>3, FetchedStays, NothingSeen DEF vars, Open, Succeeded
<1>4. QED
  BY <1>1, <1>2, <1>3, TakeRefines, RequestRefines, FinishRefines DEF Next, ThreadStep

\* Whatever the sites answer and whichever proxies are left, a task of a site does to the
\* DAG run only what ScrapeBySource has it do; no source has more than two pages.
THEOREM Refinement ==
    ASSUME Jobs <= 2
    PROVE  Spec => ImplementsTask
<1> DEFINE Started ==
        /\ task = "running" /\ Succeeded = {}
        /\ program \in {"sequential", "pool"} =>
              Open = Dag(FALSE)!Numbers("kbo") /\ Fetched = Dag(FALSE)!AlreadyStored("kbo")
        /\ program = "statutes" =>
              /\ Open = Dag(TRUE)!Numbers("statutes")
              /\ Fetched = Dag(TRUE)!AlreadyStored("statutes")
    TaskStep ==
        /\ program \in {"sequential", "pool"} => Dag(FALSE)!Run("kbo")
        /\ program = "statutes" => Dag(TRUE)!Run("statutes")
<1>1. Init => Started
  <2> SUFFICES ASSUME Init PROVE Started
    OBVIOUS
  <2>1. Open = Number /\ Succeeded = {}
    BY DEF Init, Open, Succeeded
  <2>2. CASE program # "statutes"
    <3>1. Fetched = {}
      BY <2>2 DEF Init, Fetched, IsFetched
    <3>2. Dag(FALSE)!Numbers("kbo") = Number /\ Dag(FALSE)!AlreadyStored("kbo") = {}
      BY DEF Dag!Numbers, Dag!AlreadyStored
    <3>3. QED
      BY <2>1, <2>2, <3>1, <3>2 DEF Init
  <2>3. CASE program = "statutes"
    <3>1. Dag(TRUE)!Numbers("statutes") = Number
      BY <2>3 DEF Dag!Numbers
    <3>2. Dag(TRUE)!AlreadyStored("statutes") = Fetched
      <4>1. SourceName = "statutes"
        BY <2>3 DEF SourceName
      <4>2. Dag(TRUE)!AlreadyStored("statutes")
               = {page \in SitePages : page[2] = "statutes" /\ SiteRows[page] > 0}
        BY DagPages DEF Dag!AlreadyStored
      <4>3. \A page \in SitePages :
               page[2] = "statutes" => (SiteRows[page] > 0 <=> page \in Fetched)
        BY DEF SiteRows, Fetched
      <4>4. \A page \in Fetched : page \in SitePages /\ page[2] = "statutes"
        BY <4>1 DEF Fetched, IsFetched
      <4>5. QED
        BY <4>2, <4>3, <4>4
    <3>3. QED
      BY <2>1, <2>3, <3>1, <3>2 DEF Init
  <2>4. QED
    BY <2>2, <2>3
<1>2. Inv /\ PagesBehind /\ [Next]_vars => [TaskStep]_(Dag(TRUE)!vars)
  <2> SUFFICES ASSUME Inv, PagesBehind, [Next]_vars
               PROVE  TaskStep \/ UNCHANGED Dag(TRUE)!vars
    OBVIOUS
  <2>1. CASE program = "statutes"
    BY <2>1, StepRefines DEF SourceName
  <2>2. CASE program # "statutes"
    BY <2>2, StepRefines DEF SourceName
  <2>3. QED
    BY <2>1, <2>2
<1>3. QED
  BY <1>1, <1>2, PagesInOrder, PTL DEF Spec, ImplementsTask

------------------------------------------------------------------------------
(* The requests left.                                                      *)

\* Going on to the next page uses up every attempt the page could still have made.
LEMMA PagesCost ==
    ASSUME NEW pages \in Nat, NEW attempt \in 1 .. MaxRetries
    PROVE  /\ pages * MaxRetries \in Nat
           /\ 0 < pages * MaxRetries + MaxRetries + 1 - attempt
           /\ (pages + 1) * MaxRetries = pages * MaxRetries + MaxRetries
           /\ pages * MaxRetries + MaxRetries + 1 - 1
                 < (pages + 1) * MaxRetries + MaxRetries + 1 - attempt
<1>1. pages * MaxRetries \in Nat
  OBVIOUS
<1>2. (pages + 1) * MaxRetries = pages * MaxRetries + MaxRetries
  OBVIOUS
<1>3. QED
  BY <1>1, <1>2

\* What a thread has left as long as it works.
LEMMA SomeRequestsLeft ==
    ASSUME NEW t \in Thread, Inv, Works(t)
    PROVE  /\ RequestsLeft(t) = (JobsOf(program) - thread[t].job) * MaxRetries
                                    + MaxRetries + 1 - thread[t].attempt
           /\ RequestsLeft(t) \in Nat \ {0}
           /\ thread[t].attempt \in 1 .. MaxRetries
           /\ JobsOf(program) \in Nat /\ thread[t].job \in 1 .. JobsOf(program)
<1>1. /\ thread[t].attempt \in 1 .. MaxRetries
      /\ JobsOf(program) \in Nat /\ thread[t].job \in 1 .. JobsOf(program)
  BY DEF Inv, TypeOK, ThreadInv, JobsOf
<1> DEFINE pages == JobsOf(program) - thread[t].job
<1>2. pages \in Nat
  BY <1>1
<1>3. RequestsLeft(t) = pages * MaxRetries + MaxRetries + 1 - thread[t].attempt
  BY DEF RequestsLeft, Works
<1> HIDE DEF pages
<1>4. RequestsLeft(t) \in Nat \ {0}
  BY <1>1, <1>2, <1>3, PagesCost
<1>5. QED
  BY <1>1, <1>3, <1>4 DEF pages

\* A number that is answered leaves none.
LEMMA AnswerUsesUp ==
    ASSUME NEW t \in Thread, Inv, Works(t), thread' = [thread EXCEPT ![t] = Idle]
    PROVE  RequestsLeft(t)' < RequestsLeft(t)
<1>1. thread'[t].at = "idle"
  BY DEF Inv, TypeOK, Idle
<1>2. RequestsLeft(t)' = 0
  BY <1>1 DEF RequestsLeft
<1>3. QED
  BY <1>2, SomeRequestsLeft

LEMMA EndJobUsesUp ==
    ASSUME NEW t \in Thread, Inv, Works(t), UNCHANGED program, NEW ok, NEW reason,
           EndJob(t, ok, reason)
    PROVE  RequestsLeft(t)' < RequestsLeft(t)
<1> DEFINE n == thread[t].number
           next == [Idle EXCEPT !.at = "picking", !.number = n, !.job = thread[t].job + 1,
                                !.ok = AllOk(t, ok)]
           pages == JobsOf(program) - (thread[t].job + 1)
<1>1. CASE thread[t].job < JobsOf(program)
  <2>1. thread' = [thread EXCEPT ![t] = next]
    BY <1>1 DEF EndJob
  <2>2. thread'[t] = next
    BY <2>1 DEF Inv, TypeOK
  <2>3. next.at = "picking" /\ next.job = thread[t].job + 1 /\ next.attempt = 1
    BY DEF Idle
  <2>4. RequestsLeft(t)' = pages * MaxRetries + MaxRetries + 1 - 1
    BY <2>2, <2>3 DEF RequestsLeft, JobsOf
  <2>5. pages \in Nat /\ pages + 1 = JobsOf(program) - thread[t].job
    BY <1>1, SomeRequestsLeft
  <2>6. RequestsLeft(t) = (pages + 1) * MaxRetries + MaxRetries + 1 - thread[t].attempt
    BY <2>5, SomeRequestsLeft
  <2>7. thread[t].attempt \in 1 .. MaxRetries
    BY SomeRequestsLeft
  <2> HIDE DEF pages
  <2>8. QED
    BY <2>4, <2>5, <2>6, <2>7, PagesCost
<1>2. CASE ~(thread[t].job < JobsOf(program))
  BY <1>2, AnswerUsesUp DEF EndJob
<1>3. QED
  BY <1>1, <1>2

LEMMA RetryUsesUp ==
    ASSUME NEW t \in Thread, Inv, Works(t), UNCHANGED program, NEW r, NEW reason,
           Again(t, r, reason)
    PROVE  RequestsLeft(t)' < RequestsLeft(t)
<1>1. CASE AttemptsLeft(t, r)
  <2>1. /\ thread'[t].at = "picking" /\ thread'[t].job = thread[t].job
        /\ thread'[t].attempt = thread[t].attempt + 1
    BY <1>1 DEF Again, Retry, NextAttempt, Inv, TypeOK
  <2> DEFINE left == (JobsOf(program) - thread[t].job) * MaxRetries
  <2>2. RequestsLeft(t)' = left + MaxRetries + 1 - (thread[t].attempt + 1)
    BY <2>1 DEF RequestsLeft, JobsOf
  <2>3. RequestsLeft(t) = left + MaxRetries + 1 - thread[t].attempt
    BY SomeRequestsLeft
  <2>4. left \in Nat /\ thread[t].attempt \in Nat
    <3>1. JobsOf(program) - thread[t].job \in Nat
      BY SomeRequestsLeft
    <3>2. QED
      BY <3>1, SomeRequestsLeft, PagesCost
  <2> HIDE DEF left
  <2>5. QED
    BY <2>2, <2>3, <2>4
<1>2. CASE ~AttemptsLeft(t, r)
  BY <1>2, EndJobUsesUp DEF Again
<1>3. QED
  BY <1>1, <1>2

\* Every answer of the site and every look at an empty pool uses up a request, so no
\* thread works on a number for ever.
THEOREM RequestsAreUsedUp == Spec => RequestsRunOut
<1> DEFINE Uses(t) == \/ RequestsLeft(t)' < RequestsLeft(t)
                      \/ /\ thread[t].at = "picking" /\ thread'[t].at = "requesting"
                         /\ RequestsLeft(t)' = RequestsLeft(t)
<1>1. ASSUME Inv, [Next]_vars, NEW t \in Thread, Works(t), thread'[t] # thread[t]
      PROVE  Uses(t)
  <2>1. PICK u \in Thread : ThreadStep(u)
    BY <1>1 DEF Next, HealthCheck, Finish, vars
  <2>2. u = t
    <3>1. CASE \E n \in Number : Take(u, n)
      BY <1>1, <3>1 DEF Take, Inv, TypeOK, MayTake, Works
    <3>2. CASE Pick(u)
      BY <1>1, <3>2 DEF Pick, Inv, TypeOK
    <3>3. CASE NoProxy(u) \/ \E r \in Response : Answer(u, r)
      BY <1>1, <3>3, RequestEffect
    <3>4. QED
      BY <2>1, <3>1, <3>2, <3>3 DEF ThreadStep
  <2>3. UNCHANGED program
    BY <2>1 DEF ThreadStep, Take, Pick, NoProxy, Answer, fixed
  <2>4. CASE Pick(t)
    <3>1. /\ thread[t].at = "picking" /\ thread'[t].at = "requesting"
          /\ thread'[t].job = thread[t].job /\ thread'[t].attempt = thread[t].attempt
      BY <1>1, <2>4 DEF Pick, Inv, TypeOK
    <3>2. RequestsLeft(t)' = RequestsLeft(t)
      BY <2>3, <3>1 DEF RequestsLeft
    <3>3. QED
      BY <3>1, <3>2
  <2>5. CASE NoProxy(t)
    BY <1>1, <2>3, <2>5, RetryUsesUp DEF NoProxy
  <2>6. ASSUME NEW r \in Response, Answer(t, r)
        PROVE  Uses(t)
    <3> DEFINE reason == Decision(r).reason
    <3>1. CASE Blocked(t)
      BY <1>1, <2>3, <3>1, EndJobUsesUp, AnswerUsesUp DEF Blocked, Raise
    <3>2. CASE Store(t, r, reason)
      BY <1>1, <2>3, <3>2, EndJobUsesUp, AnswerUsesUp DEF Store, Raise
    <3>3. CASE EndJob(t, FALSE, reason)
      BY <1>1, <2>3, <3>3, EndJobUsesUp
    <3>4. CASE Again(t, r, reason)
      BY <1>1, <2>3, <3>4, RetryUsesUp
    <3>5. QED
      BY <2>6, <3>1, <3>2, <3>3, <3>4 DEF Answer
  <2>7. CASE \E n \in Number : Take(t, n)
    BY <1>1, <2>7 DEF Take, MayTake, Works
  <2>8. QED
    BY <2>1, <2>2, <2>4, <2>5, <2>6, <2>7 DEF ThreadStep
<1>2. Inv /\ [Next]_vars =>
        [\A t \in Thread : thread[t].at # "idle" /\ thread'[t] # thread[t] => Uses(t)]_vars
  BY <1>1 DEF Works
<1>3. QED
  BY <1>2, Invariant, PTL DEF Spec, RequestsRunOut

==============================================================================
