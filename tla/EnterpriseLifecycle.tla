------------------------- MODULE EnterpriseLifecycle -------------------------
(***************************************************************************)
(* What the platform promises about one Belgian enterprise, whatever the   *)
(* database, the sessions and the crashes underneath: the states it goes   *)
(* through (GUIDE.md, "Etats d'une entreprise") and who may move it.  An   *)
(* enterprise in a queue is claimed by at most one worker; while a worker  *)
(* holds it nobody else changes its state; the worker either releases it   *)
(* with a result or abandons it, and then it stays in its busy state.      *)
(***************************************************************************)
CONSTANTS
    Enterprise,     \* enterprise numbers
    Worker,         \* whoever can hold a claim
    Nobody          \* not a worker: the holder of an enterprise nobody holds

(***************************************************************************)
(* The states of ProcessingState that a transaction ever commits.  The     *)
(* code never assigns RAW_STORED and FAILED_VALIDATE, and NEW is always    *)
(* left again before the transaction that created the row commits.         *)
(***************************************************************************)
Absent == "ABSENT"
Resting == {"STRUCTURED", "FAILED_SCRAPE", "FAILED_PARSE"}
Queued == {"QUEUED_SCRAPE", "QUEUED_PARSE"}
Busy == {"SCRAPING", "PARSING"}
LifecycleState == {Absent} \cup Queued \cup Busy \cup Resting

VARIABLES
    state,      \* the state of each enterprise
    holder      \* the worker that holds each enterprise

vars == <<state, holder>>

TypeOK ==
    /\ state \in [Enterprise -> LifecycleState]
    /\ holder \in [Enterprise -> Worker \cup {Nobody}]

Held(w) == {e \in Enterprise : holder[e] = w}

\* The states in which a worker may take an enterprise to scrape or to parse it.
\* The dashboard's commands take one from other states than the queue.
ClaimableFor(busy) ==
    IF busy = "SCRAPING" THEN Queued \cup Resting
    ELSE {"QUEUED_PARSE", "STRUCTURED", "FAILED_PARSE"}

\* The results with which a worker may give an enterprise back.
OutcomesOf(busy) ==
    IF busy = "SCRAPING" THEN {"QUEUED_PARSE", "FAILED_SCRAPE"}
    ELSE {"STRUCTURED", "FAILED_PARSE"}

\* The enterprises that may be claimed, and those that may be put in the queue.
Claimable(busy) == {e \in Enterprise : holder[e] = Nobody /\ state[e] \in ClaimableFor(busy)}
Enqueueable == {e \in Enterprise : holder[e] = Nobody /\ state[e] \in {Absent} \cup Resting}

Init ==
    /\ state = [e \in Enterprise |-> Absent]
    /\ holder = [e \in Enterprise |-> Nobody]

(***************************************************************************)
(* Ingestion registers enterprises; discovery registers them or puts failed *)
(* ones back; the lifecycle tick puts old ones back.                       *)
(***************************************************************************)
Enqueue(D) ==
    /\ state' = [e \in Enterprise |-> IF e \in D THEN "QUEUED_SCRAPE" ELSE state[e]]
    /\ UNCHANGED holder

Claim(w, S, busy) ==
    /\ state' = [e \in Enterprise |-> IF e \in S THEN busy ELSE state[e]]
    /\ holder' = [e \in Enterprise |-> IF e \in S THEN w ELSE holder[e]]

(***************************************************************************)
(* A worker gives back S of those it holds, each enterprise with a result, *)
(* and in the same transaction enqueues the enterprises D it discovered    *)
(* while parsing.                                                          *)
(***************************************************************************)
Release(w, S, D) ==
    /\ holder' = [e \in Enterprise |-> IF e \in S THEN Nobody ELSE holder[e]]
    /\ \E result \in [S -> Queued \cup Resting] :
        /\ \A e \in S : result[e] \in OutcomesOf(state[e])
        /\ state' = [e \in Enterprise |->
                        IF e \in S THEN result[e]
                        ELSE IF e \in D THEN "QUEUED_SCRAPE" ELSE state[e]]

Abandon(w, S) ==
    /\ holder' = [e \in Enterprise |-> IF e \in S THEN Nobody ELSE holder[e]]
    /\ UNCHANGED state

Next ==
    \/ \E w \in Worker : \E S \in SUBSET Held(w) : Abandon(w, S)
    \/ \E D \in SUBSET Enqueueable : Enqueue(D)
    \/ \E busy \in Busy : \E w \in Worker, S \in SUBSET Claimable(busy) : Claim(w, S, busy)
    \/ \E w \in Worker : \E S \in SUBSET Held(w), D \in SUBSET Enqueueable : Release(w, S, D)

Spec == Init /\ [][Next]_vars

(***************************************************************************)
(* A held enterprise is in a busy state: no queue, sweep or dashboard      *)
(* command can take it away from its worker.                               *)
(***************************************************************************)
HeldIsBusy == \A e \in Enterprise : holder[e] # Nobody => state[e] \in Busy

==============================================================================
