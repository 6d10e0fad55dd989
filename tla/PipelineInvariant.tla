-------------------------- MODULE PipelineInvariant --------------------------
(***************************************************************************)
(* The inductive invariant of Pipeline: HeldIsBusy, ClaimExclusive and     *)
(* StructuredHasEvidence, with what they rest on.                          *)
(***************************************************************************)
EXTENDS Pipeline

(***************************************************************************)
(* The inductive invariant.  HeldIsBusy is not inductive: the claim of s   *)
(* has to be protected from the uncommitted writes of the other sessions,  *)
(* and what a session will commit next has to be known from the place it   *)
(* has reached in its program.                                             *)
(***************************************************************************)

\* Nobody else locks a claimed row.
HeldIsUncontested ==
    \A s \in Session : \A e \in held[s] : lock[e] \in {Nobody, s}

\* An uncommitted write has raised the version, from 0 if it is an INSERT.
HeapIsNewer ==
    \A e \in Enterprise :
        /\ heap[e] # db[e] => heap[e].version > db[e].version
        /\ db[e].state = "ABSENT" => db[e].version = 0
        /\ heap[e].state = "ABSENT" => heap[e].version = 0

\* STRUCTURED is written last, by a session that has the snapshot in its transaction.
Drafted(e, s) == s \in Session /\ pc[s] = "closing" /\ e \in draft[s] /\ e \in docs

StructuredIsDrafted ==
    \A e \in Enterprise :
        heap[e].state = "STRUCTURED" => db[e].state = "STRUCTURED" \/ Drafted(e, lock[e])

\* What each session locks and holds, by the place it has reached.
Idle(s) == pc[s] = "idle" => held[s] = {} /\ \A e \in Enterprise : lock[e] # s

Claims(s) ==
    pc[s] = "claiming" =>
        /\ held[s] = {}
        /\ \A e \in Enterprise : lock[e] = s /\ e \notin todo[s] =>
                heap[e].state = BusyOf(program[s])

Forces(s) ==
    pc[s] = "forcing" =>
        /\ held[s] = {}
        /\ \A e \in Enterprise : lock[e] # s
        /\ focus[s] \in todo[s]
        /\ seen[s].state \in Resting \cup {"QUEUED_PARSE"}

Works(s) ==
    pc[s] = "working" =>
        IF program[s] = "scrape_by_source" THEN todo[s] \subseteq held[s]
        ELSE \A e \in Enterprise : lock[e] # s

Walks(s) ==
    pc[s] \in {"walking", "inserting", "moving"} =>
        /\ \A e \in held[s] : lock[e] # s
        /\ program[s] \in Parsers =>
                current[s] \in held[s] \cap docs /\ draft[s] = {current[s]}
        /\ pc[s] # "walking" => focus[s] \in Enterprise
        /\ pc[s] = "moving" => seen[s].state \in Resting \cup {"NEW"}

Closes(s) ==
    pc[s] = "closing" =>
        /\ program[s] # "scrape_by_source"
        /\ \A e \in held[s] : lock[e] = s => e = current[s]

SessionInv(s) ==
    Idle(s) /\ Claims(s) /\ Forces(s) /\ Works(s) /\ Walks(s) /\ Closes(s)

StoreInv == FreeRowsAreCommitted /\ HeapIsNewer /\ StructuredIsDrafted

ClaimInv == HeldIsBusy /\ HeldIsUncontested /\ ClaimExclusive

IInv ==
    /\ TypeOK
    /\ StoreInv
    /\ ClaimInv
    /\ StructuredHasEvidence
    /\ \A s \in Session : SessionInv(s)

==============================================================================
