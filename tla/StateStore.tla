----------------------------- MODULE StateStore ------------------------------
(***************************************************************************)
(* The table enterprise_processing_state as the platform's sessions see it *)
(* in PostgreSQL at READ COMMITTED (packages/persistence).  A row has a    *)
(* state and the optimistic-lock column version.  A session that writes a  *)
(* row, or selects it FOR UPDATE, holds the row's lock until it commits or *)
(* rolls back; a row being inserted is locked the same way, by its primary *)
(* key.  lock_owner and lock_until are left out: the code writes them and  *)
(* never reads them.                                                       *)
(*                                                                         *)
(* This module is the vocabulary: each operator is what one repository     *)
(* function does to the table.  Module Pipeline gives the sessions their   *)
(* programs.                                                               *)
(***************************************************************************)
EXTENDS Naturals

CONSTANTS
    Enterprise,     \* enterprise numbers
    Session,        \* database sessions, one per running program
    Nobody          \* the owner of a free row lock

ASSUME SessionAssumption == Nobody \notin Session

VARIABLES
    db,         \* the committed row of each enterprise
    heap,       \* the latest row, with the writes of the session that locks it
    lock        \* the session that locks each row

storeVars == <<db, heap, lock>>

\* enums.py, without RAW_STORED and FAILED_VALIDATE, which no code assigns.
ProcessingState ==
    {"NEW", "QUEUED_SCRAPE", "SCRAPING", "QUEUED_PARSE", "PARSING",
     "STRUCTURED", "FAILED_SCRAPE", "FAILED_PARSE"}

NoRow == [state |-> "ABSENT", version |-> 0]
Row == [state : ProcessingState \cup {"ABSENT"}, version : Nat]

StoreTypeOK ==
    /\ db \in [Enterprise -> Row]
    /\ heap \in [Enterprise -> Row]
    /\ lock \in [Enterprise -> Session \cup {Nobody}]

StoreInit ==
    /\ db = [e \in Enterprise |-> NoRow]
    /\ heap = [e \in Enterprise |-> NoRow]
    /\ lock = [e \in Enterprise |-> Nobody]

\* The rows session s has written or locked in its open transaction.
Locked(s) == {e \in Enterprise : lock[e] = s}

\* s can lock e now, without waiting for another transaction.
CanLock(s, e) == lock[e] \in {Nobody, s}

\* What a plain SELECT of session s returns: its own write or the committed row.
Visible(s, e) == IF lock[e] = s THEN heap[e] ELSE db[e]

(***************************************************************************)
(* transition_state.  seen is the row as the ORM hands it over: the latest *)
(* one, unless the caller still holds the object of an earlier read, which *)
(* SELECT ... FOR UPDATE does not refresh.  The UPDATE goes through when   *)
(* the latest row still has the state and the version of seen; otherwise   *)
(* the function raises StateTransitionError and writes nothing.  Waiting   *)
(* for the lock is the callers' guard CanLock; after it no other session   *)
(* can touch the row, so the SELECT and the UPDATE are one step.           *)
(***************************************************************************)
\* Deviations, for the sensitivity checks: an UPDATE that forgets the version, and
\* one that trusts the version alone.
AppliesWithoutVersion(e, seen, from) == seen.state = from /\ heap[e].state = from
AppliesWithoutState(e, seen, from) == heap[e].version = seen.version

Applies(e, seen, from) ==
    /\ seen.state = from
    /\ heap[e].state = from
    /\ heap[e].version = seen.version

\* Deviation: stored documents park the enterprise in RAW_STORED.
MovedToRawStored(seen, to) ==
    [state |-> IF to = "QUEUED_PARSE" THEN "RAW_STORED" ELSE to,
     version |-> seen.version + 1]

Moved(seen, to) == [state |-> to, version |-> seen.version + 1]

TransitionState(s, e, seen, to) ==
    /\ heap' = [heap EXCEPT ![e] = Moved(seen, to)]
    /\ lock' = [lock EXCEPT ![e] = s]
    /\ UNCHANGED db

(***************************************************************************)
(* claim_enterprises_for_scrape / _for_parse: SELECT ... WHERE state = ... *)
(* FOR UPDATE SKIP LOCKED.  The statement locks the rows it returns.  Which *)
(* ones (ORDER BY state_since, LIMIT, a list of numbers) is left open.     *)
(***************************************************************************)
Unlocked(queue) == {e \in Enterprise : lock[e] = Nobody /\ db[e].state = queue}

SelectSkipLocked(s, S) ==
    /\ lock' = [e \in Enterprise |-> IF e \in S THEN s ELSE lock[e]]
    /\ UNCHANGED <<db, heap>>

\* INSERT of the enterprise and its state row; the new key is locked.
InsertRow(s, e, row) ==
    /\ heap' = [heap EXCEPT ![e] = row]
    /\ lock' = [lock EXCEPT ![e] = s]
    /\ UNCHANGED db

\* COMMIT and ROLLBACK: both free the locks, one publishes the writes.
Commit(s) ==
    /\ db' = [e \in Enterprise |-> IF lock[e] = s THEN heap[e] ELSE db[e]]
    /\ lock' = [e \in Enterprise |-> IF lock[e] = s THEN Nobody ELSE lock[e]]
    /\ UNCHANGED heap

\* Deviation: the session is not closed, and keeps its locks.
RollbackKeepsLocks(s) ==
    /\ heap' = [e \in Enterprise |-> IF lock[e] = s THEN db[e] ELSE heap[e]]
    /\ UNCHANGED <<db, lock>>

Rollback(s) ==
    /\ heap' = [e \in Enterprise |-> IF lock[e] = s THEN db[e] ELSE heap[e]]
    /\ lock' = [e \in Enterprise |-> IF lock[e] = s THEN Nobody ELSE lock[e]]
    /\ UNCHANGED db

(***************************************************************************)
(* Only the session that locks a row has uncommitted writes to it.         *)
(***************************************************************************)
FreeRowsAreCommitted == \A e \in Enterprise : lock[e] = Nobody => heap[e] = db[e]

==============================================================================
