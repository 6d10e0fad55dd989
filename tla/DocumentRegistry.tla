-------------------------- MODULE DocumentRegistry ---------------------------
(***************************************************************************)
(* What the raw store promises to whoever reads raw_documents: a document  *)
(* appears in one step, whole, with its key and its date, and never        *)
(* changes again.  The files, the metadata sidecar, the storage event and  *)
(* the row behind it are module RawStore.                                  *)
(***************************************************************************)
EXTENDS Naturals

CONSTANTS
    Run,            \* run_id values, one for each document stored
    Key,            \* the (source, doc_type) a page is stored under
    Valid,          \* the pages that may be stored
    Stamp,          \* values of scraped_at
    Unpublished     \* the entry of a run that has no row

VARIABLE registry   \* what a reader finds for each run

Entry == [key : Key, stamp : Stamp, page : Valid]

TypeOK == registry \in [Run -> Entry \cup {Unpublished}]

Published == {r \in Run : registry[r] # Unpublished}

Init == registry = [r \in Run |-> Unpublished]

\* Two pages are never scraped at the same moment.
Publish(r, entry) ==
    /\ r \notin Published
    /\ \A other \in Published : registry[other].stamp # entry.stamp
    /\ registry' = [registry EXCEPT ![r] = entry]

Next == \E r \in Run, entry \in Entry : Publish(r, entry)

Spec == Init /\ [][Next]_registry

==============================================================================
