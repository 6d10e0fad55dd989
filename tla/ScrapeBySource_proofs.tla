------------------------ MODULE ScrapeBySource_proofs ------------------------
(***************************************************************************)
(* Theorems about ScrapeBySource, for any number of enterprises and sites, *)
(* any parameters of the DAG run, and documents left by any earlier run.   *)
(***************************************************************************)
EXTENDS ScrapeBySource, TLAPS

USE SiteAssumption, EnabledAssumption, ParameterAssumption

(***************************************************************************)
(* The inductive invariant.                                                *)
(***************************************************************************)

\* A task is settled after the tasks it waits for.
TaskOrder ==
    /\ \A src \in Site : task[src] # "none" => task["kbo"] \in Done
    /\ task["finalize"] # "none" => \A src \in Site : task[src] \in Done

TriesInv ==
    \A src \in Source :
        /\ task[src] = "none" => tries[src] = 0
        /\ task[src] = "retry" => tries[src] < MaxTries

\* What a task counts as stored has a row, whichever try or run has left it.
OkIsStored ==
    /\ \A src \in Source : \A page \in stored[src] : rows[page] > 0
    /\ \A src \in Source : \A e \in ok[src] : \A page \in PagesOf(e, src) : rows[page] > 0
    /\ \A e \in kboOk : \A page \in PagesOf(e, "kbo") : rows[page] > 0

\* A page of the statutes that a running task may still store has no row.
StatutesAwaited ==
    \A page \in Page :
        /\ page[2] = "statutes"
        /\ task["statutes"] = "running"
        /\ page[1] \in todo["statutes"]
        /\ page \notin stored["statutes"]
        => rows[page] = 0

FailedIsFinal == (\E e \in Enterprise : state[e] = "FAILED_SCRAPE") => task["finalize"] # "none"

Inv ==
    /\ TypeOK
    /\ TaskOrder
    /\ TriesInv
    /\ OkIsStored
    /\ SitesAfterKbo
    /\ StatutesAwaited
    /\ StatutesStoredOnce
    /\ FailedIsFinal
    /\ SuccessIsKept

------------------------------------------------------------------------------
LEMMA PageParts ==
    ASSUME NEW page \in Page
    PROVE  page[1] \in Enterprise /\ page[2] \in Source
BY DEF Page

LEMMA PagesOfSource ==
    ASSUME NEW e \in Enterprise, NEW src \in Source
    PROVE  PagesOf(e, src) = {page \in Page : page[1] = e /\ page[2] = src}
<1>1. Pages(src) \subseteq {"main", "profile"}
  BY DEF Pages
<1>2. QED
  BY <1>1 DEF PagesOf, Page

LEMMA MainPage ==
    ASSUME NEW e \in Enterprise, NEW src \in Source
    PROVE  \E page \in Page : page \in PagesOf(e, src)
<1> DEFINE page == <<e, src, "main">>
<1>1. page \in Page
  BY DEF Page, Pages
<1>2. QED
  BY <1>1, PagesOfSource

LEMMA InitEstablishes == Init => Inv
<1> SUFFICES ASSUME Init PROVE Inv
  OBVIOUS
<1> USE DEF Init
<1>1. TypeOK
  <2>1. rows \in [Page -> 0 .. MaxRows]
    BY DEF MaxRows
  <2>2. task \in [Task -> TaskState]
    BY DEF TaskState
  <2>3. tries \in [Source -> 0 .. MaxTries]
    BY DEF MaxTries
  <2>4. QED
    BY <2>1, <2>2, <2>3 DEF TypeOK
<1>2. TaskOrder /\ TriesInv /\ FailedIsFinal /\ SuccessIsKept
  BY DEF TaskOrder, TriesInv, FailedIsFinal, SuccessIsKept, Task, MaxTries, Source
<1>3. OkIsStored /\ SitesAfterKbo
  BY DEF OkIsStored, SitesAfterKbo, Source
<1>4. StatutesAwaited
  BY DEF StatutesAwaited, Task, Source, Page
<1>5. StatutesStoredOnce
  BY DEF StatutesStoredOnce
<1>6. QED
  BY <1>1, <1>2, <1>3, <1>4, <1>5 DEF Inv

------------------------------------------------------------------------------
(* The steps.                                                              *)

LEMMA PrepareKeeps ==
    ASSUME NEW S \in SUBSET Enterprise, Inv, Prepare(S)
    PROVE  Inv'
<1> USE DEF Inv, Prepare, SetTask, scraping
<1>1. TypeOK'
  BY DEF TypeOK, Task, TaskState
<1>2. \A t \in Task \ {"prepare"} : task'[t] = task[t]
  BY DEF TypeOK
<1>3. TaskOrder' /\ TriesInv'
  BY <1>2 DEF TaskOrder, TriesInv, Task, Source
<1>4. OkIsStored' /\ SitesAfterKbo'
  BY DEF OkIsStored, SitesAfterKbo
<1>5. StatutesAwaited' /\ StatutesStoredOnce'
  BY <1>2, PageParts DEF StatutesAwaited, StatutesStoredOnce, Task, Source
<1>6. FailedIsFinal' /\ SuccessIsKept'
  BY <1>2 DEF FailedIsFinal, SuccessIsKept, Task, TypeOK
<1>7. QED
  BY <1>1, <1>3, <1>4, <1>5, <1>6

\* A task that is settled without running.
LEMMA SettleKeeps ==
    ASSUME NEW src \in Source, NEW value \in {"skipped", "upstream_failed"}, Inv,
           src # "kbo" => task["kbo"] \in Done,
           SetTask(src, value), UNCHANGED <<state, rows, claimed, scraping, kboOk>>
    PROVE  Inv'
<1> USE DEF Inv, SetTask, scraping
<1>1. TypeOK'
  BY DEF TypeOK, Task, TaskState
<1>2. task'[src] = value /\ \A t \in Task \ {src} : task'[t] = task[t]
  BY DEF TypeOK, Task
<1>3. TaskOrder' /\ TriesInv'
  BY <1>2 DEF TaskOrder, TriesInv, Task, Source, Done
<1>4. OkIsStored' /\ SitesAfterKbo'
  BY DEF OkIsStored, SitesAfterKbo
<1>5. StatutesAwaited' /\ StatutesStoredOnce'
  BY <1>2, PageParts DEF StatutesAwaited, StatutesStoredOnce, Task, Source
<1>6. FailedIsFinal' /\ SuccessIsKept'
  BY <1>2 DEF FailedIsFinal, SuccessIsKept, Task, Source, TypeOK
<1>7. QED
  BY <1>1, <1>3, <1>4, <1>5, <1>6

LEMMA StartKeeps ==
    ASSUME NEW src \in Source, Inv, Start(src)
    PROVE  Inv'
<1> USE DEF Inv, Start, CanStart, SetTask
<1>1. Numbers(src) \subseteq Enterprise /\ AlreadyStored(src) \subseteq Page
  BY DEF TypeOK, Numbers, AlreadyStored
<1>2. tries[src] + 1 \in 0 .. MaxTries
  BY DEF TypeOK, TriesInv, MaxTries
<1>3. TypeOK'
  BY <1>1, <1>2 DEF TypeOK, Task, TaskState
<1>4. task'[src] = "running" /\ \A t \in Task \ {src} : task'[t] = task[t]
  BY DEF TypeOK, Task
<1>5. src # "kbo" => task["kbo"] = "success"
  BY DEF Upstream
<1>6. task["finalize"] = "none"
  BY <1>5 DEF TaskOrder, Done, Source
<1>7. TaskOrder' /\ TriesInv'
  BY <1>4, <1>5, <1>6 DEF TaskOrder, TriesInv, Task, Source, Done, TypeOK
<1>8. OkIsStored'
  BY DEF OkIsStored, TypeOK, AlreadyStored
<1>9. SitesAfterKbo'
  BY DEF SitesAfterKbo, OkIsStored, TypeOK, Numbers, Source
<1>10. StatutesAwaited'
  BY <1>4 DEF StatutesAwaited, TypeOK, AlreadyStored, Task, Source
<1>11. StatutesStoredOnce' /\ FailedIsFinal' /\ SuccessIsKept'
  BY <1>4, <1>6 DEF StatutesStoredOnce, FailedIsFinal, SuccessIsKept, TypeOK, Task, Source
<1>12. QED
  BY <1>3, <1>7, <1>8, <1>9, <1>10, <1>11

LEMMA RowsGrow ==
    ASSUME NEW src \in Source, NEW e \in Enterprise, NEW P, Inv, StorePages(src, e, P)
    PROVE  /\ rows' \in [Page -> 0 .. MaxRows]
           /\ \A page \in Page : rows[page] > 0 => rows'[page] > 0
           /\ \A page \in P : page \in Page /\ rows'[page] > 0
           /\ \A page \in Page \ P : rows'[page] = rows[page]
           /\ \A page \in Page : page[2] = "statutes" => rows'[page] <= 1
           /\ \A page \in P : page[1] = e /\ page[2] = src
BY PagesOfSource, SMTT(30) DEF StorePages, Inv, TypeOK, MaxRows, Counted, StatutesAwaited,
                     StatutesStoredOnce

\* A page of a number, a number whose pages the task has been through, or all of them
\* when it raises or stops.
LEMMA ScrapeKeeps ==
    ASSUME NEW src \in Source, NEW e \in Enterprise, NEW P, Inv,
           StorePages(src, e, P),
           UNCHANGED <<state, claimed, tries, kboOk>>,
           exhausted' \in BOOLEAN,
           \/ task' = task
           \/ task' = [task EXCEPT ![src] = Retried(src)]
           \/ task' = [task EXCEPT ![src] = "success"],
           \/ todo' = todo
           \/ todo' = [todo EXCEPT ![src] = @ \ {e}]
           \/ todo' = [todo EXCEPT ![src] = {}],
           \/ ok' = ok
           \/ ok' = [ok EXCEPT ![src] = {}]
           \/ /\ ok' = [ok EXCEPT ![src] = @ \cup {e}]
              /\ P = PagesOf(e, src) \ stored[src]
    PROVE  Inv'
<1> USE DEF Inv
<1>0. task[src] = "running" /\ e \in todo[src]
  BY DEF StorePages
<1>1. TypeOK'
  <2>1. task' \in [Task -> TaskState]
    BY DEF TypeOK, Task, TaskState, Retried
  <2>2. todo' \in [Source -> SUBSET Enterprise] /\ ok' \in [Source -> SUBSET Enterprise]
    BY DEF TypeOK
  <2>3. stored' \in [Source -> SUBSET Page]
    BY RowsGrow DEF StorePages, TypeOK
  <2>4. QED
    BY <2>1, <2>2, <2>3, RowsGrow DEF TypeOK
<1>2. /\ task'[src] \in {"running", "retry", "failed", "success"}
      /\ task'[src] = "retry" => tries[src] < MaxTries
      /\ \A t \in Task \ {src} : task'[t] = task[t]
  BY <1>0 DEF TypeOK, Task, Retried
<1>3. /\ todo'[src] \subseteq todo[src]
      /\ stored'[src] = stored[src] \cup P
      /\ \A s \in Source \ {src} : todo'[s] = todo[s] /\ stored'[s] = stored[s] /\ ok'[s] = ok[s]
  BY DEF StorePages, TypeOK
<1>4. task["finalize"] = "none" /\ (src # "kbo" => task["kbo"] \in Done)
  BY <1>0 DEF TaskOrder, Done, Source
<1>5. TaskOrder' /\ TriesInv'
  BY <1>0, <1>2, <1>4 DEF TaskOrder, TriesInv, Task, Source, Done
<1>6. \A page \in ok'[src] : page \in ok[src] \/ (page = e /\ P = PagesOf(e, src) \ stored[src])
  BY DEF TypeOK
<1>7. OkIsStored'
  <2>1. \A s \in Source : \A page \in stored[s] : page \in Page
    BY DEF TypeOK
  <2>2. \A s \in Source, n \in Enterprise : PagesOf(n, s) \subseteq Page
    BY PagesOfSource
  <2>3. ASSUME NEW n \in ok'[src], NEW page \in PagesOf(n, src) PROVE rows'[page] > 0
    <3>1. CASE n \in ok[src]
      BY <3>1, <2>2, RowsGrow DEF OkIsStored, TypeOK
    <3>2. CASE n = e /\ P = PagesOf(e, src) \ stored[src]
      BY <3>2, <2>1, <2>2, RowsGrow DEF OkIsStored, TypeOK
    <3>3. QED
      BY <3>1, <3>2, <1>6
  <2>4. ASSUME NEW s \in Source, NEW n \in ok'[s], NEW page \in PagesOf(n, s), s # src
        PROVE  rows'[page] > 0
    BY <1>3, <2>2, <2>4, RowsGrow DEF OkIsStored, TypeOK
  <2>5. \A s \in Source : \A page \in stored'[s] : rows'[page] > 0
    BY <1>3, <2>1, RowsGrow DEF OkIsStored
  <2>6. \A n \in kboOk' : \A page \in PagesOf(n, "kbo") : rows'[page] > 0
    BY <2>2, RowsGrow DEF OkIsStored, TypeOK, Source
  <2>7. QED
    BY <2>3, <2>4, <2>5, <2>6 DEF OkIsStored
<1>8. SitesAfterKbo'
  <2>1. \A s \in Source : todo'[s] \cup ok'[s] \subseteq todo[s] \cup ok[s]
    BY <1>0, <1>3, <1>6
  <2>2. \A n \in Enterprise : PagesOf(n, "kbo") \subseteq Page
    BY PagesOfSource DEF Source
  <2>3. QED
    BY <2>1, <2>2, RowsGrow DEF SitesAfterKbo, TypeOK, Source
<1>9. StatutesAwaited'
  <2> SUFFICES ASSUME NEW page \in Page, page[2] = "statutes", task'["statutes"] = "running",
                      page[1] \in todo'["statutes"], page \notin stored'["statutes"]
               PROVE  rows'[page] = 0
    BY DEF StatutesAwaited
  <2>1. page \notin P
    BY <1>3, RowsGrow
  <2>2. /\ task["statutes"] = "running" /\ page[1] \in todo["statutes"]
        /\ page \notin stored["statutes"]
    BY <1>0, <1>2, <1>3, PageParts DEF Task
  <2>3. QED
    BY <2>1, <2>2, RowsGrow DEF StatutesAwaited
<1>10. StatutesStoredOnce'
  BY RowsGrow DEF StatutesStoredOnce
<1>11. FailedIsFinal' /\ SuccessIsKept'
  BY <1>4 DEF FailedIsFinal, SuccessIsKept
<1>12. QED
  BY <1>1, <1>5, <1>7, <1>8, <1>9, <1>10, <1>11

LEMMA EndKeeps ==
    ASSUME NEW src \in Source, Inv, EndTask(src)
    PROVE  Inv'
<1> USE DEF Inv, EndTask, SetTask
<1>1. TypeOK'
  <2>1. task' \in [Task -> TaskState] /\ ok' \in [Source -> SUBSET Enterprise]
    BY DEF TypeOK, Task, TaskState, Retried
  <2>2. kboOk' \subseteq Enterprise
    BY DEF TypeOK
  <2>3. QED
    BY <2>1, <2>2 DEF TypeOK
<1>2. /\ task'[src] \in {"success", "retry", "failed"}
      /\ task'[src] = "retry" => tries[src] < MaxTries
      /\ \A t \in Task \ {src} : task'[t] = task[t]
  BY DEF TypeOK, Task, Retried
<1>3. task["finalize"] = "none" /\ (src # "kbo" => task["kbo"] \in Done)
  BY DEF TaskOrder, Done, Source
<1>4. TaskOrder' /\ TriesInv'
  BY <1>2, <1>3 DEF TaskOrder, TriesInv, Task, Source, Done
<1>5. \A s \in Source : ok'[s] \subseteq ok[s]
  BY DEF TypeOK
<1>6. \A e \in kboOk' : e \in kboOk \/ e \in ok["kbo"]
  OBVIOUS
<1>7. OkIsStored' /\ SitesAfterKbo'
  BY <1>5, <1>6 DEF OkIsStored, SitesAfterKbo, Source, PagesOf
<1>8. StatutesAwaited' /\ StatutesStoredOnce'
  BY <1>2, PageParts DEF StatutesAwaited, StatutesStoredOnce, Task, Source
<1>9. FailedIsFinal' /\ SuccessIsKept'
  BY <1>3, <1>5 DEF FailedIsFinal, SuccessIsKept
<1>10. QED
  BY <1>1, <1>4, <1>7, <1>8, <1>9

LEMMA FinalizeKeeps ==
    ASSUME Inv, Finalize
    PROVE  Inv'
<1> USE DEF Inv, Finalize, SetTask, scraping
<1>1. TypeOK'
  BY DEF TypeOK, Task, TaskState
<1>2. task'["finalize"] # "none" /\ \A t \in Task \ {"finalize"} : task'[t] = task[t]
  BY DEF TypeOK, Task
<1>3. TaskOrder' /\ TriesInv'
  BY <1>2 DEF TaskOrder, TriesInv, Task, Source
<1>4. OkIsStored' /\ SitesAfterKbo'
  BY DEF OkIsStored, SitesAfterKbo
<1>5. StatutesAwaited' /\ StatutesStoredOnce'
  BY <1>2, PageParts DEF StatutesAwaited, StatutesStoredOnce, Task, Source
<1>6. FailedIsFinal'
  BY <1>2 DEF FailedIsFinal
<1>7. ASSUME NEW e \in Enterprise, state'[e] = "FAILED_SCRAPE"
      PROVE  \E src \in Enabled : e \notin ok'[src]
  <2>1. CASE state[e] = "FAILED_SCRAPE"
    BY <2>1 DEF SuccessIsKept
  <2>2. CASE ~Covered(e)
    BY <2>2, MainPage DEF Covered, OkIsStored
  <2>3. QED
    BY <1>7, <2>1, <2>2
<1>8. QED
  BY <1>1, <1>3, <1>4, <1>5, <1>6, <1>7 DEF SuccessIsKept

LEMMA RunKeeps ==
    ASSUME NEW src \in Source, Inv, Run(src)
    PROVE  Inv'
<1>1. CASE PassOver(src)
  <2>1. /\ \E value \in {"skipped", "upstream_failed"} : SetTask(src, value)
        /\ src # "kbo" => task["kbo"] \in Done
    BY <1>1 DEF PassOver, Upstream, Done
  <2>2. QED
    BY <1>1, <2>1, SettleKeeps DEF PassOver
<1>2. CASE Skip(src)
  BY <1>2, SettleKeeps DEF Skip, CanStart, Upstream, Done
<1>3. CASE Start(src)
  BY <1>3, StartKeeps
<1>4. CASE EndTask(src)
  BY <1>4, EndKeeps
<1>5. ASSUME NEW e \in Enterprise, NEW page \in PagesOf(e, src), ScrapePage(src, e, page)
      PROVE  Inv'
  BY <1>5, ScrapeKeeps DEF ScrapePage, Inv, TypeOK
<1>6. ASSUME NEW e \in Enterprise, ScrapeSucceeds(src, e) PROVE Inv'
  BY <1>6, ScrapeKeeps DEF ScrapeSucceeds, NextNumber, Inv, TypeOK
<1>7. ASSUME NEW e \in Enterprise, NEW P \in SUBSET PagesOf(e, src), ScrapeFails(src, e, P)
      PROVE  Inv'
  BY <1>7, ScrapeKeeps DEF ScrapeFails, NextNumber, Inv, TypeOK
<1>8. ASSUME NEW e \in Enterprise, NEW P \in SUBSET PagesOf(e, src), TaskRaises(src, e, P)
      PROVE  Inv'
  BY <1>8, ScrapeKeeps DEF TaskRaises, SetTask, Inv, TypeOK
<1>9. ASSUME NEW e \in Enterprise, src = "statutes", StopGracefully(e) PROVE Inv'
  BY <1>9, ScrapeKeeps DEF StopGracefully, SetTask, Inv, TypeOK
<1>10. QED
  BY <1>1, <1>2, <1>3, <1>4, <1>5, <1>6, <1>7, <1>8, <1>9 DEF Run

LEMMA NextPreserves == Inv /\ [Next]_vars => Inv'
<1> SUFFICES ASSUME Inv, [Next]_vars PROVE Inv'
  OBVIOUS
<1>1. CASE UNCHANGED vars
  BY <1>1 DEF vars, scraping, Inv, TypeOK, TaskOrder, TriesInv, OkIsStored, SitesAfterKbo,
     StatutesAwaited, StatutesStoredOnce, FailedIsFinal, SuccessIsKept
<1>2. QED
  BY <1>1, PrepareKeeps, RunKeeps, FinalizeKeeps DEF Next

------------------------------------------------------------------------------
\* The facts about tasks, stored pages and results that hold in every reachable state.
THEOREM Invariant == Spec => []Inv
BY InitEstablishes, NextPreserves, PTL DEF Spec

\* Every variable of a DAG run keeps its type: no task is tried more than MaxTries times.
THEOREM TypeCorrect == Spec => []TypeOK
<1>1. Inv => TypeOK
  BY DEF Inv
<1>2. QED
  BY <1>1, Invariant, PTL

\* No site is asked for a number that has not all its KBO pages stored.
THEOREM KboComesFirst == Spec => []SitesAfterKbo
<1>1. Inv => SitesAfterKbo
  BY DEF Inv
<1>2. QED
  BY <1>1, Invariant, PTL

\* A retry of the statutes task stores none of the pages its first try has stored.
THEOREM RetriesStoreNoStatutesTwice == Spec => []StatutesStoredOnce
<1>1. Inv => StatutesStoredOnce
  BY DEF Inv
<1>2. QED
  BY <1>1, Invariant, PTL

\* finalize_scrape fails no enterprise that every enabled source has succeeded for.
THEOREM FinalizeKeepsSuccess == Spec => []SuccessIsKept
<1>1. Inv => SuccessIsKept
  BY DEF Inv
<1>2. QED
  BY <1>1, Invariant, PTL

------------------------------------------------------------------------------
(***************************************************************************)
(* Which task waits for which, and what scrape_kbo hands to the sites.     *)
(***************************************************************************)

\* A task that has begun had its upstream succeed, and no task outlives its upstream.
Order ==
    /\ task["prepare"] \in {"none", "success", "failed"}
    /\ \A src \in Source :
        /\ task[src] # "none" => task[Upstream(src)] \in Done
        /\ task[src] \in {"running", "retry"} => task[Upstream(src)] = "success"

\* What the try of scrape_kbo that counts has scraped is what the sites get, over Tor.
KboResult ==
    /\ todo["kbo"] \cup ok["kbo"] \subseteq claimed
    /\ "kbo" \notin Enabled => todo["kbo"] \cup ok["kbo"] = {}
    /\ task["kbo"] \in {"none", "skipped", "upstream_failed"} => todo["kbo"] \cup ok["kbo"] = {}
    /\ UseTor /\ task["kbo"] = "success" => kboOk = ok["kbo"]

\* How a task that works leaves the results: another number is through, none is any
\* more, or the task has ended.
Yields(src) ==
    /\ task[src] = "running" /\ task'[src] \in {"running", "retry", "failed", "success"}
    /\ UNCHANGED claimed
    /\ todo'[src] \subseteq todo[src] /\ ok'[src] \subseteq ok[src] \cup todo[src]
    /\ \A s \in Source \ {src} : todo'[s] = todo[s] /\ ok'[s] = ok[s]
    /\ IF src = "kbo" /\ UseTor /\ task'[src] = "success"
       THEN kboOk' = ok'[src] ELSE UNCHANGED kboOk

LEMMA WorkYields ==
    ASSUME NEW src \in Source, Inv, Run(src)
    PROVE  /\ task[src] \notin Done
           /\ \A t \in Task \ {src} : task'[t] = task[t]
           /\ PassOver(src) \/ Skip(src) \/ Start(src) \/ Yields(src)
<1> USE DEF Inv, TypeOK, Task, Done
<1>1. CASE PassOver(src)
  BY <1>1 DEF PassOver, SetTask
<1>2. CASE Skip(src)
  BY <1>2 DEF Skip, CanStart, SetTask
<1>3. CASE Start(src)
  BY <1>3 DEF Start, CanStart, SetTask
<1>4. CASE EndTask(src)
  BY <1>4 DEF EndTask, SetTask, Yields, Retried
<1>5. ASSUME NEW e \in Enterprise, NEW page \in PagesOf(e, src), ScrapePage(src, e, page)
      PROVE  Yields(src) /\ task' = task
  BY <1>5 DEF ScrapePage, StorePages, Yields
<1>6. ASSUME NEW e \in Enterprise, ScrapeSucceeds(src, e)
      PROVE  Yields(src) /\ task' = task
  BY <1>6 DEF ScrapeSucceeds, StorePages, NextNumber, Yields
<1>7. ASSUME NEW e \in Enterprise, NEW P \in SUBSET PagesOf(e, src), ScrapeFails(src, e, P)
      PROVE  Yields(src) /\ task' = task
  BY <1>7 DEF ScrapeFails, StorePages, NextNumber, Yields
<1>8. ASSUME NEW e \in Enterprise, NEW P \in SUBSET PagesOf(e, src), TaskRaises(src, e, P)
      PROVE  Yields(src) /\ \A t \in Task \ {src} : task'[t] = task[t]
  BY <1>8 DEF TaskRaises, StorePages, SetTask, Retried, Yields
<1>9. ASSUME NEW e \in Enterprise, src = "statutes", StopGracefully(e)
      PROVE  Yields(src) /\ \A t \in Task \ {src} : task'[t] = task[t]
  BY <1>9 DEF StopGracefully, StorePages, SetTask, Yields
<1>10. Yields(src) => task[src] \notin Done
  BY DEF Yields
<1>11. QED
  BY <1>1, <1>2, <1>3, <1>4, <1>5, <1>6, <1>7, <1>8, <1>9, <1>10 DEF Run

LEMMA RunKeepsOrder ==
    ASSUME NEW src \in Source, Inv, Order, KboResult, Run(src)
    PROVE  Order' /\ KboResult'
<1> USE DEF Inv
<1>1. /\ task[src] \notin Done /\ \A t \in Task \ {src} : task'[t] = task[t]
      /\ PassOver(src) \/ Skip(src) \/ Start(src) \/ Yields(src)
  BY WorkYields
<1>2. \A s \in Source : Upstream(s) \in Task /\ Upstream(s) # s
  BY DEF Upstream, Task, Source
<1>3. /\ task[Upstream(src)] \in Done
      /\ task'[src] \in {"running", "retry"} => task[Upstream(src)] = "success"
  <2>1. CASE PassOver(src)
    BY <2>1 DEF PassOver, SetTask, TypeOK, Task, Done
  <2>2. CASE Skip(src)
    BY <2>2 DEF Skip, CanStart, SetTask, TypeOK, Task, Done
  <2>3. CASE Start(src)
    BY <2>3 DEF Start, CanStart, SetTask, TypeOK, Task, Done
  <2>4. CASE Yields(src)
    BY <2>4 DEF Yields, Order, Done
  <2>5. QED
    BY <1>1, <2>1, <2>2, <2>3, <2>4
<1>4. Order'
  <2>1. task'["prepare"] = task["prepare"]
    BY <1>1 DEF Task, Source
  <2>2. ASSUME NEW s \in Source
        PROVE  /\ task'[s] # "none" => task'[Upstream(s)] \in Done
               /\ task'[s] \in {"running", "retry"} => task'[Upstream(s)] = "success"
    <3>1. task[Upstream(s)] \in Done => task'[Upstream(s)] = task[Upstream(s)]
      BY <1>1, <1>2
    <3>2. CASE s = src
      BY <1>3, <3>1, <3>2
    <3>3. CASE s # src
      BY <1>1, <3>1, <3>3 DEF Order, Task, Done
    <3>4. QED
      BY <3>2, <3>3
  <2>3. QED
    BY <2>1, <2>2 DEF Order, Upstream
<1>5. KboResult'
  <2>1. CASE src = "kbo"
    <3>1. CASE PassOver(src) \/ Skip(src)
      <4>1. UNCHANGED <<claimed, todo, ok, kboOk>> /\ todo["kbo"] \cup ok["kbo"] = {}
        BY <2>1, <3>1 DEF PassOver, Skip, CanStart, Skipped, scraping, KboResult
      <4>2. task'["kbo"] \in {"skipped", "upstream_failed"}
        BY <2>1, <3>1 DEF PassOver, Skip, SetTask, TypeOK, Task
      <4>3. QED
        BY <4>1, <4>2 DEF KboResult
    <3>2. CASE Start(src)
      BY <2>1, <3>2 DEF Start, Skipped, SetTask, Numbers, KboResult, TypeOK, Task
    <3>3. CASE Yields(src)
      BY <2>1, <3>3 DEF Yields, KboResult
    <3>4. QED
      BY <1>1, <3>1, <3>2, <3>3
  <2>2. CASE src # "kbo"
    <3>1. UNCHANGED <<claimed, kboOk>> /\ todo'["kbo"] = todo["kbo"] /\ ok'["kbo"] = ok["kbo"]
      <4>1. CASE PassOver(src) \/ Skip(src)
        BY <4>1 DEF PassOver, Skip, scraping
      <4>2. CASE Start(src)
        BY <2>2, <4>2 DEF Start, TypeOK, Source
      <4>3. CASE Yields(src)
        BY <2>2, <4>3 DEF Yields, Source
      <4>4. QED
        BY <1>1, <4>1, <4>2, <4>3
    <3>2. task'["kbo"] = task["kbo"]
      BY <1>1, <2>2 DEF Task, Source
    <3>3. QED
      BY <3>1, <3>2 DEF KboResult
  <2>3. QED
    BY <2>1, <2>2
<1>6. QED
  BY <1>4, <1>5

LEMMA NextKeepsOrder == Inv /\ Order /\ KboResult /\ [Next]_vars => Order' /\ KboResult'
<1> SUFFICES ASSUME Inv, Order, KboResult, [Next]_vars PROVE Order' /\ KboResult'
  OBVIOUS
<1> USE DEF Inv, TypeOK, Task, Source
<1>1. ASSUME NEW S \in SUBSET Enterprise, Prepare(S) PROVE Order' /\ KboResult'
  <2>1. /\ task["prepare"] = "none" /\ task'["prepare"] \in {"success", "failed"}
        /\ \A t \in Task \ {"prepare"} : task'[t] = task[t]
        /\ UNCHANGED <<todo, ok, kboOk>>
    BY <1>1 DEF Prepare, SetTask, scraping
  <2>2. task["kbo"] = "none"
    BY <2>1 DEF Order, Upstream, Done
  <2>3. Order'
    BY <2>1 DEF Order, Upstream, Done
  <2>4. KboResult'
    BY <2>1, <2>2 DEF KboResult
  <2>5. QED
    BY <2>3, <2>4
<1>2. ASSUME NEW src \in Source, Run(src) PROVE Order' /\ KboResult'
  BY <1>2, RunKeepsOrder
<1>3. CASE Finalize
  <2>1. /\ \A t \in Task \ {"finalize"} : task'[t] = task[t]
        /\ UNCHANGED <<claimed, todo, ok, kboOk>>
    BY <1>3 DEF Finalize, SetTask, scraping
  <2>2. QED
    BY <2>1 DEF Order, KboResult, Upstream
<1>4. CASE UNCHANGED vars
  BY <1>4 DEF vars, scraping, Order, KboResult, Upstream
<1>5. QED
  BY <1>1, <1>2, <1>3, <1>4 DEF Next

\* What is true of the tasks' order and of KBO's result in every reachable state.
THEOREM OrderHolds == Spec => [](Inv /\ Order /\ KboResult)
<1>1. Init => Order /\ KboResult
  BY DEF Init, Order, KboResult, Task, Source
<1>2. QED
  BY <1>1, InitEstablishes, NextPreserves, NextKeepsOrder, PTL DEF Spec

\* A task with a step to make: it runs, Airflow may start it, or may pass it over.
Moves(src) ==
    \/ task[src] = "running"
    \/ CanStart(src)
    \/ task[src] = "none" /\ task[Upstream(src)] \in Done \ {"success"}

RunGoesOn ==
    task["prepare"] # "none" /\ task["finalize"] = "none" =>
        (\A src \in Site : task[src] \in Done) \/ \E src \in Source : Moves(src)

\* The DAG run never waits for itself: between prepare_claim and finalize_scrape, which
\* comes when every site is settled, there is a task with a step to make.
THEOREM NoTaskWaitsForEver == Spec => []RunGoesOn
<1>1. ASSUME Inv, Order, task["prepare"] # "none", NEW site \in Site, task[site] \notin Done
      PROVE  \E src \in Source : Moves(src)
  <2>1. \A src \in Source : task[src] \in TaskState
    BY <1>1 DEF Inv, TypeOK, Task
  <2>2. site \in Source /\ "kbo" \in Source /\ Upstream(site) = "kbo" /\ Upstream("kbo") = "prepare"
    BY DEF Source, Upstream
  <2>3. CASE task["kbo"] \in Done
    <3>1. Moves(site)
      BY <1>1, <2>1, <2>2, <2>3 DEF Moves, CanStart, Order, TaskState, Done
    <3>2. QED
      BY <2>2, <3>1
  <2>4. CASE task["kbo"] \notin Done
    <3>1. Moves("kbo")
      BY <1>1, <2>1, <2>2, <2>4 DEF Moves, CanStart, Order, TaskState, Done
    <3>2. QED
      BY <2>2, <3>1
  <2>5. QED
    BY <2>3, <2>4
<1>2. Inv /\ Order => RunGoesOn
  BY <1>1 DEF RunGoesOn
<1>3. QED
  BY <1>2, OrderHolds, PTL

\* A KBO over Tor keeps what _scrape_one_source says: the sites are skipped only if no
\* number had its KBO pages scraped in this run.  (Without Tor the run kbo_without_tor
\* shows the opposite.)
THEOREM OverTorNoSiteIsLost ==
    ASSUME UseTor
    PROVE  Spec => []SkippedOnlyWithoutKbo
<1>1. Inv /\ Order /\ KboResult /\ SkippedOnlyWithoutKbo /\ [Next]_vars => SkippedOnlyWithoutKbo'
  <2> SUFFICES ASSUME Inv, Order, KboResult, SkippedOnlyWithoutKbo, [Next]_vars,
                      NEW site \in Site \cap Enabled, task'[site] = "skipped"
               PROVE  ok'["kbo"] = {}
    BY DEF SkippedOnlyWithoutKbo
  <2> USE DEF Inv
  <2>0. /\ site \in Task \ {"kbo", "prepare", "finalize"}
        /\ "kbo" \in Source /\ Upstream(site) = "kbo"
    BY DEF Task, Source, Upstream
  <2>1. ASSUME task[site] = "skipped" PROVE ok["kbo"] = {} /\ task["kbo"] \in Done
    BY <2>0, <2>1 DEF SkippedOnlyWithoutKbo, TaskOrder
  <2>2. ASSUME NEW src \in Source, Run(src) PROVE ok'["kbo"] = {}
    <3>1. /\ task[src] \notin Done /\ \A t \in Task \ {src} : task'[t] = task[t]
          /\ PassOver(src) \/ Skip(src) \/ Start(src) \/ Yields(src)
      BY <2>2, WorkYields
    <3>2. CASE task[site] = "skipped"
      <4>1. src # "kbo" /\ ok["kbo"] = {}
        BY <2>1, <3>1, <3>2
      <4>2. ok'["kbo"] = ok["kbo"]
        <5>1. CASE PassOver(src) \/ Skip(src)
          BY <5>1 DEF PassOver, Skip, scraping
        <5>2. CASE Start(src)
          BY <2>0, <4>1, <5>2 DEF Start, TypeOK
        <5>3. CASE Yields(src)
          BY <2>0, <4>1, <5>3 DEF Yields
        <5>4. QED
          BY <3>1, <5>1, <5>2, <5>3
      <4>3. QED
        BY <4>1, <4>2
    <3>3. CASE task[site] # "skipped"
      <4>1. src = site
        BY <2>0, <3>1, <3>3
      <4>2. ok' = ok /\ ok["kbo"] = {}
        <5>1. CASE PassOver(src)
          <6>1. task["kbo"] = "skipped"
            BY <2>0, <4>1, <5>1 DEF PassOver, SetTask, TypeOK
          <6>2. QED
            BY <5>1, <6>1 DEF PassOver, scraping, KboResult
        <5>2. CASE Skip(src)
          <6>1. task["kbo"] = "success" /\ Skipped(site)
            BY <2>0, <4>1, <5>2 DEF Skip, CanStart
          <6>2. claimed \cap kboOk = {} /\ kboOk = ok["kbo"]
            BY <2>0, <6>1 DEF Skipped, Numbers, KboResult
          <6>3. QED
            BY <5>2, <6>2 DEF Skip, scraping, KboResult
        <5>3. CASE Start(src) \/ Yields(src)
          BY <2>0, <4>1, <5>3 DEF Start, SetTask, Yields, TypeOK
        <5>4. QED
          BY <3>1, <5>1, <5>2, <5>3
      <4>3. QED
        BY <4>2
    <3>4. QED
      BY <3>2, <3>3
  <2>3. ASSUME NEW S \in SUBSET Enterprise, Prepare(S) PROVE ok'["kbo"] = {}
    BY <2>0, <2>1, <2>3 DEF Prepare, SetTask, scraping, TypeOK
  <2>4. CASE Finalize
    BY <2>0, <2>1, <2>4 DEF Finalize, SetTask, scraping, TypeOK
  <2>5. CASE UNCHANGED vars
    BY <2>1, <2>5 DEF vars, scraping
  <2>6. QED
    BY <2>2, <2>3, <2>4, <2>5 DEF Next
<1>2. Init => SkippedOnlyWithoutKbo
  BY DEF Init, SkippedOnlyWithoutKbo, Source
<1>3. QED
  BY <1>1, <1>2, OrderHolds, PTL DEF Spec

==============================================================================
