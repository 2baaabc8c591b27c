------------------------------- MODULE Recorder -------------------------------
(***************************************************************************)
(* The asynchronous query recorder (src/src/recorder/recorder.go).         *)
(*                                                                         *)
(* DNS handlers hand entries to Enqueue, which never blocks.  A collector  *)
(* goroutine moves them from the input channel ch to the task channel      *)
(* taskCh; a pool of workers inserts them one at a time; an entry whose    *)
(* GeoIP data is missing is put on retryCh and one retry goroutine looks   *)
(* it up again and updates the stored row.  Close closes the stop channel  *)
(* and waits for all goroutines before it closes the database.             *)
(*                                                                         *)
(* A *Entry is an element of Entries: every call of Enqueue passes a fresh *)
(* one.  The row an insert creates is named by its entry (RecorderDB.tla   *)
(* models the row ids and the transactions).  The process may be killed    *)
(* and started again at any moment (Restart).                              *)
(***************************************************************************)
EXTENDS Naturals, Sequences, FiniteSets, Functions

CONSTANTS
  Entries,      \* the entries the DNS handlers hand over
  GeoFailed,    \* those with Entry.GeoFailed set; none when geo is nil
  WithEcs,      \* those with a non-empty EDNSSubnet
  Workers,      \* the worker goroutines (4 in the code)
  ChCap,        \* capacity of ch      (1024 in the code)
  TaskCap,      \* capacity of taskCh  (1024 in the code)
  RetryCap,     \* capacity of retryCh (256 in the code)
  MaxAttempts,  \* lookups per retry job (3 in the code)
  MaxRestarts,  \* bound of the model: how often the process is restarted
  None          \* "no entry"

ASSUME RecorderAssumption ==
  /\ IsFiniteSet(Entries)
  /\ GeoFailed \subseteq Entries
  /\ WithEcs \subseteq Entries
  /\ ChCap \in Nat \ {0}
  /\ TaskCap \in Nat \ {0}
  /\ RetryCap \in Nat \ {0}
  /\ MaxAttempts \in Nat \ {0}
  /\ MaxRestarts \in Nat
  /\ Workers # {}
  /\ None \notin Entries

VARIABLES
  ch,        \* Recorder.ch
  taskCh,    \* Recorder.taskCh
  taskClosed,\* close(taskCh) was executed
  retryCh,   \* Recorder.retryCh
  stopped,   \* close(stop) was executed
  dbClosed,  \* db.Close was executed
  dropped,   \* Recorder.dropped
  cpc,       \* program point of the collector
  hand,      \* the entry the collector is about to send, or None
  wpc,       \* program point of each worker
  task,      \* the entry each worker is inserting, or None
  rpc,       \* program point of the retry goroutine
  job,       \* the retry job in progress, or None
  attempt,   \* attempt number of that job
  rows,      \* entries with a row in the database (persistent)
  enriched,  \* rows whose geo columns the retry goroutine wrote (persistent)
  calls,     \* history: entries Enqueue was called for
  refused,   \* history: entries whose drop this process counted
  early,     \* history: entries accepted before close(stop)
  skipped,   \* history: rows whose retry job found retryCh full
  gone,      \* history: entries an earlier process dropped or lost
  restarts   \* number of restarts so far

chans == <<ch, taskCh, taskClosed, retryCh>>
life  == <<stopped, dbClosed>>
coll  == <<cpc, hand>>
pool  == <<wpc, task>>
retry == <<rpc, job, attempt>>
db    == <<rows, enriched>>
hist  == <<calls, refused, early, skipped, gone, restarts>>
vars  == <<chans, life, dropped, coll, pool, retry, db, hist>>

-----------------------------------------------------------------------------
(* New: fresh channels and goroutines.                                     *)

Init ==
  /\ ch = <<>> /\ taskCh = <<>> /\ retryCh = <<>>
  /\ taskClosed = FALSE /\ stopped = FALSE /\ dbClosed = FALSE
  /\ dropped = 0
  /\ cpc = "select" /\ hand = None
  /\ wpc = [w \in Workers |-> "recv"]
  /\ task = [w \in Workers |-> None]
  /\ rpc = "select" /\ job = None /\ attempt = 0
  /\ rows = {} /\ enriched = {}
  /\ calls = {} /\ refused = {} /\ early = {} /\ skipped = {} /\ gone = {}
  /\ restarts = 0

(* Entries a running process has accepted and neither stored nor dropped. *)
Inserting == {task[w] : w \in {v \in Workers : wpc[v] = "insert"}}
Held      == {hand} \ {None}
InFlight  == Range(ch) \cup Held \cup Range(taskCh) \cup Inserting

-----------------------------------------------------------------------------
(* Enqueue: a non-blocking send; a full channel counts a drop.             *)

\* Faulty variant: the increment of the counter is lost.
DropUncounted(e) ==
  /\ dropped' = dropped
  /\ refused' = refused \cup {e}

Drop(e) ==
  /\ dropped' = dropped + 1
  /\ refused' = refused \cup {e}

Enqueue(e) ==
  /\ e \in Entries \ calls
  /\ calls' = calls \cup {e}
  /\ \/ /\ Len(ch) < ChCap
        /\ ch' = Append(ch, e)
        /\ early' = IF stopped THEN early ELSE early \cup {e}
        /\ UNCHANGED <<dropped, refused>>
     \/ /\ Len(ch) >= ChCap
        /\ Drop(e)
        /\ UNCHANGED <<ch, early>>
  /\ UNCHANGED <<taskCh, taskClosed, retryCh, life, coll, pool, retry, db,
                 skipped, gone, restarts>>

-----------------------------------------------------------------------------
(* collect: the collector goroutine.                                       *)

\* The outer select: both cases may be ready, either may be taken.
CollectorStop ==
  /\ cpc = "select" /\ stopped
  /\ cpc' = "drain"
  /\ UNCHANGED <<chans, life, dropped, hand, pool, retry, db, hist>>

\* Receive from ch, in the outer select or in the drain loop.
CollectorTake ==
  /\ cpc \in {"select", "drain"} /\ ch # <<>>
  /\ hand' = Head(ch)
  /\ ch' = Tail(ch)
  /\ cpc' = IF cpc = "select" THEN "send" ELSE "drainSend"
  /\ UNCHANGED <<taskCh, taskClosed, retryCh, life, dropped, pool, retry, db, hist>>

\* Faulty variant: a full taskCh discards the entry instead of blocking.
CollectorSendOrLose ==
  /\ cpc \in {"send", "drainSend"}
  /\ taskCh' = IF Len(taskCh) < TaskCap THEN Append(taskCh, hand) ELSE taskCh
  /\ hand' = None
  /\ cpc' = IF cpc = "send" THEN "select" ELSE "drain"
  /\ UNCHANGED <<ch, taskClosed, retryCh, life, dropped, pool, retry, db, hist>>

\* r.taskCh <- e blocks while taskCh is full.
CollectorSend ==
  /\ cpc \in {"send", "drainSend"} /\ Len(taskCh) < TaskCap
  /\ taskCh' = Append(taskCh, hand)
  /\ hand' = None
  /\ cpc' = IF cpc = "send" THEN "select" ELSE "drain"
  /\ UNCHANGED <<ch, taskClosed, retryCh, life, dropped, pool, retry, db, hist>>

\* Faulty variants: return without draining; forget close(taskCh).
CollectorExitUndrained ==
  /\ cpc = "drain"
  /\ taskClosed' = TRUE
  /\ cpc' = "done"
  /\ UNCHANGED <<ch, taskCh, retryCh, life, dropped, hand, pool, retry, db, hist>>

CollectorExitUnclosed ==
  /\ cpc = "drain" /\ ch = <<>>
  /\ cpc' = "done"
  /\ UNCHANGED <<chans, life, dropped, hand, pool, retry, db, hist>>

\* The drain loop found ch empty: close(taskCh) and return.
CollectorExit ==
  /\ cpc = "drain" /\ ch = <<>>
  /\ taskClosed' = TRUE
  /\ cpc' = "done"
  /\ UNCHANGED <<ch, taskCh, retryCh, life, dropped, hand, pool, retry, db, hist>>

Collector == CollectorStop \/ CollectorTake \/ CollectorSend \/ CollectorExit

-----------------------------------------------------------------------------
(* worker and insertOne.                                                   *)

WorkerTake(w) ==
  /\ wpc[w] = "recv" /\ taskCh # <<>>
  /\ task' = [task EXCEPT ![w] = Head(taskCh)]
  /\ taskCh' = Tail(taskCh)
  /\ wpc' = [wpc EXCEPT ![w] = "insert"]
  /\ UNCHANGED <<ch, taskClosed, retryCh, life, dropped, coll, retry, db, hist>>

\* Faulty variant: leave as soon as the channel is closed, even if not empty.
WorkerExitAtClose(w) ==
  /\ wpc[w] = "recv" /\ taskClosed
  /\ wpc' = [wpc EXCEPT ![w] = "done"]
  /\ UNCHANGED <<chans, life, dropped, coll, task, retry, db, hist>>

\* "for e := range r.taskCh" ends when the channel is closed and empty.
WorkerExit(w) ==
  /\ wpc[w] = "recv" /\ taskCh = <<>> /\ taskClosed
  /\ wpc' = [wpc EXCEPT ![w] = "done"]
  /\ UNCHANGED <<chans, life, dropped, coll, task, retry, db, hist>>

\* The insert commits; a GeoFailed entry goes on to queue its retry job.
InsertOk(w) ==
  /\ wpc[w] = "insert" /\ ~dbClosed
  /\ rows' = rows \cup {task[w]}
  /\ IF task[w] \in GeoFailed
     THEN /\ wpc' = [wpc EXCEPT ![w] = "queueRetry"]
          /\ UNCHANGED task
     ELSE /\ wpc' = [wpc EXCEPT ![w] = "recv"]
          /\ task' = [task EXCEPT ![w] = None]
  /\ UNCHANGED <<chans, life, dropped, coll, retry, enriched, hist>>

\* Faulty variant: no return after the error, the retry is queued anyway.
InsertFailQueues(w) ==
  /\ wpc[w] = "insert"
  /\ Drop(task[w])
  /\ wpc' = [wpc EXCEPT ![w] = IF task[w] \in GeoFailed THEN "queueRetry" ELSE "recv"]
  /\ UNCHANGED <<task, chans, life, coll, retry, db, calls, early, skipped, gone, restarts>>

\* The insert returned an error (always possible): count it and give up.
InsertFail(w) ==
  /\ wpc[w] = "insert"
  /\ Drop(task[w])
  /\ wpc' = [wpc EXCEPT ![w] = "recv"]
  /\ task' = [task EXCEPT ![w] = None]
  /\ UNCHANGED <<chans, life, coll, retry, db, calls, early, skipped, gone, restarts>>

\* Non-blocking send of the retry job; a full retryCh abandons it.
QueueRetry(w) ==
  /\ wpc[w] = "queueRetry"
  /\ \/ /\ Len(retryCh) < RetryCap
        /\ retryCh' = Append(retryCh, task[w])
        /\ UNCHANGED skipped
     \/ /\ Len(retryCh) >= RetryCap
        /\ skipped' = skipped \cup {task[w]}
        /\ UNCHANGED retryCh
  /\ wpc' = [wpc EXCEPT ![w] = "recv"]
  /\ task' = [task EXCEPT ![w] = None]
  /\ UNCHANGED <<ch, taskCh, taskClosed, life, dropped, coll, retry, db,
                 calls, refused, early, gone, restarts>>

Worker(w) ==
  \/ WorkerTake(w) \/ WorkerExit(w)
  \/ InsertOk(w) \/ InsertFail(w) \/ QueueRetry(w)

-----------------------------------------------------------------------------
(* geoRetryWorker and retryGeo.                                            *)

RetryStop ==
  /\ rpc = "select" /\ stopped
  /\ rpc' = "done"
  /\ UNCHANGED <<chans, life, dropped, coll, pool, job, attempt, db, hist>>

RetryTake ==
  /\ rpc = "select" /\ retryCh # <<>>
  /\ job' = Head(retryCh)
  /\ retryCh' = Tail(retryCh)
  /\ attempt' = 0
  /\ rpc' = "lookup"
  /\ UNCHANGED <<ch, taskCh, taskClosed, life, dropped, coll, pool, db, hist>>

\* retryGeo returns to the select of geoRetryWorker.
JobDone ==
  /\ rpc' = "select"
  /\ job' = None
  /\ attempt' = 0

\* Faulty variant: attempts are not counted.
NextAttemptForever ==
  /\ rpc' = "backoff"
  /\ UNCHANGED <<attempt, job>>

\* "continue": another attempt after a pause, or the job is exhausted.
NextAttempt ==
  IF attempt + 1 < MaxAttempts
  THEN /\ rpc' = "backoff"
       /\ attempt' = attempt + 1
       /\ UNCHANGED job
  ELSE JobDone

\* geo.Lookup(job.ClientIP) fails, or returns a result.
RetryLookup ==
  /\ rpc = "lookup"
  /\ \/ NextAttempt
     \/ rpc' = "updateQueries" /\ UNCHANGED <<job, attempt>>
  /\ UNCHANGED <<chans, life, dropped, coll, pool, db, hist>>

\* UPDATE queries: an error is a failed attempt.
RetryUpdateQueries ==
  /\ rpc = "updateQueries"
  /\ \/ NextAttempt /\ UNCHANGED db
     \/ /\ ~dbClosed
        /\ enriched' = enriched \cup {job}
        /\ UNCHANGED rows
        /\ IF job \in WithEcs
           THEN rpc' = "edns" /\ UNCHANGED <<job, attempt>>
           ELSE JobDone
  /\ UNCHANGED <<chans, life, dropped, coll, pool, hist>>

\* The lookup of the EDNS subnet and its UPDATE edns: errors are ignored.
RetryEdns ==
  /\ rpc = "edns"
  /\ JobDone
  /\ UNCHANGED <<chans, life, dropped, coll, pool, db, hist>>

\* The 30 s timer fires, or stop is closed and the job is abandoned.
RetryBackoff ==
  /\ rpc = "backoff"
  /\ \/ rpc' = "lookup" /\ UNCHANGED <<job, attempt>>
     \/ stopped /\ JobDone
  /\ UNCHANGED <<chans, life, dropped, coll, pool, db, hist>>

Retry ==
  \/ RetryStop \/ RetryTake \/ RetryLookup
  \/ RetryUpdateQueries \/ RetryEdns \/ RetryBackoff

-----------------------------------------------------------------------------
(* Close: close(stop), wait for every goroutine, close the database.       *)

BeginClose ==
  /\ ~stopped
  /\ stopped' = TRUE
  /\ UNCHANGED <<chans, dbClosed, dropped, coll, pool, retry, db, hist>>

\* Faulty variant: wg.Add(1) is missing for the retry goroutine.
WaitGroupWithoutRetry ==
  /\ cpc = "done"
  /\ \A w \in Workers : wpc[w] = "done"

WaitGroupDone ==
  /\ cpc = "done"
  /\ \A w \in Workers : wpc[w] = "done"
  /\ rpc = "done"

FinishClose ==
  /\ stopped /\ ~dbClosed
  /\ WaitGroupDone
  /\ dbClosed' = TRUE
  /\ UNCHANGED <<chans, stopped, dropped, coll, pool, retry, db, hist>>

\* The process ends, cleanly or killed, and is started again: everything in
\* memory is lost, the database stays.
Restart ==
  /\ restarts < MaxRestarts
  /\ restarts' = restarts + 1
  /\ gone' = gone \cup refused \cup InFlight
  /\ refused' = {} /\ early' = {}
  /\ ch' = <<>> /\ taskCh' = <<>> /\ retryCh' = <<>>
  /\ taskClosed' = FALSE /\ stopped' = FALSE /\ dbClosed' = FALSE
  /\ dropped' = 0
  /\ cpc' = "select" /\ hand' = None
  /\ wpc' = [w \in Workers |-> "recv"]
  /\ task' = [w \in Workers |-> None]
  /\ rpc' = "select" /\ job' = None /\ attempt' = 0
  /\ UNCHANGED <<db, calls, skipped>>

Next ==
  \/ \E e \in Entries : Enqueue(e)
  \/ Collector
  \/ \E w \in Workers : Worker(w)
  \/ Retry
  \/ BeginClose \/ FinishClose
  \/ Restart

\* Goroutines that can run do run, and a database call or a lookup returns
\* (with a result or an error).  Nothing forces a query, Close or a restart.
Fairness ==
  /\ WF_vars(Collector)
  /\ \A w \in Workers : WF_vars(Worker(w))
  /\ WF_vars(Retry)
  /\ WF_vars(FinishClose)

Spec == Init /\ [][Next]_vars
FairSpec == Spec /\ Fairness

-----------------------------------------------------------------------------
(* What the recorder promises.                                             *)

TypeOK ==
  /\ ch \in Seq(Entries) /\ Len(ch) <= ChCap
  /\ taskCh \in Seq(Entries) /\ Len(taskCh) <= TaskCap
  /\ retryCh \in Seq(Entries) /\ Len(retryCh) <= RetryCap
  /\ taskClosed \in BOOLEAN /\ stopped \in BOOLEAN /\ dbClosed \in BOOLEAN
  /\ dropped \in Nat
  /\ cpc \in {"select", "send", "drain", "drainSend", "done"}
  /\ hand \in Entries \cup {None}
  /\ wpc \in [Workers -> {"recv", "insert", "queueRetry", "done"}]
  /\ task \in [Workers -> Entries \cup {None}]
  /\ rpc \in {"select", "lookup", "updateQueries", "edns", "backoff", "done"}
  /\ job \in Entries \cup {None}
  /\ attempt \in 0 .. MaxAttempts - 1
  /\ rows \subseteq Entries /\ enriched \subseteq Entries
  /\ calls \subseteq Entries /\ refused \subseteq Entries
  /\ early \subseteq Entries /\ skipped \subseteq Entries
  /\ gone \subseteq Entries
  /\ restarts \in 0 .. MaxRestarts

\* Every entry handed to Enqueue is in exactly one place: still in flight in
\* one goroutine or one channel, stored once, dropped and counted once, or
\* gone with an earlier process; and the counter of GetStats is exact.  No
\* entry is lost between two goroutines or inserted by two workers
\* (Enqueue, collect, worker, insertOne).
NoDup(s) == \A i, j \in DOMAIN s : s[i] = s[j] => i = j

ExactlyOnce ==
  /\ calls = InFlight \cup rows \cup refused \cup gone
  /\ NoDup(ch) /\ NoDup(taskCh)
  /\ \A v, w \in Workers :
       wpc[v] = "insert" /\ wpc[w] = "insert" /\ task[v] = task[w] => v = w
  /\ Range(ch) \cap (Held \cup Range(taskCh) \cup Inserting) = {}
  /\ Held \cap (Range(taskCh) \cup Inserting) = {}
  /\ Range(taskCh) \cap Inserting = {}
  /\ InFlight \cap (rows \cup refused \cup gone) = {}
  /\ rows \cap refused = {} /\ rows \cap gone = {} /\ refused \cap gone = {}
  /\ dropped = Cardinality(refused)

\* "Close flushes pending entries" (recorder.go:229): once the database is
\* closed, every entry accepted before the stop channel was closed has been
\* stored or counted as dropped, however the collector's two ready cases
\* were chosen.
CloseFlushes == dbClosed => early \subseteq rows \cup refused

\* Close waits for every goroutine: none still holds work that needs the
\* database once it is closed.
CloseIsQuiet ==
  dbClosed => Inserting = {} /\ taskCh = <<>> /\ job = None /\ rpc = "done"

\* The retry goroutine only works for rows that were committed and needed a
\* retry, never twice for the same row at once, and enriches no other row.
RetryOnlyStored ==
  /\ Range(retryCh) \cup ({job} \ {None}) \cup enriched \subseteq rows \cap GeoFailed
  /\ NoDup(retryCh)
  /\ job \notin Range(retryCh)

\* An entry accepted before Close is eventually stored or counted as dropped
\* (or lost with the process).
Settled == \A e \in Entries : e \in early ~> e \in rows \cup refused \cup gone

\* Close returns: the drain, the workers and the retry back-off all end.
CloseTerminates == stopped ~> (dbClosed \/ ~stopped)

\* A queued retry job is not stuck behind failing lookups of earlier jobs:
\* it is taken and ended, unless Close begins or the process restarts.
RetrySettles ==
  \A e \in Entries :
    e \in Range(retryCh) ~> (e \notin Range(retryCh) /\ job # e) \/ stopped

\* "Retry queue full; will be retried on next restart" (recorder.go:718): a
\* restart would queue the jobs that were skipped.
SkippedRetriedOnRestart == [][Restart => skipped \subseteq Range(retryCh')]_vars

-----------------------------------------------------------------------------
(* The recorder implements QueryLog.                                       *)

StatusOf(e) ==
  CASE e \in rows    -> "stored"
    [] e \in refused -> "dropped"
    [] e \in gone    -> "gone"
    [] e \in calls \ (rows \cup refused \cup gone) -> "pending"
    [] OTHER         -> "new"

Phase == IF dbClosed THEN "closed" ELSE IF stopped THEN "closing" ELSE "open"

Log == INSTANCE QueryLog WITH
  status <- [e \in Entries |-> StatusOf(e)],
  dropped <- dropped,
  phase <- Phase,
  owed <- early

\* Each step of the goroutines is a step of the abstract query log or leaves
\* it unchanged: handlers see one atomic log however the pipeline interleaves.
ImplementsLog == Log!Spec

=============================================================================
