---------------------------- MODULE RecorderProofs ----------------------------
(***************************************************************************)
(* Proofs about the query recorder: for every number of entries, workers   *)
(* and restarts and every channel capacity, no entry is lost, duplicated   *)
(* or counted wrongly, and Close flushes what it owes.  The second half is *)
(* about the readers of the recorder's tables.                             *)
(***************************************************************************)
EXTENDS Recorder, History, FiniteSetTheorems, SequenceTheorems, TLAPS

-----------------------------------------------------------------------------
(* Channels as sequences.                                                  *)

\* Append adds one element to the range and keeps the sequence duplicate-free.
LEMMA AppendFacts ==
  ASSUME NEW S, NEW s \in Seq(S), NEW e \in S
  PROVE  /\ Append(s, e) \in Seq(S) /\ Len(Append(s, e)) = Len(s) + 1
         /\ Range(Append(s, e)) = Range(s) \cup {e}
         /\ NoDup(s) /\ e \notin Range(s) => NoDup(Append(s, e))
<1>1. /\ DOMAIN Append(s, e) = 1 .. Len(s) + 1 /\ DOMAIN s = 1 .. Len(s)
      /\ \A i \in 1 .. Len(s) : Append(s, e)[i] = s[i]
      /\ Append(s, e)[Len(s) + 1] = e
      /\ Len(s) \in Nat
  OBVIOUS
<1>2. 1 .. Len(s) + 1 = 1 .. Len(s) \cup {Len(s) + 1}
  BY <1>1
<1>3. Range(Append(s, e)) = Range(s) \cup {e}
  BY <1>1, <1>2, ZenonT(40) DEF Range
<1>4. NoDup(s) /\ e \notin Range(s) => NoDup(Append(s, e))
  <2>1. SUFFICES ASSUME NoDup(s), e \notin Range(s),
                        NEW i \in 1 .. Len(s) + 1, NEW j \in 1 .. Len(s) + 1,
                        Append(s, e)[i] = Append(s, e)[j]
                 PROVE  i = j
    BY <1>1 DEF NoDup
  <2>2. \A k \in 1 .. Len(s) : s[k] # e
    BY <2>1, <1>1 DEF Range
  <2> QED BY <1>1, <1>2, <2>1, <2>2 DEF NoDup
<1> QED BY <1>3, <1>4

\* Tail removes exactly the head from a duplicate-free channel.
LEMMA TailFacts ==
  ASSUME NEW S, NEW s \in Seq(S), s # <<>>
  PROVE  /\ Tail(s) \in Seq(S) /\ Len(Tail(s)) = Len(s) - 1
         /\ Len(s) \in Nat \ {0}
         /\ Head(s) \in S /\ Head(s) \in Range(s)
         /\ Range(s) = {Head(s)} \cup Range(Tail(s))
         /\ NoDup(s) => /\ NoDup(Tail(s))
                        /\ Head(s) \notin Range(Tail(s))
<1>1. /\ Len(s) \in Nat \ {0} /\ DOMAIN s = 1 .. Len(s)
      /\ Tail(s) \in Seq(S) /\ Len(Tail(s)) = Len(s) - 1
      /\ DOMAIN Tail(s) = 1 .. Len(s) - 1
      /\ Head(s) = s[1] /\ Head(s) \in S
      /\ \A i \in 1 .. Len(s) - 1 : Tail(s)[i] = s[i + 1]
  OBVIOUS
<1>2. Head(s) \in Range(s)
  BY <1>1 DEF Range
<1>3. Range(s) = {Head(s)} \cup Range(Tail(s))
  <2>1. \A x \in Range(Tail(s)) : x \in Range(s)
    BY <1>1 DEF Range
  <2>2. \A i \in 1 .. Len(s) : i = 1 \/ i - 1 \in 1 .. Len(s) - 1
    BY <1>1
  <2>3. \A i \in 1 .. Len(s) : s[i] = Head(s) \/ s[i] = Tail(s)[i - 1]
    BY <1>1, <2>2
  <2>4. \A x \in Range(s) : x = Head(s) \/ x \in Range(Tail(s))
    BY <1>1, <2>2, <2>3 DEF Range
  <2> QED BY <1>2, <2>1, <2>4
<1>4. NoDup(s) => NoDup(Tail(s)) /\ Head(s) \notin Range(Tail(s))
  BY <1>1 DEF NoDup, Range
<1> QED BY <1>1, <1>2, <1>3, <1>4

\* The empty channel holds nothing.
LEMMA EmptyFacts ==
  ASSUME NEW S
  PROVE  <<>> \in Seq(S) /\ Len(<<>>) = 0 /\ Range(<<>>) = {} /\ NoDup(<<>>)
BY DEF Range, NoDup

-----------------------------------------------------------------------------
(* The inductive invariant.                                                *)

\* How the program points and the channels agree.
Control ==
  /\ hand # None <=> cpc \in {"send", "drainSend"}
  /\ cpc \in {"drain", "drainSend", "done"} => stopped
  /\ taskClosed <=> cpc = "done"
  /\ cpc = "done" => Range(ch) \cap early = {}
  /\ \A w \in Workers : wpc[w] = "done" => taskClosed /\ taskCh = <<>>
  /\ \A w \in Workers : wpc[w] \in {"insert", "queueRetry"} => task[w] \in Entries
  /\ rpc \in {"select", "done"} <=> job = None
  /\ dbClosed => stopped /\ WaitGroupDone
  /\ early \subseteq calls /\ early \cap gone = {}

IInv == TypeOK /\ Control /\ ExactlyOnce

\* What the workers are inserting, after a step of one of them.
LEMMA InsertingUnchanged ==
  ASSUME wpc' = wpc, task' = task
  PROVE  Inserting' = Inserting
BY DEF Inserting

\* A worker takes an entry.
LEMMA InsertingStarts ==
  ASSUME TypeOK, NEW w \in Workers, NEW e, wpc[w] # "insert",
         wpc' = [wpc EXCEPT ![w] = "insert"], task' = [task EXCEPT ![w] = e]
  PROVE  Inserting' = Inserting \cup {e}
BY DEF Inserting, TypeOK

\* A worker is done with the entry it inserts.
LEMMA InsertingEnds ==
  ASSUME TypeOK, ExactlyOnce, NEW w \in Workers, NEW next, next # "insert", wpc[w] = "insert",
         wpc' = [wpc EXCEPT ![w] = next],
         task' = task \/ task' = [task EXCEPT ![w] = None]
  PROVE  Inserting' = Inserting \ {task[w]} /\ task[w] \in Inserting
BY DEF Inserting, TypeOK, ExactlyOnce

\* A worker that inserts nothing goes elsewhere.
LEMMA InsertingOther ==
  ASSUME TypeOK, NEW w \in Workers, NEW next, next # "insert", wpc[w] # "insert",
         wpc' = [wpc EXCEPT ![w] = next],
         task' = task \/ task' = [task EXCEPT ![w] = None]
  PROVE  Inserting' = Inserting
BY DEF Inserting, TypeOK

\* Counting a drop.
LEMMA DropCounts ==
  ASSUME TypeOK, dropped = Cardinality(refused),
         NEW e \in Entries, e \notin refused, Drop(e)
  PROVE  dropped' = Cardinality(refused') /\ dropped' \in Nat /\ refused' \subseteq Entries
<1>1. IsFiniteSet(refused)
  BY RecorderAssumption, FS_Subset DEF TypeOK
<1>2. Cardinality(refused \cup {e}) = Cardinality(refused) + 1
  BY <1>1, FS_AddElement
<1> QED BY <1>2 DEF Drop, TypeOK

\* The recorder that New returns.
LEMMA InitIInv == Init => IInv
<1> SUFFICES ASSUME Init PROVE IInv
  OBVIOUS
<1>1. TypeOK
  <2>1. /\ ch \in Seq(Entries) /\ Len(ch) <= ChCap
        /\ taskCh \in Seq(Entries) /\ Len(taskCh) <= TaskCap
        /\ retryCh \in Seq(Entries) /\ Len(retryCh) <= RetryCap
    BY RecorderAssumption, EmptyFacts DEF Init
  <2>2. attempt \in 0 .. MaxAttempts - 1 /\ restarts \in 0 .. MaxRestarts
    BY RecorderAssumption DEF Init
  <2> QED BY <2>1, <2>2 DEF Init, TypeOK
<1>2. Control
  BY EmptyFacts DEF Init, Control
<1>3. ExactlyOnce
  BY EmptyFacts, FS_EmptySet DEF Init, ExactlyOnce, InFlight, Held, Inserting
<1> QED BY <1>1, <1>2, <1>3 DEF IInv

\* Every step keeps the invariant: one step per action, and under it the
\* types, the control part and the accounting.
LEMMA EnqueueIInv ==
  ASSUME IInv, NEW e \in Entries, Enqueue(e)
  PROVE  IInv'
<1> USE DEF IInv
<1>0. /\ e \notin InFlight /\ e \notin rows /\ e \notin refused /\ e \notin gone
      /\ Inserting' = Inserting /\ Held' = Held /\ e \notin calls
  BY InsertingUnchanged DEF Enqueue, ExactlyOnce, coll, pool, Held
<1>1. CASE Len(ch) < ChCap /\ ch' = Append(ch, e)
           /\ early' = (IF stopped THEN early ELSE early \cup {e})
           /\ UNCHANGED <<dropped, refused>>
  <2>0. ch \in Seq(Entries) /\ Len(ch) \in Nat
    BY DEF TypeOK
  <2>1. /\ ch' \in Seq(Entries) /\ Len(ch') = Len(ch) + 1
        /\ Range(ch') = Range(ch) \cup {e}
        /\ NoDup(ch) /\ e \notin Range(ch) => NoDup(ch')
    BY <1>1, <2>0, AppendFacts
  <2>2. TypeOK'
    BY <1>1, <2>0, <2>1, RecorderAssumption DEF Enqueue, TypeOK, life, coll, pool, retry, db
  <2>3. Control'
    BY <1>0, <1>1, <2>1 DEF Enqueue, Control, ExactlyOnce, WaitGroupDone, TypeOK, life, coll,
       pool, retry, db
  <2>4. ExactlyOnce'
    BY <1>0, <1>1, <2>1 DEF Enqueue, ExactlyOnce, InFlight, life, coll, pool, retry, db
  <2> QED BY <2>2, <2>3, <2>4
<1>2. CASE Drop(e) /\ UNCHANGED <<ch, early>>
  <2>1. dropped' = Cardinality(refused') /\ dropped' \in Nat /\ refused' \subseteq Entries
    BY <1>0, <1>2, DropCounts DEF ExactlyOnce
  <2>2. TypeOK'
    BY <1>2, <2>1 DEF Enqueue, TypeOK, life, coll, pool, retry, db
  <2>3. Control'
    BY <1>0, <1>2 DEF Enqueue, Control, WaitGroupDone, TypeOK, life, coll, pool, retry, db
  <2>4. ExactlyOnce'
    BY <1>0, <1>2, <2>1 DEF Enqueue, Drop, ExactlyOnce, InFlight, life, coll, pool, retry, db
  <2> QED BY <2>2, <2>3, <2>4
<1> QED BY <1>1, <1>2 DEF Enqueue

\* Each step of collect.
LEMMA CollectorIInv ==
  ASSUME IInv, Collector
  PROVE  IInv'
<1> USE DEF IInv
<1>0. Inserting' = Inserting
  BY InsertingUnchanged DEF Collector, CollectorStop, CollectorTake, CollectorSend,
     CollectorExit, pool
<1>1. CASE CollectorStop
  <2>1. TypeOK'
    BY <1>1 DEF CollectorStop, TypeOK, chans, life, coll, pool, retry, db, hist
  <2>2. Control'
    BY <1>1 DEF CollectorStop, Control, WaitGroupDone, chans, life, coll, pool, retry, db, hist
  <2>3. ExactlyOnce'
    BY <1>0, <1>1 DEF CollectorStop, ExactlyOnce, InFlight, Held, chans, life, coll, pool, retry,
       db, hist
  <2> QED BY <2>1, <2>2, <2>3
<1>2. CASE CollectorTake
  <2>0. ch \in Seq(Entries) /\ ch # <<>> /\ NoDup(ch)
    BY <1>2 DEF TypeOK, CollectorTake, ExactlyOnce
  <2>1. /\ ch' \in Seq(Entries) /\ Len(ch') = Len(ch) - 1 /\ Len(ch) \in Nat \ {0}
        /\ hand' \in Entries /\ hand' # None
        /\ Range(ch) = {hand'} \cup Range(ch')
        /\ NoDup(ch') /\ hand' \notin Range(ch')
    BY <1>2, <2>0, TailFacts, RecorderAssumption DEF CollectorTake
  <2>2. TypeOK'
    BY <1>2, <2>1, RecorderAssumption DEF CollectorTake, TypeOK, life, pool, retry, db, hist
  <2>3. Control'
    BY <1>2, <2>1 DEF CollectorTake, Control, WaitGroupDone, TypeOK, life, pool, retry, db, hist
  <2>4. Held = {} /\ Held' = {hand'}
    BY <1>2, <2>1 DEF Held, Control, CollectorTake
  <2>5. ExactlyOnce'
    BY <1>0, <1>2, <2>1, <2>4 DEF CollectorTake, ExactlyOnce, InFlight, life, pool, retry, db, hist
  <2> QED BY <2>2, <2>3, <2>5
<1>3. CASE CollectorSend
  <2>0. taskCh \in Seq(Entries) /\ Len(taskCh) \in Nat /\ hand \in Entries /\ hand # None
    BY <1>3 DEF TypeOK, Control, CollectorSend
  <2>1. /\ taskCh' \in Seq(Entries) /\ Len(taskCh') = Len(taskCh) + 1
        /\ Range(taskCh') = Range(taskCh) \cup {hand}
        /\ NoDup(taskCh) /\ hand \notin Range(taskCh) => NoDup(taskCh')
    BY <1>3, <2>0, AppendFacts DEF CollectorSend
  <2>2. TypeOK'
    BY <1>3, <2>0, <2>1, RecorderAssumption DEF CollectorSend, TypeOK, life, pool, retry, db, hist
  <2>3. Control'
    BY <1>3, <2>1 DEF CollectorSend, Control, WaitGroupDone, TypeOK, life, pool, retry, db, hist
  <2>4. Held = {hand} /\ Held' = {}
    BY <1>3, <2>0 DEF Held, CollectorSend
  <2>5. ExactlyOnce'
    BY <1>0, <1>3, <2>1, <2>4 DEF CollectorSend, ExactlyOnce, InFlight, life, pool, retry, db, hist
  <2> QED BY <2>2, <2>3, <2>5
<1>4. CASE CollectorExit
  <2>1. TypeOK'
    BY <1>4 DEF CollectorExit, TypeOK, life, pool, retry, db, hist
  <2>2. Control'
    BY <1>4, EmptyFacts DEF CollectorExit, Control, WaitGroupDone, life, pool, retry, db, hist
  <2>3. ExactlyOnce'
    BY <1>0, <1>4 DEF CollectorExit, ExactlyOnce, InFlight, Held, life, pool, retry, db, hist
  <2> QED BY <2>1, <2>2, <2>3
<1> QED BY <1>1, <1>2, <1>3, <1>4 DEF Collector

\* Each step of a worker, with insertOne.
LEMMA WorkerIInv ==
  ASSUME IInv, NEW w \in Workers, Worker(w)
  PROVE  IInv'
<1> USE DEF IInv
<1>0. Held' = Held
  BY DEF Worker, WorkerTake, WorkerExit, InsertOk, InsertFail, QueueRetry, Held, coll
<1>1. CASE WorkerTake(w)
  <2>0. taskCh \in Seq(Entries) /\ taskCh # <<>> /\ NoDup(taskCh)
    BY <1>1 DEF TypeOK, WorkerTake, ExactlyOnce
  <2> DEFINE e == Head(taskCh)
  <2>1. /\ taskCh' \in Seq(Entries) /\ Len(taskCh') = Len(taskCh) - 1
        /\ Len(taskCh) \in Nat \ {0} /\ e \in Entries
        /\ Range(taskCh) = {e} \cup Range(taskCh')
        /\ NoDup(taskCh') /\ e \notin Range(taskCh')
    BY <1>1, <2>0, TailFacts DEF WorkerTake
  <2>2. /\ wpc[w] = "recv"
        /\ task' = [task EXCEPT ![w] = e] /\ wpc' = [wpc EXCEPT ![w] = "insert"]
    BY <1>1 DEF WorkerTake
  <2>3. Inserting' = Inserting \cup {e}
    BY <2>2, InsertingStarts
  <2> HIDE DEF e
  <2>4. TypeOK'
    BY <1>1, <2>1, <2>2, RecorderAssumption DEF WorkerTake, TypeOK, life, coll, retry, db, hist
  <2>5. Control'
    BY <1>1, <2>0, <2>1, <2>2 DEF WorkerTake, Control, WaitGroupDone, TypeOK, life, coll, retry,
       db, hist
  <2>6. \A v \in Workers : wpc[v] = "insert" => task[v] # e
    BY <2>1 DEF ExactlyOnce, Inserting
  <2>7. \A u, v \in Workers :
          wpc'[u] = "insert" /\ wpc'[v] = "insert" /\ task'[u] = task'[v] => u = v
    BY <2>2, <2>6 DEF ExactlyOnce, TypeOK
  <2>8. ExactlyOnce'
    BY <1>0, <1>1, <2>1, <2>3, <2>7 DEF WorkerTake, ExactlyOnce, InFlight, life, coll, retry, db,
       hist
  <2> QED BY <2>4, <2>5, <2>8
<1>2. CASE WorkerExit(w)
  <2>0. Inserting' = Inserting
    BY <1>2, InsertingOther DEF WorkerExit
  <2>1. TypeOK'
    BY <1>2 DEF WorkerExit, TypeOK, chans, life, coll, retry, db, hist
  <2>2. Control'
    BY <1>2 DEF WorkerExit, Control, WaitGroupDone, TypeOK, chans, life, coll, retry, db, hist
  <2>3. ExactlyOnce'
    BY <1>0, <1>2, <2>0 DEF WorkerExit, ExactlyOnce, InFlight, TypeOK, chans, life, coll, retry,
       db, hist
  <2> QED BY <2>1, <2>2, <2>3
<1>3. CASE InsertOk(w)
  <2> DEFINE next == IF task[w] \in GeoFailed THEN "queueRetry" ELSE "recv"
  <2>0. /\ wpc[w] = "insert" /\ task[w] \in Entries
        /\ wpc' = [wpc EXCEPT ![w] = next] /\ next \in {"queueRetry", "recv"}
        /\ \/ task' = task /\ task[w] \in GeoFailed
           \/ task' = [task EXCEPT ![w] = None] /\ next = "recv"
    BY <1>3 DEF InsertOk, Control
  <2>1. Inserting' = Inserting \ {task[w]} /\ task[w] \in Inserting
    BY <2>0, InsertingEnds
  <2> HIDE DEF next
  <2>2. TypeOK'
    BY <1>3, <2>0 DEF InsertOk, TypeOK, chans, life, coll, retry, hist
  <2>3. Control'
    BY <1>3, <2>0 DEF InsertOk, Control, WaitGroupDone, TypeOK, chans, life, coll, retry, hist
  <2>4. \A u, v \in Workers :
          wpc'[u] = "insert" /\ wpc'[v] = "insert" /\ task'[u] = task'[v] => u = v
    BY <2>0 DEF ExactlyOnce, TypeOK
  <2>5. ExactlyOnce'
    BY <1>0, <1>3, <2>0, <2>1, <2>4 DEF InsertOk, ExactlyOnce, InFlight, chans, life, coll,
       retry, hist
  <2> QED BY <2>2, <2>3, <2>5
<1>4. CASE InsertFail(w)
  <2>0. /\ wpc[w] = "insert" /\ task[w] \in Entries /\ Drop(task[w])
        /\ wpc' = [wpc EXCEPT ![w] = "recv"] /\ task' = [task EXCEPT ![w] = None]
    BY <1>4 DEF InsertFail, Control
  <2>1. Inserting' = Inserting \ {task[w]} /\ task[w] \in Inserting
    BY <2>0, InsertingEnds
  <2>2. dropped' = Cardinality(refused') /\ dropped' \in Nat /\ refused' \subseteq Entries
    BY <2>0, <2>1, DropCounts DEF ExactlyOnce, InFlight
  <2>3. TypeOK'
    BY <1>4, <2>0, <2>2 DEF InsertFail, TypeOK, chans, life, coll, retry, db
  <2>4. Control'
    BY <1>4, <2>0 DEF InsertFail, Control, WaitGroupDone, TypeOK, chans, life, coll, retry, db
  <2>5. \A u, v \in Workers :
          wpc'[u] = "insert" /\ wpc'[v] = "insert" /\ task'[u] = task'[v] => u = v
    BY <2>0 DEF ExactlyOnce, TypeOK
  <2>6. ExactlyOnce'
    BY <1>0, <1>4, <2>0, <2>1, <2>2, <2>5 DEF InsertFail, Drop, ExactlyOnce, InFlight, chans,
       life, coll, retry, db
  <2> QED BY <2>3, <2>4, <2>6
<1>5. CASE QueueRetry(w)
  <2>0. /\ wpc[w] = "queueRetry" /\ task[w] \in Entries
        /\ wpc' = [wpc EXCEPT ![w] = "recv"] /\ task' = [task EXCEPT ![w] = None]
        /\ retryCh \in Seq(Entries) /\ Len(retryCh) \in Nat
    BY <1>5 DEF QueueRetry, Control, TypeOK
  <2>1. Inserting' = Inserting
    BY <2>0, InsertingOther
  <2> DEFINE longer == Append(retryCh, task[w])
  <2>a. longer \in Seq(Entries) /\ Len(longer) = Len(retryCh) + 1
    BY <2>0, AppendFacts
  <2> HIDE DEF longer
  <2>b. (retryCh' = longer /\ Len(retryCh) < RetryCap) \/ retryCh' = retryCh
    BY <1>5 DEF QueueRetry, longer
  <2>c. skipped' \subseteq Entries
    BY <1>5, <2>0 DEF QueueRetry, TypeOK
  <2>2. retryCh' \in Seq(Entries) /\ Len(retryCh') <= RetryCap /\ skipped' \subseteq Entries
    BY <2>0, <2>a, <2>b, <2>c, RecorderAssumption DEF TypeOK
  <2>3. TypeOK'
    BY <1>5, <2>0, <2>2 DEF QueueRetry, TypeOK, life, coll, retry, db
  <2>4. Control'
    BY <1>5, <2>0 DEF QueueRetry, Control, WaitGroupDone, TypeOK, life, coll, retry, db
  <2>5. \A u, v \in Workers :
          wpc'[u] = "insert" /\ wpc'[v] = "insert" /\ task'[u] = task'[v] => u = v
    BY <2>0 DEF ExactlyOnce, TypeOK
  <2>6. ExactlyOnce'
    BY <1>0, <1>5, <2>1, <2>5 DEF QueueRetry, ExactlyOnce, InFlight, life, coll, retry, db
  <2> QED BY <2>3, <2>4, <2>6
<1> QED BY <1>1, <1>2, <1>3, <1>4, <1>5 DEF Worker

\* The retry goroutine touches neither the entries in flight nor the counters.
LEMMA RetryIInv ==
  ASSUME IInv, Retry
  PROVE  IInv'
<1> USE DEF IInv
<1>1. /\ UNCHANGED <<ch, taskCh, taskClosed, life, dropped, coll, pool, rows, hist>>
      /\ Inserting' = Inserting /\ Held' = Held
  BY InsertingUnchanged
  DEF Retry, RetryStop, RetryTake, RetryLookup, RetryUpdateQueries, RetryEdns,
      RetryBackoff, chans, life, coll, pool, db, hist, Held
<1>2. ExactlyOnce'
  BY <1>1 DEF ExactlyOnce, InFlight, life, coll, pool, hist
<1>3. /\ retryCh' \in Seq(Entries) /\ Len(retryCh') <= RetryCap
      /\ enriched' \subseteq Entries
      /\ rpc' \in {"select", "lookup", "updateQueries", "edns", "backoff", "done"}
      /\ job' \in Entries \cup {None} /\ attempt' \in 0 .. MaxAttempts - 1
      /\ (rpc' \in {"select", "done"} <=> job' = None)
      /\ (rpc = "done" => rpc' = "done")
  <2>1. CASE RetryTake
    <3>1. retryCh \in Seq(Entries) /\ retryCh # <<>>
      BY <2>1 DEF RetryTake, TypeOK
    <3>2. /\ retryCh' \in Seq(Entries) /\ Len(retryCh') = Len(retryCh) - 1
          /\ Len(retryCh) \in Nat \ {0} /\ job' \in Entries
      BY <2>1, <3>1, TailFacts DEF RetryTake
    <3> QED BY <2>1, <3>2, RecorderAssumption DEF RetryTake, TypeOK, Control, db
  <2>2. CASE RetryStop
    BY <2>2 DEF RetryStop, TypeOK, Control, chans, db
  <2>3. CASE RetryLookup
    BY <2>3, RecorderAssumption DEF RetryLookup, NextAttempt, JobDone, TypeOK, Control, chans, db
  <2>4. CASE RetryUpdateQueries
    BY <2>4, RecorderAssumption DEF RetryUpdateQueries, NextAttempt, JobDone, TypeOK, Control,
       chans, db
  <2>5. CASE RetryEdns
    BY <2>5, RecorderAssumption DEF RetryEdns, JobDone, TypeOK, Control, chans, db
  <2>6. CASE RetryBackoff
    BY <2>6, RecorderAssumption DEF RetryBackoff, JobDone, TypeOK, Control, chans, db
  <2> QED BY <2>1, <2>2, <2>3, <2>4, <2>5, <2>6 DEF Retry
<1>4. TypeOK'
  BY <1>1, <1>3 DEF TypeOK, life, coll, pool, hist
<1>5. Control'
  BY <1>1, <1>3 DEF Control, WaitGroupDone, life, coll, pool, hist
<1> QED BY <1>2, <1>4, <1>5

\* Both halves of Close.
LEMMA CloseIInv ==
  ASSUME IInv, BeginClose \/ FinishClose
  PROVE  IInv'
<1> USE DEF IInv
<1>1. Inserting' = Inserting /\ Held' = Held
  BY InsertingUnchanged DEF BeginClose, FinishClose, pool, coll, Held
<1>2. TypeOK'
  BY DEF BeginClose, FinishClose, TypeOK, chans, coll, pool, retry, db, hist
<1>3. Control'
  BY DEF BeginClose, FinishClose, Control, WaitGroupDone, chans, coll, pool, retry, db, hist
<1>4. ExactlyOnce'
  BY <1>1 DEF BeginClose, FinishClose, ExactlyOnce, InFlight, chans, coll, pool, retry, db, hist
<1> QED BY <1>2, <1>3, <1>4

\* The end of the process and New.
LEMMA RestartIInv ==
  ASSUME IInv, Restart
  PROVE  IInv'
<1> USE DEF IInv
<1>1. InFlight \subseteq Entries
  <2>1. Range(ch) \subseteq Entries /\ Range(taskCh) \subseteq Entries
    BY DEF TypeOK, Range
  <2>2. Held \subseteq Entries /\ Inserting \subseteq Entries
    BY DEF TypeOK, Control, Held, Inserting
  <2> QED BY <2>1, <2>2 DEF InFlight
<1>2. /\ ch' \in Seq(Entries) /\ Len(ch') <= ChCap
      /\ taskCh' \in Seq(Entries) /\ Len(taskCh') <= TaskCap
      /\ retryCh' \in Seq(Entries) /\ Len(retryCh') <= RetryCap
      /\ attempt' \in 0 .. MaxAttempts - 1 /\ restarts' \in 0 .. MaxRestarts
  BY RecorderAssumption, EmptyFacts DEF Restart, TypeOK
<1>3. TypeOK'
  BY <1>1, <1>2 DEF Restart, TypeOK, db
<1>4. Control'
  BY EmptyFacts DEF Restart, Control, db
<1>5. Inserting' = {} /\ Held' = {}
  BY DEF Restart, Inserting, Held
<1>6. ExactlyOnce'
  BY <1>5, EmptyFacts, FS_EmptySet DEF Restart, ExactlyOnce, InFlight, db
<1> QED BY <1>3, <1>4, <1>6

\* A step that changes no variable.
LEMMA StutterIInv ==
  ASSUME IInv, UNCHANGED vars
  PROVE  IInv'
<1>1. Inserting' = Inserting /\ Held' = Held
  BY InsertingUnchanged DEF vars, pool, coll, Held
<1> QED
  BY <1>1 DEF IInv, TypeOK, Control, WaitGroupDone, ExactlyOnce, InFlight,
              vars, chans, life, coll, pool, retry, db, hist

\* In every reachable state each entry is in one place and each goroutine at a
\* point that fits what it and the channels hold.
THEOREM Inductive == Spec => []IInv
<1>1. IInv /\ [Next]_vars => IInv'
  <2> SUFFICES ASSUME IInv, [Next]_vars PROVE IInv'
    OBVIOUS
  <2> QED
    BY EnqueueIInv, CollectorIInv, WorkerIInv, RetryIInv, CloseIInv, RestartIInv,
       StutterIInv DEF Next
<1> QED BY InitIInv, <1>1, PTL DEF Spec

-----------------------------------------------------------------------------
(* The properties.                                                         *)

\* Every variable keeps its type; no channel exceeds its capacity.
THEOREM TypeCorrect == Spec => []TypeOK
BY Inductive, PTL DEF IInv

\* No entry handed to Enqueue is lost between goroutines, stored twice or
\* counted twice, and the drop counter of GetStats is exact.
THEOREM NoEntryLost == Spec => []ExactlyOnce
BY Inductive, PTL DEF IInv

\* When every goroutine has returned, the workers hold nothing, taskCh is
\* empty, and what is left in ch came after Close.
LEMMA QuietAfterClose ==
  ASSUME IInv, WaitGroupDone
  PROVE  /\ taskCh = <<>> /\ Inserting = {} /\ Held = {} /\ job = None
         /\ InFlight \cap early = {}
<1>1. taskCh = <<>>
  BY RecorderAssumption DEF IInv, Control, WaitGroupDone
<1>2. Inserting = {} /\ Held = {} /\ job = None
  BY DEF IInv, Control, WaitGroupDone, Inserting, Held
<1>3. InFlight = Range(ch)
  BY <1>1, <1>2, EmptyFacts DEF InFlight
<1> QED BY <1>1, <1>2, <1>3 DEF IInv, Control, WaitGroupDone

\* What Close owes is settled when the last goroutine has returned.
LEMMA OwedIsSettled ==
  ASSUME IInv, WaitGroupDone
  PROVE  early \subseteq rows \cup refused
BY QuietAfterClose DEF IInv, Control, ExactlyOnce

\* "Close flushes pending entries": once the database is closed, every entry
\* accepted before Close was stored or counted as dropped.
THEOREM CloseLosesNothing == Spec => []CloseFlushes
<1>1. IInv => CloseFlushes
  BY OwedIsSettled DEF IInv, Control, CloseFlushes
<1> QED BY Inductive, <1>1, PTL

\* No goroutine holds work once the database is closed.
THEOREM CloseLeavesNoWork == Spec => []CloseIsQuiet
<1>1. IInv => CloseIsQuiet
  BY QuietAfterClose DEF IInv, Control, CloseIsQuiet, WaitGroupDone
<1> QED BY Inductive, <1>1, PTL

-----------------------------------------------------------------------------
(* The recorder implements the abstract query log.                         *)

\* The abstract status, from the accounting.
LEMMA StatusFacts ==
  ASSUME IInv, NEW e \in Entries
  PROVE  /\ e \in rows => StatusOf(e) = "stored"
         /\ e \in refused => StatusOf(e) = "dropped"
         /\ e \in gone => StatusOf(e) = "gone"
         /\ e \in InFlight => StatusOf(e) = "pending"
         /\ e \notin calls => StatusOf(e) = "new"
         /\ e \in calls => e \in InFlight \/ e \in rows \/ e \in refused \/ e \in gone
BY DEF IInv, ExactlyOnce, StatusOf

\* What the abstract status depends on.
LEMMA StatusUnchanged ==
  ASSUME UNCHANGED <<rows, refused, gone, calls>>
  PROVE  [e \in Entries |-> StatusOf(e)]' = [e \in Entries |-> StatusOf(e)]
BY DEF StatusOf

\* Initial states map to initial states.
LEMMA InitLog == Init => Log!Init
<1> SUFFICES ASSUME Init PROVE Log!Init
  OBVIOUS
<1>1. \A e \in Entries : StatusOf(e) = "new"
  BY DEF Init, StatusOf
<1> QED BY <1>1 DEF Init, Log!Init, Phase

\* Every step is an abstract step or leaves the abstract log unchanged.
LEMMA StepLog ==
  ASSUME IInv, IInv', [Next]_vars
  PROVE  [Log!Next]_(Log!vars)
<1> DEFINE st == [e \in Entries |-> StatusOf(e)]
<1>a. st' = [e \in Entries |-> StatusOf(e)']
  OBVIOUS
<1>1. ASSUME UNCHANGED <<rows, refused, gone, calls, dropped, early, stopped, dbClosed>>
      PROVE  UNCHANGED Log!vars
  BY <1>1, StatusUnchanged DEF Log!vars, Phase
<1>2. ASSUME NEW e \in Entries, Enqueue(e) PROVE Log!Offer(e)
  <2>1. e \notin calls /\ StatusOf(e) = "new" /\ Phase' = Phase
    BY <1>2, StatusFacts DEF Enqueue, Phase, life
  <2>2. \A f \in Entries : f # e => StatusOf(f)' = StatusOf(f)
    BY <1>2 DEF Enqueue, Drop, StatusOf, db
  <2>3. UNCHANGED <<rows, gone>> /\ calls' = calls \cup {e}
    BY <1>2 DEF Enqueue, db
  <2>4. CASE ch' = Append(ch, e) /\ UNCHANGED <<dropped, refused>>
             /\ early' = (IF stopped THEN early ELSE early \cup {e})
    <3>1. StatusOf(e)' = "pending"
      BY <2>1, <2>3, <2>4 DEF StatusOf, IInv, ExactlyOnce
    <3>2. early' = IF Phase = "open" THEN early \cup {e} ELSE early
      BY <2>4 DEF Phase, IInv, Control
    <3> QED BY <2>1, <2>2, <2>4, <3>1, <3>2, <1>a DEF Log!Offer
  <2>5. CASE Drop(e) /\ UNCHANGED <<ch, early>>
    <3>1. StatusOf(e)' = "dropped"
      BY <2>1, <2>3, <2>5 DEF StatusOf, Drop, IInv, ExactlyOnce
    <3> QED BY <2>1, <2>2, <2>5, <3>1, <1>a DEF Log!Offer, Drop
  <2> QED BY <1>2, <2>4, <2>5 DEF Enqueue
<1>3. ASSUME Collector PROVE UNCHANGED Log!vars
  BY <1>1, <1>3 DEF Collector, CollectorStop, CollectorTake, CollectorSend,
     CollectorExit, life, db, hist
<1>4. ASSUME NEW w \in Workers, Worker(w) PROVE [Log!Next]_(Log!vars)
  <2>1. CASE InsertOk(w) \/ InsertFail(w)
    <3>0. PICK e \in Entries : e = task[w]
      BY <2>1 DEF InsertOk, InsertFail, IInv, Control
    <3>1. e \in Inserting /\ Phase # "closed"
      BY <2>1, <3>0 DEF InsertOk, InsertFail, IInv, Control, Inserting, WaitGroupDone, Phase
    <3>2. StatusOf(e) = "pending"
      BY <3>1, StatusFacts DEF InFlight
    <3>3. UNCHANGED <<early, calls, gone>> /\ Phase' = Phase
      BY <2>1 DEF InsertOk, InsertFail, life, hist, Phase
    <3>4. CASE InsertOk(w)
      <4>1. rows' = rows \cup {e} /\ UNCHANGED <<refused, dropped>>
        BY <3>0, <3>4 DEF InsertOk, hist
      <4>2. StatusOf(e)' = "stored"
        BY <4>1 DEF StatusOf, IInv, ExactlyOnce
      <4>3. \A f \in Entries : f # e => StatusOf(f)' = StatusOf(f)
        BY <3>3, <4>1 DEF StatusOf
      <4>4. Log!Settle(e)
        BY <3>1, <3>2, <3>3, <4>1, <4>2, <4>3, <1>a DEF Log!Settle
      <4> QED BY <3>1, <4>4 DEF Log!Next
    <3>5. CASE InsertFail(w)
      <4>1. refused' = refused \cup {e} /\ dropped' = dropped + 1 /\ rows' = rows
        BY <3>0, <3>5 DEF InsertFail, Drop, db
      <4>2. e \notin rows
        BY <3>1 DEF IInv, ExactlyOnce, InFlight
      <4>3. StatusOf(e)' = "dropped"
        BY <4>1, <4>2 DEF StatusOf, IInv, ExactlyOnce
      <4>4. \A f \in Entries : f # e => StatusOf(f)' = StatusOf(f)
        BY <3>3, <4>1 DEF StatusOf
      <4>5. Log!Settle(e)
        BY <3>1, <3>2, <3>3, <4>1, <4>3, <4>4, <1>a DEF Log!Settle
      <4> QED BY <3>1, <4>5 DEF Log!Next
    <3> QED BY <2>1, <3>4, <3>5
  <2>2. CASE WorkerTake(w) \/ WorkerExit(w) \/ QueueRetry(w)
    BY <1>1, <2>2 DEF WorkerTake, WorkerExit, QueueRetry, life, db, hist
  <2> QED BY <1>4, <2>1, <2>2 DEF Worker
<1>5. ASSUME Retry PROVE UNCHANGED Log!vars
  BY <1>1, <1>5 DEF Retry, RetryStop, RetryTake, RetryLookup, RetryUpdateQueries,
     RetryEdns, RetryBackoff, life, db, hist
<1>6. ASSUME BeginClose PROVE Log!BeginClose
  <2>1. UNCHANGED <<rows, refused, gone, calls, early, dropped>>
    BY <1>6 DEF BeginClose, db, hist
  <2>2. Phase = "open" /\ Phase' = "closing"
    BY <1>6 DEF BeginClose, Phase, IInv, Control
  <2> QED BY <2>1, <2>2, StatusUnchanged DEF Log!BeginClose
<1>7. ASSUME FinishClose PROVE Log!EndClose
  <2>1. UNCHANGED <<rows, refused, gone, calls, early, dropped>>
    BY <1>7 DEF FinishClose, db, hist
  <2>2. Phase = "closing" /\ Phase' = "closed"
    BY <1>7 DEF FinishClose, Phase
  <2>3. \A e \in early : e \in Entries /\ StatusOf(e) \in {"stored", "dropped"}
    BY <1>7, OwedIsSettled, StatusFacts DEF FinishClose, IInv, TypeOK
  <2> QED BY <2>1, <2>2, <2>3, StatusUnchanged DEF Log!EndClose
<1>8. ASSUME Restart PROVE Log!Restart
  <2>1. /\ UNCHANGED <<rows, calls>> /\ refused' = {}
        /\ gone' = gone \cup refused \cup InFlight
        /\ dropped' = 0 /\ early' = {} /\ Phase' = "open"
    BY <1>8 DEF Restart, db, Phase
  <2>2. ASSUME NEW e \in Entries
        PROVE  StatusOf(e)' = IF StatusOf(e) \in {"pending", "dropped"} THEN "gone"
                              ELSE StatusOf(e)
    <3>1. CASE e \in rows
      BY <2>1, <3>1, StatusFacts DEF StatusOf, IInv, ExactlyOnce
    <3>2. CASE e \notin calls
      BY <2>1, <3>2 DEF StatusOf, IInv, ExactlyOnce
    <3>3. CASE e \in refused \cup InFlight
      BY <2>1, <3>3, StatusFacts DEF StatusOf, IInv, ExactlyOnce
    <3>4. CASE e \in gone
      BY <2>1, <3>4, StatusFacts DEF StatusOf, IInv, ExactlyOnce
    <3> QED BY <3>1, <3>2, <3>3, <3>4 DEF IInv, ExactlyOnce
  <2> QED BY <2>1, <2>2, <1>a DEF Log!Restart
<1>9. ASSUME UNCHANGED vars PROVE UNCHANGED Log!vars
  BY <1>1, <1>9 DEF vars, life, db, hist
<1> QED
  BY <1>2, <1>3, <1>4, <1>5, <1>6, <1>7, <1>8, <1>9 DEF Next, Log!Next

\* The pipeline of channels and goroutines implements the atomic query log.
THEOREM Refinement == Spec => ImplementsLog
<1>1. [][IInv /\ IInv' /\ [Next]_vars]_vars => [][Log!Next]_(Log!vars)
  <2>1. IInv /\ IInv' /\ [Next]_vars => [Log!Next]_(Log!vars)
    BY StepLog
  <2>2. UNCHANGED vars => UNCHANGED Log!vars
    BY StatusUnchanged DEF vars, life, db, hist, Log!vars, Phase
  <2> QED BY <2>1, <2>2, PTL
<1> QED BY InitLog, Inductive, <1>1, PTL DEF Spec, ImplementsLog, Log!Spec

-----------------------------------------------------------------------------
(* Retry jobs.                                                             *)

\* A worker about to queue a retry holds a stored row nobody else retries.
Queueing ==
  /\ \A w \in Workers : wpc[w] = "queueRetry" =>
       /\ task[w] \in rows \cap GeoFailed
       /\ task[w] \notin Range(retryCh) /\ task[w] # job
  /\ \A v, w \in Workers :
       wpc[v] = "queueRetry" /\ wpc[w] = "queueRetry" /\ task[v] = task[w] => v = w

RInv == RetryOnlyStored /\ Queueing

\* Nothing is to be retried at first.
LEMMA InitRInv == Init => RInv
BY EmptyFacts DEF Init, RInv, RetryOnlyStored, Queueing

\* The steps that leave the rows and every retry job where they are.
LEMMA FrameRInv ==
  ASSUME RInv, UNCHANGED <<retryCh, rpc, job, rows, enriched>>,
         \A w \in Workers : wpc'[w] = "queueRetry" => wpc[w] = "queueRetry" /\ task'[w] = task[w]
  PROVE  RInv'
BY DEF RInv, RetryOnlyStored, Queueing

\* A worker queues what it has stored itself.
LEMMA WorkerRInv ==
  ASSUME IInv, RInv, NEW w \in Workers, Worker(w)
  PROVE  RInv'
<1>1. CASE WorkerTake(w) \/ WorkerExit(w) \/ InsertFail(w)
  BY <1>1, FrameRInv DEF WorkerTake, WorkerExit, InsertFail, chans, retry, db, IInv, TypeOK
<1>2. CASE InsertOk(w)
  <2>1. task[w] \notin rows /\ task[w] \in Entries
    BY <1>2 DEF InsertOk, IInv, Control, ExactlyOnce, InFlight, Inserting
  <2>2. /\ UNCHANGED <<retryCh, rpc, job, enriched>> /\ rows' = rows \cup {task[w]}
        /\ \A v \in Workers \ {w} : wpc'[v] = wpc[v] /\ task'[v] = task[v]
        /\ wpc'[w] = "queueRetry" => task'[w] = task[w] /\ task[w] \in GeoFailed
    BY <1>2 DEF InsertOk, chans, retry, IInv, TypeOK
  <2>3. RetryOnlyStored'
    BY <2>2 DEF RInv, RetryOnlyStored
  <2>4. task[w] \notin Range(retryCh) /\ task[w] # job
    BY <2>1, RecorderAssumption DEF RInv, RetryOnlyStored
  <2>5. Queueing'
    BY <2>1, <2>2, <2>4 DEF RInv, Queueing
  <2> QED BY <2>3, <2>5 DEF RInv
<1>3. CASE QueueRetry(w)
  <2>1. /\ wpc[w] = "queueRetry" /\ task[w] \in Entries
        /\ UNCHANGED <<rpc, job, rows, enriched>>
        /\ \A v \in Workers \ {w} : wpc'[v] = wpc[v] /\ task'[v] = task[v]
        /\ wpc'[w] = "recv"
        /\ retryCh' = retryCh \/ retryCh' = Append(retryCh, task[w])
    BY <1>3 DEF QueueRetry, retry, db, IInv, TypeOK, Control
  <2>2. CASE retryCh' = retryCh
    BY <2>1, <2>2, FrameRInv
  <2>3. CASE retryCh' = Append(retryCh, task[w])
    <3>1. /\ Range(retryCh') = Range(retryCh) \cup {task[w]}
          /\ NoDup(retryCh) /\ task[w] \notin Range(retryCh) => NoDup(retryCh')
      BY <2>1, <2>3, AppendFacts DEF IInv, TypeOK
    <3>2. task[w] \notin Range(retryCh) /\ task[w] # job /\ task[w] \in rows \cap GeoFailed
      BY <2>1 DEF RInv, Queueing
    <3>3. RetryOnlyStored'
      BY <2>1, <3>1, <3>2 DEF RInv, RetryOnlyStored
    <3>4. Queueing'
      BY <2>1, <3>1, <3>2 DEF RInv, Queueing
    <3> QED BY <3>3, <3>4 DEF RInv
  <2> QED BY <2>1, <2>2, <2>3
<1> QED BY <1>1, <1>2, <1>3 DEF Worker

\* The retry goroutine works for a stored row until it has enriched it.
LEMMA RetryRInv ==
  ASSUME IInv, RInv, Retry
  PROVE  RInv'
<1>1. UNCHANGED <<wpc, task, rows>>
  BY DEF Retry, RetryStop, RetryTake, RetryLookup, RetryUpdateQueries, RetryEdns,
     RetryBackoff, pool, db
<1>2. CASE RetryTake
  <2>1. /\ Range(retryCh) = {job'} \cup Range(retryCh')
        /\ NoDup(retryCh) => NoDup(retryCh') /\ job' \notin Range(retryCh')
    BY <1>2, TailFacts DEF RetryTake, IInv, TypeOK
  <2> QED BY <1>1, <1>2, <2>1 DEF RetryTake, RInv, RetryOnlyStored, Queueing, db
<1>3. CASE RetryUpdateQueries
  <2>1. /\ retryCh' = retryCh /\ (job' = job \/ job' = None)
        /\ enriched' \subseteq enriched \cup ({job} \ {None})
    BY <1>3 DEF RetryUpdateQueries, NextAttempt, JobDone, chans, db, IInv, Control
  <2>2. None \notin Range(retryCh) /\ \A w \in Workers : wpc[w] = "queueRetry" => task[w] # None
    BY RecorderAssumption DEF RInv, RetryOnlyStored, Queueing
  <2> QED BY <1>1, <2>1, <2>2 DEF RInv, RetryOnlyStored, Queueing
<1>4. CASE RetryStop \/ RetryLookup \/ RetryEdns \/ RetryBackoff
  <2>1. retryCh' = retryCh /\ (job' = job \/ job' = None) /\ enriched' = enriched
    BY <1>4 DEF RetryStop, RetryLookup, RetryEdns, RetryBackoff, NextAttempt, JobDone, chans, db
  <2>2. None \notin Range(retryCh) /\ \A w \in Workers : wpc[w] = "queueRetry" => task[w] # None
    BY RecorderAssumption DEF RInv, RetryOnlyStored, Queueing
  <2> QED BY <1>1, <2>1, <2>2 DEF RInv, RetryOnlyStored, Queueing
<1> QED BY <1>2, <1>3, <1>4 DEF Retry

\* The retry goroutine works only for committed rows that need a retry, one
\* job per row, and writes the geo columns of no other row.
THEOREM RetriesOnlyStoredRows == Spec => []RetryOnlyStored
<1>1. IInv /\ RInv /\ [Next]_vars => RInv'
  <2> SUFFICES ASSUME IInv, RInv, [Next]_vars PROVE RInv'
    OBVIOUS
  <2>1. ASSUME NEW e \in Entries, Enqueue(e) PROVE RInv'
    BY <2>1, FrameRInv DEF Enqueue, pool, retry, db
  <2>2. ASSUME Collector PROVE RInv'
    BY <2>2, FrameRInv DEF Collector, CollectorStop, CollectorTake, CollectorSend,
       CollectorExit, chans, pool, retry, db
  <2>3. ASSUME BeginClose \/ FinishClose \/ UNCHANGED vars PROVE RInv'
    BY <2>3, FrameRInv DEF BeginClose, FinishClose, vars, chans, pool, retry, db
  <2>4. ASSUME Restart PROVE RInv'
    BY <2>4, EmptyFacts DEF Restart, RInv, RetryOnlyStored, Queueing, db
  <2> QED BY <2>1, <2>2, <2>3, <2>4, WorkerRInv, RetryRInv DEF Next
<1>2. RInv => RetryOnlyStored
  BY DEF RInv
<1> QED BY Inductive, InitRInv, <1>1, <1>2, PTL DEF Spec

-----------------------------------------------------------------------------
(* The readers of the two tables (History.tla): any number of rows, page   *)
(* sizes and pages.                                                        *)

\* What the reader's request selects now.
Selected == Matching(request)

\* The selected rows before x in the order of the pages.
Above(x) == {y \in Selected : Arriving[y].at > Arriving[x].at}

\* created_at is written once, by the insert.
Times == \A i \in Ids : queries[i] # Null => queries[i].at = Arriving[i].at

\* The tables' part of ReaderTypeOK.
TableTypes ==
  /\ queries \in [Ids -> Rows \cup {Null}]
  /\ edns \in [Ids -> Countries \cup {Null}]
  /\ arrived \subseteq Ids

\* Where the reader is, and what it has asked for.
Asking ==
  /\ pc = "idle" => offset = 0 /\ seen = {} /\ items = <<>>
  /\ pc \in {"hits", "stats"} => request.kind = "stats"
  /\ pc \in {"page", "answer"} => request.kind # "stats"

\* The rows that came and went make up for the age of the count.
Counting == pc \in {"page", "hits"} => Cardinality(Selected) = total + came - went

\* How far the walk is.
Skipped == IF pc = "answer" THEN offset + Len(items) ELSE offset

\* A row not received yet has as many rows before it as the walk has skipped.
Ahead ==
  ~left => \A x \in present \ seen : Cardinality(Above(x)) >= Skipped

ReaderInv == ReaderTypeOK /\ Times /\ Asking /\ Counting /\ TotalFits

\* TotalFits needs no more than the count; WalkMissesNothing needs the order.
WalkInv == present \subseteq Selected /\ WalkMissesNothing /\ Ahead

\* No two rows of the same instant: rows of one created_at come in any order, and
\* the order may differ from page to page (History_ties.cfg).
DistinctTimes ==
  \A i, j \in Ids : Arriving[i].at = Arriving[j].at => i = j

\* A request selects stored rows, a finite number of them.
LEMMA SelectedRows ==
  ASSUME NEW r
  PROVE  /\ Matching(r) \subseteq Stored /\ Stored \subseteq Ids
         /\ IsFiniteSet(Stored) /\ IsFiniteSet(Matching(r))
         /\ Cardinality(Matching(r)) \in Nat /\ Cardinality(Stored) \in Nat
<1>1. Matching(r) \subseteq Stored /\ Stored \subseteq Ids
  BY DEF Matching, Stored, StoredEdns
<1>2. IsFiniteSet(Ids)
  BY HistoryAssumption
<1>3. IsFiniteSet(Stored)
  BY <1>1, <1>2, FS_Subset
<1>4. IsFiniteSet(Matching(r))
  BY <1>1, <1>3, FS_Subset
<1> QED BY <1>1, <1>3, <1>4, FS_CardinalityType

\* The same of the next state.
LEMMA SelectedNext ==
  /\ Selected' \subseteq Ids /\ IsFiniteSet(Selected')
  /\ Cardinality(Selected') \in Nat
<1>1. Selected' \subseteq Ids
  BY DEF Selected, Matching, Stored, StoredEdns
<1>2. IsFiniteSet(Ids)
  BY HistoryAssumption
<1>3. IsFiniteSet(Selected')
  BY <1>1, <1>2, FS_Subset
<1> QED BY <1>1, <1>3, FS_CardinalityType

\* What a request may ask for.
LEMMA RequestFields ==
  ASSUME NEW r \in Requests
  PROVE  r # Null /\ r.limit \in Int /\ (r.kind = "stats" => r.country = Null)
<1>1. Null \notin Requests /\ Limits \subseteq Int
  BY HistoryAssumption
<1>2. CASE r = [kind |-> "stats", country |-> Null, limit |-> 0]
  BY <1>1, <1>2
<1>3. CASE r # [kind |-> "stats", country |-> Null, limit |-> 0]
  <2>1. /\ r \in [kind : {"queries", "edns"}, country : (Countries \ {""}) \cup {Null},
                  limit : Limits]
    BY <1>3 DEF Requests
  <2>2. r.kind \in {"queries", "edns"} /\ r.limit \in Limits
    BY <2>1
  <2> QED BY <1>1, <2>2
<1> QED BY <1>2, <1>3

\* A page size is positive.
LEMMA LimitType ==
  ASSUME NEW n \in Int
  PROVE  Limit(n) \in Nat \ {0}
BY HistoryAssumption DEF Limit

\* ORDER BY lists every selected row once.
LEMMA SortedOnce ==
  ASSUME NEW S, IsFiniteSet(S), NEW s \in Sorted(S)
  PROVE  /\ s \in Seq(S) /\ Len(s) = Cardinality(S) /\ DOMAIN s = 1 .. Len(s)
         /\ \A x \in S : \E k \in 1 .. Len(s) : s[k] = x
         /\ \A j, k \in 1 .. Len(s) : s[j] = s[k] => j = k
<1> DEFINE n == Cardinality(S)
<1>1. n \in Nat
  BY FS_CardinalityType
<1>2. s \in [1 .. n -> S] /\ {s[k] : k \in DOMAIN s} = S
  BY DEF Sorted, Range
<1>3. s \in Surjection(1 .. n, S)
  BY <1>2 DEF Surjection
<1>4. IsFiniteSet(1 .. n) /\ Cardinality(1 .. n) = n
  BY <1>1, FS_Interval
<1>5. s \in Injection(1 .. n, S)
  BY <1>3, <1>4, FS_SurjSameCardinalityImpliesInj
<1>6. s \in Seq(S) /\ Len(s) = n /\ DOMAIN s = 1 .. n
  BY <1>1, <1>2
<1>7. \A j, k \in 1 .. n : s[j] = s[k] => j = k
  BY <1>5 DEF Injection, IsInjective
<1> QED BY <1>2, <1>6, <1>7

\* LIMIT n OFFSET o.
LEMMA PageRows ==
  ASSUME NEW S, NEW s \in Seq(S), NEW n \in Nat \ {0}, NEW o \in Nat
  PROVE  LET p == Page(s, n, o)
             end == IF o + n < Len(s) THEN o + n ELSE Len(s) IN
         /\ p \in Seq(S)
         /\ Len(p) = IF o < Len(s) THEN end - o ELSE 0
         /\ \A k \in 1 .. Len(p) : p[k] = s[o + k]
         /\ p = <<>> <=> Len(p) = 0
<1> DEFINE end == IF o + n < Len(s) THEN o + n ELSE Len(s)
           p == SubSeq(s, o + 1, end)
<1>1. Len(s) \in Nat /\ end \in Nat /\ end <= Len(s) /\ DOMAIN s = 1 .. Len(s)
  OBVIOUS
<1>2. p \in Seq(S)
  BY <1>1
<1>3. Len(p) = IF o < Len(s) THEN end - o ELSE 0
  BY <1>1
<1>4. ASSUME NEW k \in 1 .. Len(p) PROVE p[k] = s[o + k]
  <2>1. o < Len(s) /\ k \in 1 .. (end - o) /\ k \in Nat
    BY <1>1, <1>3
  <2>2. p[k] = s[(o + 1) + k - 1]
    BY <1>1, <2>1, SMTT(30)
  <2>3. (o + 1) + k - 1 = o + k
    BY <2>1
  <2> QED BY <2>2, <2>3
<1>5. Page(s, n, o) = p
  BY DEF Page
<1> HIDE DEF p
<1>6. p = <<>> <=> Len(p) = 0
  BY <1>2, EmptySeq
<1> QED BY <1>2, <1>3, <1>4, <1>5, <1>6

-----------------------------------------------------------------------------
(* The tables change.                                                      *)

\* The change of a table is an observed one; it keeps created_at.
LEMMA TablesChange ==
  ASSUME ReaderTypeOK, Times, NEW i \in Ids,
         \/ Insert(i) \/ DeleteQueries(i) \/ DeleteEDNS(i)
         \/ \E c \in Countries : Enrich(i, c) \/ EnrichEdns(i, c)
  PROVE  Observe /\ UNCHANGED reader /\ Times' /\ TableTypes'
<1> USE DEF ReaderTypeOK, Times, TableTypes
<1>1. CASE Insert(i)
  <2> DEFINE row == [at |-> Arriving[i].at, country |-> Arriving[i].country,
                     hit |-> Arriving[i].hit,
                     retry |-> IF Arriving[i].failed THEN "query" ELSE "none"]
  <2>1. row \in Rows /\ row.at = Arriving[i].at
        /\ Arriving[i].ecs \in Countries \cup {Null}
    BY HistoryAssumption DEF Rows
  <2>2. /\ queries' = [queries EXCEPT ![i] = row]
        /\ edns' = [edns EXCEPT ![i] = Arriving[i].ecs]
        /\ arrived' = arrived \cup {i} /\ UNCHANGED reader /\ Observe
    BY <1>1 DEF Insert
  <2> HIDE DEF row
  <2> QED BY <2>1, <2>2
<1>2. ASSUME NEW c \in Countries, Enrich(i, c)
      PROVE  Observe /\ UNCHANGED reader /\ Times' /\ TableTypes'
  <2>1. queries[i] \in Rows
    BY <1>2 DEF Enrich
  <2>2. \A t \in {"edns", "none"} :
          LET row == [[queries[i] EXCEPT !.country = c] EXCEPT !.retry = t] IN
          row \in Rows /\ row.at = queries[i].at
    BY <2>1 DEF Rows
  <2>3. \E t \in {"edns", "none"} : queries' =
          [queries EXCEPT ![i] = [[queries[i] EXCEPT !.country = c] EXCEPT !.retry = t]]
    BY <1>2 DEF Enrich
  <2>4. queries[i] # Null /\ UNCHANGED <<edns, arrived, reader>> /\ Observe
    BY <1>2 DEF Enrich
  <2> QED BY <2>2, <2>3, <2>4
<1>3. ASSUME NEW c \in Countries, EnrichEdns(i, c)
      PROVE  Observe /\ UNCHANGED reader /\ Times' /\ TableTypes'
  <2>1. queries[i] \in Rows
    BY <1>3 DEF EnrichEdns
  <2>2. LET row == [queries[i] EXCEPT !.retry = "none"] IN
        row \in Rows /\ row.at = queries[i].at
    BY <2>1 DEF Rows
  <2>3. queries' = [queries EXCEPT ![i] = [queries[i] EXCEPT !.retry = "none"]]
    BY <1>3 DEF EnrichEdns
  <2>4. /\ queries[i] # Null /\ UNCHANGED <<arrived, reader>> /\ Observe
        /\ edns' \in {edns, [edns EXCEPT ![i] = c]}
    BY <1>3 DEF EnrichEdns
  <2> QED BY <2>2, <2>3, <2>4
<1>4. CASE DeleteQueries(i) \/ DeleteEDNS(i)
  BY <1>4 DEF DeleteQueries, DeleteEDNS
<1> QED BY <1>1, <1>2, <1>3, <1>4

\* A row that came or went is counted.
LEMMA ObserveCounts ==
  ASSUME ReaderTypeOK, Observe
  PROVE  /\ came' \in Nat /\ went' \in Nat /\ came <= came' /\ went <= went'
         /\ Cardinality(Selected') - (came' - went') = Cardinality(Selected) - (came - went)
<1> DEFINE old == Selected  new == Selected'
<1>1. IsFiniteSet(old) /\ Cardinality(old) \in Nat
  BY SelectedRows DEF Selected
<1>2. IsFiniteSet(new) /\ Cardinality(new) \in Nat
  BY SelectedNext
<1>3. came' = came + Cardinality(new \ old) /\ went' = went + Cardinality(old \ new)
  BY DEF Observe, Selected
<1> HIDE DEF old, new
<1>4. /\ Cardinality(new \ old) = Cardinality(new) - Cardinality(new \cap old)
      /\ Cardinality(old \ new) = Cardinality(old) - Cardinality(old \cap new)
      /\ Cardinality(new \ old) \in Nat /\ Cardinality(old \ new) \in Nat
  BY <1>1, <1>2, FS_Difference, FS_CardinalityType
<1>5. Cardinality(new \cap old) \in Nat /\ Cardinality(new \cap old) = Cardinality(old \cap new)
  <2>1. new \cap old = old \cap new
    OBVIOUS
  <2> QED BY <1>1, <2>1, FS_Intersection, FS_CardinalityType
<1>6. came \in Nat /\ went \in Nat
  BY DEF ReaderTypeOK
<1> DEFINE n == Cardinality(new)  o == Cardinality(old)  both == Cardinality(new \cap old)
<1>7. /\ n \in Nat /\ o \in Nat /\ both \in Nat
      /\ came' = came + (n - both) /\ went' = went + (o - both)
      /\ n - both \in Nat /\ o - both \in Nat
  BY <1>1, <1>2, <1>3, <1>4, <1>5
<1> HIDE DEF n, o, both
<1>8. /\ came' \in Nat /\ went' \in Nat /\ came <= came' /\ went <= went'
      /\ n - (came' - went') = o - (came - went)
  BY <1>6, <1>7
<1> QED BY <1>8 DEF old, new, n, o

\* It leaves the numbers of the reader's answer as close as they were.
LEMMA TablesReaderInv ==
  ASSUME ReaderInv, Observe, UNCHANGED reader,
         TableTypes', Times'
  PROVE  ReaderInv'
<1> USE DEF reader
<1>1. /\ came' \in Nat /\ went' \in Nat /\ came <= came' /\ went <= went'
      /\ Cardinality(Selected') - (came' - went') = Cardinality(Selected) - (came - went)
  BY ObserveCounts DEF ReaderInv
<1>2. ReaderTypeOK'
  BY <1>1 DEF ReaderInv, ReaderTypeOK, Observe, TableTypes
<1>3. Asking'
  BY DEF ReaderInv, Asking
<1>4. Counting'
  <2>1. Cardinality(Selected) \in Nat /\ Cardinality(Selected') \in Nat
    BY SelectedRows, SelectedNext DEF Selected
  <2> QED BY <1>1, <2>1 DEF ReaderInv, Counting, ReaderTypeOK
<1>5. TotalFits'
  <2>1. CASE pc = "answer"
    <3>1. offset \in Nat /\ Len(items) \in Nat /\ total \in Nat /\ came \in Nat /\ went \in Nat
      BY <2>1 DEF ReaderInv, ReaderTypeOK
    <3> QED BY <1>1, <2>1, <3>1 DEF ReaderInv, TotalFits
  <2>2. CASE pc = "stats"
    <3>1. items \in Nat /\ total \in Nat /\ came \in Nat /\ items <= total + came
      BY <2>2 DEF ReaderInv, ReaderTypeOK, TotalFits
    <3>2. \A a, b, c, d \in Nat : a <= b + c /\ c <= d => a <= b + d
      OBVIOUS
    <3>3. items <= total + came'
      BY <1>1, <3>1, <3>2
    <3> QED BY <2>2, <3>3 DEF TotalFits
  <2> QED BY <2>1, <2>2 DEF TotalFits
<1> QED BY <1>2, <1>3, <1>4, <1>5 DEF ReaderInv

\* If no selected row leaves, none of those before a row leaves.
LEMMA TablesWalkInv ==
  ASSUME ReaderInv, WalkInv, Observe, UNCHANGED reader
  PROVE  WalkInv'
<1> USE DEF WalkInv, reader
<1>1. /\ present' = present \cap Selected'
      /\ ~left' => ~left /\ Selected \subseteq Selected'
  BY DEF Observe, Selected, ReaderInv, ReaderTypeOK
<1>2. present' \subseteq Selected'
  BY <1>1
<1>3. WalkMissesNothing'
  BY <1>1 DEF WalkMissesNothing
<1>4. Ahead'
  <2> SUFFICES ASSUME ~left', NEW x \in present' \ seen
               PROVE  Cardinality(Above(x)') >= Skipped
    BY DEF Ahead, Skipped
  <2>1. x \in present \ seen /\ Cardinality(Above(x)) >= Skipped
    BY <1>1 DEF Ahead
  <2>2. Above(x) \subseteq Above(x)' /\ Above(x)' \subseteq Selected' /\ Above(x) \subseteq Selected
    BY <1>1 DEF Above
  <2>3. IsFiniteSet(Above(x)') /\ IsFiniteSet(Above(x))
    BY <2>2, SelectedRows, SelectedNext, FS_Subset DEF Selected
  <2>4. /\ Cardinality(Above(x)) <= Cardinality(Above(x)')
        /\ Cardinality(Above(x)) \in Nat /\ Cardinality(Above(x)') \in Nat
    BY <2>2, <2>3, FS_Subset, FS_CardinalityType
  <2>5. Skipped \in Nat
    BY DEF Skipped, ReaderInv, ReaderTypeOK
  <2> QED BY <2>1, <2>4, <2>5
<1> QED BY <1>2, <1>3, <1>4

-----------------------------------------------------------------------------
(* The reader's own steps.                                                 *)

\* A walk begins with nothing skipped.
LEMMA AskInv ==
  ASSUME ReaderInv, NEW r \in Requests, Ask(r)
  PROVE  ReaderInv' /\ (WalkInv => WalkInv')
<1> USE DEF Ask, tables
<1>1. r # Null
  BY HistoryAssumption
<1>2. Selected' = Matching(r) /\ Selected' \subseteq Ids
  BY SelectedNext DEF Selected, Matching, Stored, StoredEdns, Passes
<1>3. ReaderInv'
  BY <1>1, <1>2 DEF ReaderInv, ReaderTypeOK, Times, Asking, Counting, TotalFits
<1>4. WalkInv => WalkInv'
  <2>1. ASSUME NEW x PROVE Cardinality(Above(x)') \in Nat
    BY SelectedNext, FS_Subset, FS_CardinalityType DEF Above
  <2>2. offset' = 0 /\ pc' = "count"
    BY DEF ReaderInv, Asking
  <2>3. Ahead'
    BY <2>1, <2>2 DEF Ahead, Skipped
  <2> QED BY <1>2, <2>3 DEF WalkInv, WalkMissesNothing
<1> QED BY <1>3, <1>4

\* From now on the rows that come and go are counted.
LEMMA CountInv ==
  ASSUME ReaderInv, Count
  PROVE  ReaderInv' /\ (WalkInv => WalkInv')
<1> USE DEF Count, tables, Counted
<1>1. Selected' = Selected
  BY DEF Selected, Matching, Stored, StoredEdns, Passes
<1>2. total' = Cardinality(Selected) /\ total' \in Nat
  BY SelectedRows DEF CountOf, Selected
<1>3. ReaderInv'
  BY <1>1, <1>2 DEF ReaderInv, ReaderTypeOK, Times, Asking, Counting, TotalFits
<1>4. WalkInv => WalkInv'
  BY <1>1 DEF WalkInv, WalkMissesNothing, Ahead, Skipped, Above
<1> QED BY <1>3, <1>4

\* The page holds the rows behind the offset, as many as the limit allows.
LEMMA FetchedPage ==
  ASSUME ReaderInv, Fetch
  PROVE  \E s \in Sorted(Selected) : \E n \in Nat \ {0} :
           /\ n = Limit(request.limit)
           /\ items' = Page(s, n, offset)
           /\ items' \in Seq(Selected) /\ s \in Seq(Selected)
           /\ Len(s) = Cardinality(Selected)
           /\ Len(items') = IF offset >= Len(s) THEN 0
                            ELSE IF offset + n < Len(s) THEN n ELSE Len(s) - offset
           /\ \A k \in 1 .. Len(items') : items'[k] = s[offset + k]
           /\ items' = <<>> <=> Len(items') = 0
<1>1. PICK s \in Sorted(Selected) :
        items' = Page(s, Limit(request.limit), offset)
  BY DEF Fetch, Selected
<1> DEFINE n == Limit(request.limit)
<1>2. request \in Requests /\ offset \in Nat
  BY DEF ReaderInv, ReaderTypeOK, Fetch
<1>3. request.limit \in Int
  BY <1>2, RequestFields
<1>4. n \in Nat \ {0}
  BY <1>3, LimitType
<1>5. s \in Seq(Selected) /\ Len(s) = Cardinality(Selected) /\ Len(s) \in Nat
  BY SortedOnce, SelectedRows DEF Selected
<1> HIDE DEF n
<1>6. /\ items' = Page(s, n, offset) /\ items' \in Seq(Selected)
      /\ Len(items') = IF offset < Len(s)
                       THEN (IF offset + n < Len(s) THEN offset + n ELSE Len(s)) - offset ELSE 0
      /\ \A k \in 1 .. Len(items') : items'[k] = s[offset + k]
      /\ items' = <<>> <=> Len(items') = 0
  BY <1>1, <1>2, <1>4, <1>5, PageRows DEF n
<1>7. Len(items') = IF offset >= Len(s) THEN 0
                   ELSE IF offset + n < Len(s) THEN n ELSE Len(s) - offset
  BY <1>2, <1>4, <1>5, <1>6
<1> QED BY <1>1, <1>4, <1>5, <1>6, <1>7 DEF n

\* What the page ends at was counted, or came since; what it lacks went.
LEMMA FetchReaderInv ==
  ASSUME ReaderInv, Fetch
  PROVE  ReaderInv'
<1> USE DEF Fetch, tables, ghosts
<1>1. Selected' = Selected /\ Selected \subseteq Ids /\ Cardinality(Selected) \in Nat
  BY SelectedRows
     DEF Selected, Matching, Stored, StoredEdns, Passes
<1>2. PICK s \in Sorted(Selected), n \in Nat \ {0} :
           /\ n = Limit(request.limit)
           /\ items' \in Seq(Selected) /\ Len(s) = Cardinality(Selected)
           /\ Len(items') = IF offset >= Len(s) THEN 0
                            ELSE IF offset + n < Len(s) THEN n ELSE Len(s) - offset
           /\ items' = <<>> <=> Len(items') = 0
  BY FetchedPage
<1>3. items' \in Seq(Ids) /\ seen' \subseteq Ids
  <2>1. \A k \in DOMAIN items' : items'[k] \in Selected
    BY <1>2
  <2>2. seen' = seen \cup {items'[k] : k \in DOMAIN items'}
    BY DEF Range
  <2> QED BY <1>1, <1>2, <2>1, <2>2 DEF ReaderInv, ReaderTypeOK
<1>4. ReaderTypeOK'
  BY <1>3 DEF ReaderInv, ReaderTypeOK
<1>5. Asking' /\ Counting'
  BY DEF ReaderInv, Asking, Counting
<1>6. TotalFits'
  <2>1. Cardinality(Selected) = total + came - went
    BY DEF ReaderInv, Counting
  <2>2. offset \in Nat /\ total \in Nat /\ came \in Nat /\ went \in Nat
    BY DEF ReaderInv, ReaderTypeOK
  <2>3. n = Limit(request'.limit)
    BY <1>2
  <2>4. Len(items') # 0 => offset + Len(items') <= total + came
    BY <1>1, <1>2, <2>1, <2>2
  <2>5. Len(items') < n => total <= offset + Len(items') + went
    BY <1>1, <1>2, <2>1, <2>2
  <2> QED BY <1>2, <2>3, <2>4, <2>5 DEF TotalFits
<1> QED BY <1>4, <1>5, <1>6 DEF ReaderInv, Times

\* The k-th row has k - 1 rows before it.
LEMMA SortedAbove ==
  ASSUME DistinctTimes, Times,
         NEW s \in Sorted(Selected), NEW k \in 1 .. Len(s)
  PROVE  Cardinality(Above(s[k])) = k - 1
<1>1. /\ s \in Seq(Selected) /\ Len(s) = Cardinality(Selected) /\ DOMAIN s = 1 .. Len(s)
      /\ \A x \in Selected : \E j \in 1 .. Len(s) : s[j] = x
      /\ \A i, j \in 1 .. Len(s) : s[i] = s[j] => i = j
      /\ Len(s) \in Nat
  BY SortedOnce, SelectedRows DEF Selected
<1>2. \A x \in Selected : x \in Ids /\ queries[x] # Null
  BY SelectedRows DEF Selected, Stored
<1>3. \A j \in 1 .. Len(s) : /\ s[j] \in Selected
                             /\ queries[s[j]].at = Arriving[s[j]].at
                             /\ Arriving[s[j]].at \in Int
  BY <1>1, <1>2, HistoryAssumption DEF Times
<1>4. \A i, j \in 1 .. Len(s) : i < j => Arriving[s[i]].at > Arriving[s[j]].at
  <2> SUFFICES ASSUME NEW i \in 1 .. Len(s), NEW j \in 1 .. Len(s), i < j
               PROVE  Arriving[s[i]].at > Arriving[s[j]].at
    OBVIOUS
  <2>1. queries[s[i]].at >= queries[s[j]].at
    BY <1>1 DEF Sorted
  <2>2. s[i] # s[j]
    BY <1>1
  <2>3. Arriving[s[i]].at # Arriving[s[j]].at
    BY <1>2, <1>3, <2>2 DEF DistinctTimes
  <2> QED BY <1>3, <2>1, <2>3
<1> DEFINE f == [j \in 1 .. (k - 1) |-> s[j]]
<1>5. \A j \in 1 .. (k - 1) : j \in 1 .. Len(s) /\ f[j] = s[j] /\ f[j] \in Above(s[k])
  BY <1>1, <1>3, <1>4 DEF Above
<1>6. \A x \in Above(s[k]) : \E j \in 1 .. (k - 1) : f[j] = x
  <2> SUFFICES ASSUME NEW x \in Above(s[k])
               PROVE  \E j \in 1 .. (k - 1) : s[j] = x
    OBVIOUS
  <2>1. PICK j \in 1 .. Len(s) : s[j] = x
    BY <1>1 DEF Above
  <2>2. Arriving[s[j]].at > Arriving[s[k]].at
    BY <2>1 DEF Above
  <2>3. ~(k <= j)
    BY <1>3, <1>4, <2>2
  <2> QED BY <1>1, <2>1, <2>3
<1>7. f \in [1 .. (k - 1) -> Above(s[k])]
  BY <1>5
<1> HIDE DEF f
<1>8. f \in Bijection(1 .. (k - 1), Above(s[k]))
  BY <1>1, <1>5, <1>6, <1>7 DEF Bijection, Injection, Surjection, IsInjective
<1>9. IsFiniteSet(1 .. (k - 1)) /\ Cardinality(1 .. (k - 1)) = k - 1
  <2>1. k - 1 \in Nat
    BY <1>1
  <2> QED BY <2>1, FS_Interval
<1> QED BY <1>8, <1>9, FS_Bijection DEF ExistsBijection

\* A row the page does not show, and no page before, is behind the page.
LEMMA FetchWalkInv ==
  ASSUME DistinctTimes, ReaderInv, WalkInv, Fetch
  PROVE  WalkInv'
<1> USE DEF Fetch, tables, ghosts
<1>1. Selected' = Selected
  BY DEF Selected, Matching, Stored, StoredEdns, Passes
<1>2. PICK s \in Sorted(Selected), n \in Nat \ {0} :
           /\ s \in Seq(Selected) /\ items' \in Seq(Selected)
           /\ Len(s) = Cardinality(Selected)
           /\ Len(items') = IF offset >= Len(s) THEN 0
                            ELSE IF offset + n < Len(s) THEN n ELSE Len(s) - offset
           /\ \A k \in 1 .. Len(items') : items'[k] = s[offset + k]
           /\ items' = <<>> <=> Len(items') = 0
  BY FetchedPage
<1>3. seen' = seen \cup {items'[k] : k \in 1 .. Len(items')} /\ Len(items') \in Nat
  BY <1>2 DEF Range
<1>4. offset \in Nat /\ Len(s) \in Nat
  BY <1>2 DEF ReaderInv, ReaderTypeOK
<1>5. ASSUME ~left, NEW x \in present \ seen'
      PROVE  Cardinality(Above(x)) >= offset + Len(items') /\ Len(items') # 0
  <2>1. x \in Selected /\ x \in present \ seen
    BY <1>3, <1>5 DEF WalkInv
  <2>2. PICK k \in 1 .. Len(s) : s[k] = x
    BY <1>2, <2>1, SortedOnce, SelectedRows DEF Selected
  <2>3. Cardinality(Above(x)) = k - 1
    BY <2>2, SortedAbove DEF ReaderInv
  <2>4. Cardinality(Above(x)) >= offset
    BY <1>5, <2>1 DEF WalkInv, Ahead, Skipped
  <2>5. ~(k <= offset + Len(items'))
    <3>1. SUFFICES ASSUME k <= offset + Len(items') PROVE FALSE
      OBVIOUS
    <3>2. k - offset \in 1 .. Len(items') /\ offset + (k - offset) = k
      BY <1>3, <1>4, <2>3, <2>4, <3>1
    <3>3. items'[k - offset] = x
      BY <1>2, <2>2, <3>2
    <3> QED BY <1>3, <1>5, <3>2, <3>3
  <2> QED BY <1>2, <1>3, <1>4, <2>3, <2>5
<1>6. Ahead'
  BY <1>1, <1>5 DEF Ahead, Skipped, Above
<1>7. WalkMissesNothing'
  BY <1>2, <1>5 DEF WalkMissesNothing
<1> QED BY <1>1, <1>6, <1>7 DEF WalkInv

\* The hits are stored rows.
LEMMA CountHitsInv ==
  ASSUME ReaderInv, CountHits
  PROVE  ReaderInv' /\ (WalkInv => WalkInv')
<1> USE DEF CountHits, tables, ghosts
<1>1. Selected' = Selected
  BY DEF Selected, Matching, Stored, StoredEdns, Passes
<1>2. request \in Requests /\ request # Null /\ request.kind = "stats"
  BY HistoryAssumption DEF ReaderInv, ReaderTypeOK, Asking
<1>3. request.country = Null
  BY <1>2, RequestFields
<1>4. Selected = Stored
  BY <1>2, <1>3 DEF Selected, Matching, Passes
<1>5. items' = Cardinality(Hits)
  BY DEF Range
<1>6. items' \in Nat /\ items' <= Cardinality(Selected) /\ Cardinality(Selected) \in Nat
  <2>1. Hits \subseteq Stored
    BY DEF Hits
  <2> QED BY <1>4, <1>5, <2>1, SelectedRows, FS_Subset, FS_CardinalityType
<1>7. ReaderTypeOK'
  BY <1>6 DEF ReaderInv, ReaderTypeOK
<1>8. TotalFits'
  <2>1. Cardinality(Selected) = total + came - went
    BY DEF ReaderInv, Counting
  <2>2. total \in Nat /\ came \in Nat /\ went \in Nat
    BY DEF ReaderInv, ReaderTypeOK
  <2> QED BY <1>6, <2>1, <2>2 DEF TotalFits
<1>9. Asking' /\ Counting'
  BY <1>2 DEF Asking, Counting
<1> QED BY <1>1, <1>7, <1>8, <1>9
    DEF ReaderInv, Times, WalkInv, WalkMissesNothing, Ahead, Skipped, Above

\* The page received is behind the client.
LEMMA NextPageInv ==
  ASSUME ReaderInv, NextPage
  PROVE  ReaderInv' /\ (WalkInv => WalkInv')
<1> USE DEF NextPage, tables, ghosts
<1>1. Selected' = Selected
  BY DEF Selected, Matching, Stored, StoredEdns, Passes
<1>2. offset' \in Nat /\ items' \in Seq(Ids)
  BY DEF ReaderInv, ReaderTypeOK
<1> QED BY <1>1, <1>2
    DEF ReaderInv, ReaderTypeOK, Asking, Counting, TotalFits,
        WalkInv, Times, WalkMissesNothing, Ahead, Skipped, Above

\* A new walk will start from nothing.
LEMMA DoneInv ==
  ASSUME ReaderInv, Done
  PROVE  ReaderInv' /\ (WalkInv => WalkInv')
<1> USE DEF Done, tables
<1>1. <<>> \in Seq(Ids) /\ ReaderTypeOK
  BY DEF ReaderInv
<1>2. ReaderTypeOK'
  BY <1>1 DEF ReaderTypeOK
<1>3. Asking' /\ Counting' /\ TotalFits'
  BY DEF Asking, Counting, TotalFits
<1>4. WalkInv => WalkInv'
  BY DEF WalkInv, WalkMissesNothing, Ahead, Skipped
<1> QED BY <1>2, <1>3, <1>4 DEF ReaderInv, Times


\* One step of the workers, the API or the reader.
LEMMA ReaderStep ==
  ASSUME ReaderInv, [ReaderNext]_readerVars
  PROVE  ReaderInv' /\ (DistinctTimes /\ WalkInv => WalkInv')
<1>1. CASE UNCHANGED readerVars
  <2> USE <1>1 DEF readerVars, tables, reader, ghosts
  <2>1. Selected' = Selected
    BY DEF Selected, Matching, Stored, StoredEdns, Passes
  <2>2. ReaderInv'
    BY <2>1 DEF ReaderInv, ReaderTypeOK, Times, Asking, Counting, TotalFits
  <2>3. WalkInv => WalkInv'
    BY <2>1 DEF WalkInv, WalkMissesNothing, Ahead, Skipped, Above
  <2> QED BY <2>2, <2>3
<1>2. ASSUME NEW i \in Ids,
             \/ Insert(i) \/ DeleteQueries(i) \/ DeleteEDNS(i)
             \/ \E c \in Countries : Enrich(i, c) \/ EnrichEdns(i, c)
      PROVE  ReaderInv' /\ (WalkInv => WalkInv')
  <2>1. Observe /\ UNCHANGED reader /\ Times' /\ TableTypes'
    BY <1>2, TablesChange DEF ReaderInv
  <2> QED BY <2>1, TablesReaderInv, TablesWalkInv
<1>3. CASE \E r \in Requests : Ask(r)
  BY <1>3, AskInv
<1>4. CASE Count \/ CountHits \/ NextPage \/ Done
  BY <1>4, CountInv, CountHitsInv, NextPageInv, DoneInv
<1>5. CASE Fetch
  BY <1>5, FetchReaderInv, FetchWalkInv
<1> QED BY <1>1, <1>2, <1>3, <1>4, <1>5 DEF ReaderNext

\* Empty tables and no request.
LEMMA ReaderStart ==
  ASSUME ReaderInit
  PROVE  ReaderInv /\ WalkInv
<1> USE DEF ReaderInit
<1>1. ReaderTypeOK
  <2>1. /\ queries \in [Ids -> Rows \cup {Null}]
        /\ edns \in [Ids -> Countries \cup {Null}]
        /\ items \in Seq(Ids)
    OBVIOUS
  <2> QED BY <2>1 DEF ReaderTypeOK
<1>2. Times /\ Asking /\ Counting /\ TotalFits
  BY DEF Times, Asking, Counting, TotalFits
<1>3. WalkInv
  BY DEF WalkInv, Selected, WalkMissesNothing, Ahead, Skipped
<1> QED BY <1>1, <1>2, <1>3 DEF ReaderInv

\* Whatever is inserted, updated and deleted between the two statements of
\* an answer of QueryHistory, QueryEDNS or GetStats, its numbers disagree only by
\* the rows that began or ceased to match in between.
THEOREM TotalFitsAlways == ReaderSpec => []TotalFits
<1>1. ReaderInit => ReaderInv
  BY ReaderStart
<1>2. ReaderInv /\ [ReaderNext]_readerVars => ReaderInv'
  BY ReaderStep
<1>3. ReaderInv => TotalFits
  BY DEF ReaderInv
<1> QED BY <1>1, <1>2, <1>3, PTL DEF ReaderSpec

\* A client that walks the pages of QueryHistory or QueryEDNS to the empty one
\* has received every row that matched all the time, as long as no matching row
\* has left and no two rows have the same created_at.
THEOREM WalkMissesNothingAlways ==
  ASSUME DistinctTimes
  PROVE  ReaderSpec => []WalkMissesNothing
<1>1. ReaderInit => ReaderInv /\ WalkInv
  BY ReaderStart
<1>2. ReaderInv /\ WalkInv /\ [ReaderNext]_readerVars => ReaderInv' /\ WalkInv'
  BY ReaderStep
<1>3. WalkInv => WalkMissesNothing
  BY DEF WalkInv
<1> QED BY <1>1, <1>2, <1>3, PTL DEF ReaderSpec

\* The tables hold rows, the reader is at a program point of the code and has
\* asked for what the API lets a client ask for.
THEOREM ReaderTypeCorrect == ReaderSpec => []ReaderTypeOK
<1>1. ReaderInit => ReaderInv
  BY ReaderStart
<1>2. ReaderInv /\ [ReaderNext]_readerVars => ReaderInv'
  BY ReaderStep
<1>3. ReaderInv => ReaderTypeOK
  BY DEF ReaderInv
<1> QED BY <1>1, <1>2, <1>3, PTL DEF ReaderSpec
=============================================================================
