------------------------------- MODULE GeoUpdate -------------------------------
(***************************************************************************)
(* The country database geoip.dat: the file, the index in memory that      *)
(* lookups read under localMu, the goroutine that downloads a new file     *)
(* when the old one is due, and Close (src/src/geo/update.go, geo.go,      *)
(* dat.go).                                                                *)
(*                                                                         *)
(* The contents of a file are a name.  An index is a number; index[i] is   *)
(* the contents it was built from, or Closed once it is unmapped: a search *)
(* in it then finds nothing.  Ages and timers count ticks and stop at      *)
(* Interval and at zero, so time itself needs no bound.                    *)
(***************************************************************************)
EXTENDS Naturals, FiniteSets

CONSTANTS
  Valid,    \* contents that loadDatIndex accepts
  Lookups,  \* goroutines that call lookupLocal
  Ids,      \* numbers for index objects; more than are in use when one is built
  Mmap,     \* geoip.enable_mmap
  Interval, \* geoip.update_interval, in ticks
  Retry,    \* wait after a failed update: the interval, within 1 min and 1 h
  None, Bad, Closed

ASSUME GeoUpdateAssumption ==
  /\ {None, Bad, Closed} \cap Valid = {} /\ None # Bad /\ None # Closed /\ Bad # Closed
  /\ None \notin [data : Valid \cup {Bad}, age : 0..Interval, synced : BOOLEAN]
  /\ Ids \subseteq Nat /\ None \notin Ids
  /\ IsFiniteSet(Lookups) /\ IsFiniteSet(Ids) /\ Cardinality(Ids) > Cardinality(Lookups) + 1
  /\ Mmap \in BOOLEAN
  /\ Interval \in Nat \ {0} /\ Retry \in Nat \ {0}

VARIABLES
  file,    \* geoip.dat: [data, age, synced], or None
  before,  \* what the directory may still say after a power failure
  temp,    \* the download file .geoip-download-* of this process, or None
  litter,  \* download files of processes that were killed lie about
  index,   \* index objects
  local,   \* l.local: an index or None
  upd,     \* program point of updateLoop and updateDat
  timer,   \* ticks until the timer of waitForGeoIPUpdate fires
  fresh,   \* newIndex of updateDat, or None
  old,     \* oldIndex of updateDat, or None
  life,    \* "up", "stopping" and "locking" (Close), "closed", "down"
  lpc,     \* program point of each lookup
  held,    \* the index a lookup has read from l.local
  answer,  \* the contents its answer comes from
  seen     \* history: contents active since the lookup began

disk    == <<file, before, temp, litter>>
memory  == <<index, local>>
updater == <<upd, timer, fresh, old>>
lookup  == <<lpc, held, answer, seen>>
vars    == <<disk, memory, updater, life, lookup>>

Min(a, b) == IF a < b THEN a ELSE b

Due(f) == f = None \/ f.age = Interval

\* Faulty variant: each start of the loop downloads at once.
NoDelay(f) == 0

\* The delay follows the mtime of the file; a missing file is due at once.
NextDelay(f) == IF f = None THEN 0 ELSE Interval - f.age

Loadable(f) == f # None => f.data \in Valid

DataOf(i) == IF i = None THEN None ELSE index[i]

\* Objects that nothing refers to any more.
Unused == Ids \ ({local, fresh, old} \cup {held[l] : l \in Lookups})
NewId  == CHOOSE i \in Unused : TRUE

\* Close of an index unmaps it; an index on the heap is left to the collector.
Unmapped(i) ==
  IF i # None /\ Mmap THEN [index EXCEPT ![i] = Closed] ELSE index

Readers      == {l \in Lookups : lpc[l] \in {"held", "search"}}  \* of localMu
Searching(i) == {l \in Lookups : lpc[l] = "search" /\ held[l] = i}  \* of index.mu

Init ==
  /\ file \in {None} \cup [data : Valid, age : {0, Interval}, synced : {TRUE}]
  /\ before = file /\ temp = None /\ litter \in BOOLEAN
  /\ index = [i \in Ids |-> Closed] /\ local = None
  /\ upd = "done" /\ timer = 0 /\ fresh = None /\ old = None
  /\ life = "down"
  /\ lpc = [l \in Lookups |-> "idle"]
  /\ held = [l \in Lookups |-> None]
  /\ answer = [l \in Lookups |-> None]
  /\ seen = [l \in Lookups |-> {}]

-----------------------------------------------------------------------------
(* The process.                                                            *)

\* NewLookuper: a missing file is tolerated, an invalid one is not.
Start ==
  /\ life = "down" /\ Loadable(file)
  /\ local' = IF file = None THEN None ELSE NewId
  /\ index' = IF file = None THEN index ELSE [index EXCEPT ![NewId] = file.data]
  /\ upd' = "wait" /\ timer' = NextDelay(file)
  /\ life' = "up"
  /\ UNCHANGED <<disk, fresh, old, lookup>>

\* The memory of the process; updateDat's deferred Remove does not run.
Dead ==
  /\ life' = "down"
  /\ temp' = None
  /\ index' = [i \in Ids |-> Closed] /\ local' = None
  /\ upd' = "done" /\ timer' = 0 /\ fresh' = None /\ old' = None
  /\ lpc' = [l \in Lookups |-> "idle"]
  /\ held' = [l \in Lookups |-> None]
  /\ answer' = [l \in Lookups |-> None]
  /\ seen' = [l \in Lookups |-> {}]

\* The download file stays behind for good: the next one has another name, and
\* NewLookuper removes none.
Kill ==
  /\ life # "down" /\ Dead
  /\ litter' = (litter \/ temp # None)
  /\ UNCHANGED <<file, before>>

\* The machine stops: a rename that the directory has not kept is undone, and
\* contents that were never synchronised are lost.  The download file, if its
\* entry was kept, stays behind too.
PowerFailure ==
  LET Kept(f) == IF f = None \/ f.synced THEN f ELSE [f EXCEPT !.data = Bad] IN
  /\ \E f \in {file, before} : file' = Kept(f) /\ before' = Kept(f)
  /\ litter' \in {litter, litter \/ temp # None \/ before # file}
  /\ Dead

\* The directory reaches the disk.
Flush ==
  /\ before # file
  /\ before' = file
  /\ UNCHANGED <<file, temp, litter, memory, updater, life, lookup>>

\* An hour, say: the file ages, timers run.
Tick ==
  LET Older(f) == IF f = None THEN None ELSE [f EXCEPT !.age = Min(@ + 1, Interval)] IN
  /\ file' = Older(file) /\ before' = Older(before) /\ temp' = Older(temp)
  /\ timer' = IF timer > 0 THEN timer - 1 ELSE 0
  /\ UNCHANGED <<litter, memory, upd, fresh, old, life, lookup>>

-----------------------------------------------------------------------------
(* updateLoop.                                                             *)

Goto(p) == upd' = p

\* The timer fires; if the context is done as well, select may take either.
Fire ==
  /\ upd = "wait" /\ timer = 0
  /\ Goto("request")
  /\ UNCHANGED <<disk, memory, timer, fresh, old, life, lookup>>

RetryFires ==
  /\ upd = "retry" /\ timer = 0
  /\ Goto("wait") /\ timer' = NextDelay(file)
  /\ UNCHANGED <<disk, memory, fresh, old, life, lookup>>

\* Faulty variant: the wait after a failure is a Sleep, deaf to the context.
CancelledInWait ==
  /\ upd = "wait" /\ life # "up"
  /\ Goto("done")
  /\ UNCHANGED <<disk, memory, timer, fresh, old, life, lookup>>

Cancelled ==
  /\ upd \in {"wait", "retry"} /\ life # "up"
  /\ Goto("done")
  /\ UNCHANGED <<disk, memory, timer, fresh, old, life, lookup>>

\* Faulty variant: the loop ends with the first error.
FailedForGood ==
  /\ temp' = None
  /\ index' = Unmapped(fresh) /\ fresh' = None
  /\ Goto("done")
  /\ UNCHANGED <<file, before, litter, local, timer, old, life, lookup>>

\* Faulty variant: the index is not closed.
FailedOpen ==
  /\ temp' = None /\ fresh' = None
  /\ IF life = "up" THEN Goto("retry") /\ timer' = Retry
                    ELSE Goto("done") /\ UNCHANGED timer
  /\ UNCHANGED <<file, before, litter, memory, old, life, lookup>>

\* updateDat returns an error: the download file is removed, an index built
\* from it is closed.
Failed ==
  /\ temp' = None
  /\ index' = Unmapped(fresh) /\ fresh' = None
  /\ IF life = "up" THEN Goto("retry") /\ timer' = Retry
                    ELSE Goto("done") /\ UNCHANGED timer
  /\ UNCHANGED <<file, before, litter, local, old, life, lookup>>

-----------------------------------------------------------------------------
(* updateDat.  Each call may fail; a request that is cancelled does.       *)

Attempts == {"request", "create", "copy", "load", "stamp", "rename"}

Fails == upd \in Attempts /\ Failed

\* The response has begun, with status 200 and an acceptable length.
Request ==
  /\ upd = "request" /\ life = "up"
  /\ Goto("create")
  /\ UNCHANGED <<disk, memory, timer, fresh, old, life, lookup>>

CreateTemp ==
  /\ upd = "create"
  /\ temp' = [data |-> Bad, age |-> 0, synced |-> FALSE]
  /\ Goto("copy")
  /\ UNCHANGED <<file, before, litter, memory, timer, fresh, old, life, lookup>>

\* Faulty variant: without f.Sync.
CopyUnsynced(b) ==
  /\ upd = "copy"
  /\ temp' = [data |-> b, age |-> 0, synced |-> FALSE]
  /\ Goto("load")
  /\ UNCHANGED <<file, before, litter, memory, timer, fresh, old, life, lookup>>

\* The body, good or not, is copied and synchronised.
Copy(b) ==
  /\ upd = "copy"
  /\ temp' = [data |-> b, age |-> 0, synced |-> TRUE]
  /\ Goto("load")
  /\ UNCHANGED <<file, before, litter, memory, timer, fresh, old, life, lookup>>

LoadDatIndex ==
  /\ upd = "load" /\ Loadable(temp)
  /\ fresh' = NewId /\ index' = [index EXCEPT ![NewId] = temp.data]
  /\ Goto("stamp")
  /\ UNCHANGED <<disk, local, timer, old, life, lookup>>

Chtimes ==
  /\ upd = "stamp"
  /\ temp' = [temp EXCEPT !.age = 0]
  /\ Goto("rename")
  /\ UNCHANGED <<file, before, litter, memory, timer, fresh, old, life, lookup>>

\* Faulty variant: the index is used although the file could not be replaced.
RenameOrNot ==
  /\ upd = "rename"
  /\ file' \in {file, temp} /\ temp' = None
  /\ Goto("locking")
  /\ UNCHANGED <<before, litter, memory, timer, fresh, old, life, lookup>>

Rename ==
  /\ upd = "rename"
  /\ file' = temp /\ temp' = None
  /\ Goto("locking")
  /\ UNCHANGED <<before, litter, memory, timer, fresh, old, life, lookup>>

\* Faulty variant: localMu does not wait for lookups.
SwapUnlocked ==
  /\ upd = "locking"
  /\ local' = fresh /\ old' = local /\ fresh' = None
  /\ seen' = [l \in Lookups |-> IF lpc[l] = "idle" THEN {} ELSE seen[l] \cup {index[fresh]}]
  /\ Goto("closeOld")
  /\ UNCHANGED <<disk, index, timer, life, lpc, held, answer>>

\* Under localMu, which waits for the lookups that hold it.
Swap ==
  /\ upd = "locking" /\ Readers = {}
  /\ local' = fresh /\ old' = local /\ fresh' = None
  /\ seen' = [l \in Lookups |-> IF lpc[l] = "idle" THEN {} ELSE seen[l] \cup {index[fresh]}]
  /\ Goto("closeOld")
  /\ UNCHANGED <<disk, index, timer, life, lpc, held, answer>>

\* The old index is closed under its own lock; the loop goes on.
CloseOld ==
  /\ upd = "closeOld" /\ Searching(old) = {}
  /\ index' = Unmapped(old) /\ old' = None
  /\ Goto("wait") /\ timer' = NextDelay(file)
  /\ UNCHANGED <<disk, local, fresh, life, lookup>>

-----------------------------------------------------------------------------
(* lookupLocal.  A lock that is asked for keeps new readers out.           *)

RLock(l) ==
  /\ life # "down" /\ lpc[l] = "idle"
  /\ upd # "locking" /\ life # "locking"
  /\ lpc' = [lpc EXCEPT ![l] = "held"]
  /\ held' = [held EXCEPT ![l] = local]
  /\ seen' = [seen EXCEPT ![l] = {DataOf(local)}]
  /\ UNCHANGED <<disk, memory, updater, life, answer>>

Search(l) ==
  /\ lpc[l] = "held"
  /\ lpc' = [lpc EXCEPT ![l] = "search"]
  /\ UNCHANGED <<disk, memory, updater, life, held, answer, seen>>

Return(l) ==
  /\ lpc[l] = "search"
  /\ answer' = [answer EXCEPT ![l] = DataOf(held[l])]
  /\ held' = [held EXCEPT ![l] = None]
  /\ lpc' = [lpc EXCEPT ![l] = "done"]
  /\ UNCHANGED <<disk, memory, updater, life, seen>>

Finish(l) ==
  /\ lpc[l] = "done"
  /\ lpc' = [lpc EXCEPT ![l] = "idle"]
  /\ answer' = [answer EXCEPT ![l] = None]
  /\ seen' = [seen EXCEPT ![l] = {}]
  /\ UNCHANGED <<disk, memory, updater, life, held>>

-----------------------------------------------------------------------------
(* Close.  Lookups may still run, and later ones find nothing.             *)

Stop ==
  /\ life = "up"
  /\ life' = "stopping"
  /\ UNCHANGED <<disk, memory, updater, lookup>>

\* workers.Wait returns, the cache is closed, localMu.Lock is called.
WorkersDone ==
  /\ life = "stopping" /\ upd = "done"
  /\ life' = "locking"
  /\ UNCHANGED <<disk, memory, updater, lookup>>

CloseIndex ==
  /\ life = "locking" /\ Readers = {}
  /\ index' = Unmapped(local)
  /\ seen' = [l \in Lookups |-> IF lpc[l] = "idle" THEN {} ELSE seen[l] \cup {Closed}]
  /\ life' = "closed"
  /\ UNCHANGED <<disk, local, updater, lpc, held, answer>>

-----------------------------------------------------------------------------
Lookup(l) == RLock(l) \/ Search(l) \/ Return(l) \/ Finish(l)

UpdateDat ==
  \/ Request \/ CreateTemp \/ (\E b \in Valid \cup {Bad} : Copy(b))
  \/ LoadDatIndex \/ Chtimes \/ Rename \/ Swap \/ CloseOld \/ Fails

Update == Fire \/ RetryFires \/ Cancelled \/ UpdateDat

Next ==
  \/ Start \/ Kill \/ PowerFailure \/ Flush \/ Tick
  \/ Update
  \/ \E l \in Lookups : Lookup(l)
  \/ Stop \/ WorkersDone \/ CloseIndex

\* The goroutine and lookups run, Close goes on once called.  Of the attempts
\* that come to a call again and again, some see it succeed.  That time passes
\* is no part of it: no timer need ever run out.
Fairness ==
  /\ WF_vars(Update)
  /\ \A l \in Lookups : WF_vars(Search(l)) /\ WF_vars(Return(l)) /\ WF_vars(Finish(l))
  /\ WF_vars(WorkersDone) /\ WF_vars(CloseIndex)
  /\ SF_vars(Request) /\ SF_vars(CreateTemp) /\ SF_vars(\E b \in Valid : Copy(b))
  /\ SF_vars(LoadDatIndex) /\ SF_vars(Chtimes) /\ SF_vars(Rename)

Spec == Init /\ [][Next]_vars /\ Fairness

-----------------------------------------------------------------------------
(* Properties.                                                             *)

Files == {None} \cup [data : Valid \cup {Bad}, age : 0..Interval, synced : BOOLEAN]

\* Types, and the program points at which updateDat holds an index or a file.
TypeOK ==
  /\ file \in Files /\ before \in Files /\ temp \in Files /\ litter \in BOOLEAN
  /\ index \in [Ids -> Valid \cup {Closed}]
  /\ {local, fresh, old} \subseteq Ids \cup {None}
  /\ upd \in Attempts \cup {"wait", "retry", "locking", "closeOld", "done"}
  /\ timer \in 0..(Interval + Retry)
  /\ fresh # None <=> upd \in {"stamp", "rename", "locking"}
  /\ temp # None <=> upd \in {"copy", "load", "stamp", "rename"}
  /\ life \in {"up", "stopping", "locking", "closed", "down"}
  /\ lpc \in [Lookups -> {"idle", "held", "search", "done"}]
  /\ held \in [Lookups -> Ids \cup {None}]
  /\ answer \in [Lookups -> Valid \cup {None, Closed}]
  /\ seen \in [Lookups -> SUBSET (Valid \cup {None, Closed})]

\* A lookup answers from an index that was the active one at some moment of
\* the lookup, never from one that is unmapped or was retired before; only
\* after Close may it find nothing (the locks of lookupLocal and updateDat).
AnswerOfActive == \A l \in Lookups : lpc[l] = "done" => answer[l] \in seen[l]

\* Whatever step a kill or a power failure hits, the file can be loaded by
\* the next start, which fails otherwise (Sync before Rename, validation).
AlwaysStarts == Loadable(file)

\* What lookups use is what a restart would load, but between the rename and
\* the swap ("An unsuccessful download never changes the active index").
IndexFollowsFile ==
  life = "up" /\ upd # "locking" => DataOf(local) = IF file = None THEN None ELSE file.data

\* Between attempts the process has only the active index mapped and no download
\* file; after Close it has nothing mapped: every error path of updateDat closes
\* and removes what it opened.  Only what a kill or a power failure interrupts
\* lies about afterwards, for good (litter).
NothingLeaks ==
  LET mapped == {i \in Ids : index[i] # Closed} IN
  /\ upd \in {"wait", "retry", "done"} => temp = None /\ (Mmap => mapped \subseteq {local})
  /\ life = "closed" /\ Mmap => mapped = {}

\* A file is not downloaded before it is due, whatever restarts, failures
\* and retries came before (nextGeoIPUpdateDelay uses the mtime).
OnlyWhenDue == [][upd = "wait" /\ upd' = "request" => Due(file)]_vars

TimePasses == WF_vars(Tick)

\* A file that is due is replaced by a valid one, if time passes and the calls of
\* updateDat succeed from time to time, or the process ends (updateLoop goes on
\* after every failure).
Refreshed ==
  TimePasses => (life = "up" /\ Due(file) ~> upd = "locking" \/ life # "up")

\* Close returns: it waits for the update and for lookups in progress, never for
\* a timer, which need not run out (waitForGeoIPUpdate hears the context, in the
\* wait for the next update and in the one after a failure).
CloseReturns == life = "stopping" ~> life \in {"closed", "down"}
=============================================================================
