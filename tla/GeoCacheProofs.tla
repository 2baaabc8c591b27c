---------------------------- MODULE GeoCacheProofs ----------------------------
(***************************************************************************)
(* Proofs about the GeoIP lookup path: for any number of lookups,          *)
(* deletions and keys, an answer is the key's own and was fresh, one call  *)
(* per key is in the air, and a deletion leaves nothing it should remove.  *)
(* The second half is about the index of geoip.dat: for any file, the      *)
(* answer is the country of a longest CIDR that covers the address.        *)
(***************************************************************************)
EXTENDS GeoCache, DatIndex, FiniteSetTheorems, SequenceTheorems, WellFoundedInduction, TLAPS

-----------------------------------------------------------------------------
(* The inductive invariant.                                                *)

\* What a lookup holds, by its program point.
Holding ==
  \A l \in Lookups :
    /\ lpc[l] = "idle" <=> key[l] = None
    /\ answer[l] # None => lpc[l] = "reply"
    /\ found[l] # None =>
         /\ lpc[l] \in {"fill", "land", "insert", "keep", "reply"}
         /\ found[l].key = key[l]
         /\ now[l] < found[l].expires
         /\ found[l].call <= calls

\* What is stored is stored under its key, and came from a call made.
Caches ==
  /\ \A k \in Keys : memory[k] # None => memory[k].key = k /\ memory[k].call <= calls
  /\ \A k \in V4 : table[k] # None => table[k].key = k /\ table[k].call <= calls

\* A flight is registered exactly while its leader calls and lands, and a
\* waiter waits for a registered one.
Flights ==
  /\ \A l \in Lookups :
       /\ lpc[l] \in {"call", "land"} => flights[key[l]] = l
       /\ lpc[l] = "wait" => flights[key[l]] # None
  /\ \A k \in Keys : flights[k] # None =>
       /\ lpc[flights[k]] \in {"call", "land"}
       /\ key[flights[k]] = k

\* What a deletion must have removed: stored when it began, in no hand then.
Owed(d) == doomed[d] \ carried[d]

\* Once its rows are deleted, nothing a deletion owes is in the table or in the
\* hand of a lookup; once its memory step is done, nothing is in memory.
Deletion ==
  \A d \in Deleters :
    /\ dpc[d] \in {"idle", "failed"} => doomed[d] = {}
    /\ \A x \in doomed[d] : x # None /\ x.key \in filter[d] /\ x.call <= calls
    /\ \A k \in V4 : k \in filter[d] => table[k] \notin Owed(d)
    /\ \A l \in Lookups : found[l] \notin Owed(d)
    /\ dpc[d] = "done" => \A k \in V4 : k \in filter[d] => memory[k] \notin Owed(d)

\* The result of a call that is about to land is nowhere else.
Unique ==
  \A l \in Lookups :
    lpc[l] = "land" /\ found[l] # None =>
      /\ \A k \in Keys : memory[k] # None => memory[k].call # found[l].call
      /\ \A k \in V4 : table[k] # None => table[k].call # found[l].call
      /\ \A d \in Deleters : \A x \in doomed[d] : x.call # found[l].call
      /\ \A m \in Lookups \ {l} : found[m] # None => found[m].call # found[l].call

\* AnswerForKey and NoStaleAnswer follow from what a lookup holds when it
\* answers; DeletedV4Gone needs Unique, as a flight that lands could otherwise
\* bring back an entry a deletion owes.
IInv ==
  /\ TypeOK /\ Holding /\ Caches /\ Flights /\ Deletion /\ Unique
  /\ AnswerForKey /\ NoStaleAnswer

-----------------------------------------------------------------------------
(* Each action keeps the invariant.                                        *)

\* A fresh entry of memory answers under its own key.
LEMMA BeginIInv ==
  ASSUME IInv, NEW l \in Lookups, NEW k \in Keys, Begin(l, k)
  PROVE  IInv'
<1> USE GeoCacheAssumption DEF IInv, Keys, store, lookup, delete, purge, Begin, Reply, Goto, Fresh
<1>1. TypeOK' BY SMTT(30) DEF TypeOK, Stored, Entries
<1>2. Holding' BY DEF TypeOK, Holding, Caches, Flights
<1>3. Caches' BY DEF TypeOK, Caches, Holding
<1>4. Flights' BY DEF TypeOK, Flights, Holding
<1>5. Deletion' BY DEF TypeOK, Deletion, Owed, Holding, Caches
<1>6. Unique' BY DEF TypeOK, Unique, Holding, Caches, Deletion
<1>7. AnswerForKey' BY DEF TypeOK, AnswerForKey, Holding, Caches
<1>8. NoStaleAnswer' BY DEF TypeOK, NoStaleAnswer, Fresh, Holding
<1> QED BY <1>1, <1>2, <1>3, <1>4, <1>5, <1>6, <1>7, <1>8

\* The row read is one no deletion owes: such a row is gone from the table.
LEMMA ReadRowIInv ==
  ASSUME IInv, NEW l \in Lookups, ReadRow(l)
  PROVE  IInv'
<1> USE GeoCacheAssumption DEF IInv, Keys, store, lookup, delete, purge, ReadRow, Goto, Fresh
<1>1. TypeOK' BY DEF TypeOK, Stored, Entries
<1>2. Holding' BY DEF TypeOK, Holding, Caches, Flights
<1>3. Caches' BY DEF TypeOK, Caches, Holding
<1>4. Flights' BY DEF TypeOK, Flights, Holding
<1>5. Deletion' BY DEF TypeOK, Deletion, Owed, Holding, Caches
<1>6. Unique' BY SMTT(30) DEF TypeOK, Unique, Holding, Caches, Deletion
<1>7. AnswerForKey' BY DEF TypeOK, AnswerForKey, Holding, Caches
<1>8. NoStaleAnswer' BY DEF TypeOK, NoStaleAnswer, Fresh, Holding
<1> QED BY <1>1, <1>2, <1>3, <1>4, <1>5, <1>6, <1>7, <1>8

\* The row in hand goes to memory: no deletion owes what is in a hand.
LEMMA FillMemoryIInv ==
  ASSUME IInv, NEW l \in Lookups, FillMemory(l)
  PROVE  IInv'
<1> USE GeoCacheAssumption DEF IInv, Keys, store, lookup, delete, purge, FillMemory, Reply
<1>1. TypeOK' BY DEF TypeOK, Stored, Entries
<1>2. Holding' BY DEF TypeOK, Holding, Caches, Flights
<1>3. Caches' BY DEF TypeOK, Caches, Holding
<1>4. Flights' BY DEF TypeOK, Flights, Holding
<1>5. Deletion' BY DEF TypeOK, Deletion, Owed, Holding, Caches
<1>6. Unique' BY DEF TypeOK, Unique, Holding, Caches, Deletion
<1>7. AnswerForKey' BY DEF TypeOK, AnswerForKey, Holding, Caches
<1>8. NoStaleAnswer' BY DEF TypeOK, NoStaleAnswer, Fresh, Holding
<1> QED BY <1>1, <1>2, <1>3, <1>4, <1>5, <1>6, <1>7, <1>8

\* A row goes, nothing else.
LEMMA DeleteExpiredIInv ==
  ASSUME IInv, NEW l \in Lookups, DeleteExpired(l)
  PROVE  IInv'
<1> USE GeoCacheAssumption DEF IInv, Keys, store, lookup, delete, purge, DeleteExpired, Goto
<1>1. TypeOK' BY DEF TypeOK, Stored, Entries
<1>2. Holding' BY DEF TypeOK, Holding, Caches, Flights
<1>3. Caches' BY DEF TypeOK, Caches, Holding
<1>4. Flights' BY DEF TypeOK, Flights, Holding
<1>5. Deletion' BY DEF TypeOK, Deletion, Owed, Holding, Caches
<1>6. Unique' BY DEF TypeOK, Unique, Holding, Caches, Deletion
<1>7. AnswerForKey' BY DEF TypeOK, AnswerForKey, Holding, Caches
<1>8. NoStaleAnswer' BY DEF TypeOK, NoStaleAnswer, Fresh, Holding
<1> QED BY <1>1, <1>2, <1>3, <1>4, <1>5, <1>6, <1>7, <1>8

\* An answer of geoip.dat is for the key, and not the provider's.
LEMMA AskLocalIInv ==
  ASSUME IInv, NEW l \in Lookups, AskLocal(l)
  PROVE  IInv'
<1> USE GeoCacheAssumption DEF IInv, Keys, store, lookup, delete, purge, AskLocal, Reply, Goto,
        Entry
<1>1. TypeOK' BY DEF TypeOK, Stored, Entries
<1>2. Holding' BY DEF TypeOK, Holding, Caches, Flights
<1>3. Caches' BY DEF TypeOK, Caches, Holding
<1>4. Flights' BY DEF TypeOK, Flights, Holding
<1>5. Deletion' BY DEF TypeOK, Deletion, Owed, Holding, Caches
<1>6. Unique' BY DEF TypeOK, Unique, Holding, Caches, Deletion
<1>7. AnswerForKey' BY DEF TypeOK, AnswerForKey, Holding, Caches
<1>8. NoStaleAnswer' BY DEF TypeOK, NoStaleAnswer, Fresh, Holding
<1> QED BY <1>1, <1>2, <1>3, <1>4, <1>5, <1>6, <1>7, <1>8

\* A lookup leads a flight only when none is registered for its key.
LEMMA JoinIInv ==
  ASSUME IInv, NEW l \in Lookups, Join(l)
  PROVE  IInv'
<1> USE GeoCacheAssumption DEF IInv, Keys, store, lookup, delete, purge, Join, Goto
<1>1. TypeOK' BY SMTT(30) DEF TypeOK, Stored, Entries
<1>2. Holding' BY DEF TypeOK, Holding, Caches, Flights
<1>3. Caches' BY DEF TypeOK, Caches, Holding
<1>4. Flights' BY DEF TypeOK, Flights, Holding
<1>5. Deletion' BY DEF TypeOK, Deletion, Owed, Holding, Caches
<1>6. Unique' BY DEF TypeOK, Unique, Holding, Caches, Deletion
<1>7. AnswerForKey' BY DEF TypeOK, AnswerForKey, Holding, Caches
<1>8. NoStaleAnswer' BY DEF TypeOK, NoStaleAnswer, Fresh, Holding
<1> QED BY <1>1, <1>2, <1>3, <1>4, <1>5, <1>6, <1>7, <1>8

\* The result of a call bears a number nothing else bears.
LEMMA CallIInv ==
  ASSUME IInv, NEW l \in Lookups, Call(l)
  PROVE  IInv'
<1> USE GeoCacheAssumption DEF IInv, Keys, store, lookup, delete, purge
<1> DEFINE r == found'[l]
<1>1. /\ lpc[l] = "call" /\ key[l] \in Keys /\ found' = [found EXCEPT ![l] = r]
      /\ lpc' = [lpc EXCEPT ![l] = "land"]
      /\ UNCHANGED <<clock, memory, table, flights, key, now, answer>>
      /\ UNCHANGED <<dpc, filter, doomed, carried, ppc, purgeNow>>
  BY DEF Call, Goto, TypeOK, Holding
<1>2. /\ calls' \in 0 .. MaxCalls /\ calls <= calls'
      /\ r \in Entries
      /\ r # None => /\ r.key = key[l] /\ now[l] < r.expires
                     /\ r.call = calls' /\ calls' = calls + 1
  <2>1. CASE found' = [found EXCEPT ![l] = None] /\ calls' = calls
    BY <2>1 DEF TypeOK, Entries
  <2>2. CASE /\ calls < MaxCalls /\ calls' = calls + 1
             /\ found' = [found EXCEPT ![l] = Entry(key[l], calls + 1, now[l] + TTL)]
    <3>1. r = [key |-> key[l], call |-> calls + 1, expires |-> now[l] + TTL]
      BY <2>2 DEF TypeOK, Entry
    <3>2. /\ calls + 1 \in 0 .. MaxCalls /\ now[l] + TTL \in Nat /\ now[l] < now[l] + TTL
          /\ calls <= calls + 1
      BY <2>2 DEF TypeOK
    <3>3. r \in Entries
      BY <1>1, <3>1, <3>2 DEF Stored, Entries
    <3> QED BY <2>2, <3>1, <3>2, <3>3
  <2> QED BY <2>1, <2>2 DEF Call
<1> HIDE DEF r
<1>3. TypeOK'
  BY <1>1, <1>2 DEF TypeOK
<1>4. Holding'
  BY <1>1, <1>2 DEF TypeOK, Holding, Stored, Entries
<1>5. Caches'
  BY <1>1, <1>2 DEF TypeOK, Caches, Stored, Entries
<1>6. Flights'
  BY <1>1 DEF TypeOK, Flights, Holding
<1>7. Deletion'
  <2>1. \A d \in Deleters : \A x \in doomed[d] :
          x # None /\ x.key \in filter[d] /\ x.call <= calls' /\ x # r
    BY <1>2 DEF TypeOK, Deletion, Stored, Entries
  <2> QED BY <1>1, <2>1 DEF TypeOK, Deletion, Owed
<1>8. Unique'
  BY <1>1, <1>2 DEF TypeOK, Unique, Holding, Caches, Deletion, Stored, Entries
<1>9. AnswerForKey' /\ NoStaleAnswer'
  BY <1>1 DEF AnswerForKey, NoStaleAnswer, Fresh
<1> QED BY <1>3, <1>4, <1>5, <1>6, <1>7, <1>8, <1>9

\* The result goes to the leader and the waiters of its flight, all of one key;
\* no deletion owes it, as nothing doomed bears its number.
LEMMA LandIInv ==
  ASSUME IInv, NEW l \in Lookups, Land(l)
  PROVE  IInv'
<1> USE GeoCacheAssumption DEF IInv, Keys, store, lookup, delete, purge
<1> DEFINE r == found[l]
           landed == {l} \cup {w \in Lookups : lpc[w] = "wait" /\ flights[key[w]] = l}
<1>1. /\ lpc[l] = "land" /\ key[l] \in Keys /\ flights' = [flights EXCEPT ![key[l]] = None]
      /\ landed \subseteq Lookups /\ \A w \in landed : key[w] = key[l]
      /\ lpc' = [w \in Lookups |-> IF w \in landed THEN AfterFlight(w, r) ELSE lpc[w]]
      /\ answer' = [w \in Lookups |-> IF w \in landed THEN None ELSE answer[w]]
      /\ UNCHANGED <<clock, memory, table, calls, key, now>>
      /\ UNCHANGED <<dpc, filter, doomed, carried, ppc, purgeNow>>
  BY DEF Land, TypeOK, Holding, Flights
<1>2. /\ found' \in [Lookups -> Entries]
      /\ \A w \in Lookups \ landed : found'[w] = found[w]
      /\ \A w \in landed : r = None => found'[w] = None
      /\ \A w \in landed : r # None =>
           /\ found'[w].key = key[w] /\ found'[w].call = r.call /\ now[w] < found'[w].expires
  <2>1. /\ found' = [w \in Lookups |->
              IF w \in landed /\ r # None THEN Entry(r.key, r.call, now[w] + TTL)
              ELSE IF w \in landed THEN None ELSE found[w]]
    BY DEF Land
  <2>2. \A w \in Lookups : now[w] + TTL \in Nat /\ now[w] < now[w] + TTL
    BY DEF TypeOK
  <2>3. r # None => r \in Stored /\ r.key = key[l]
    BY DEF TypeOK, Holding, Entries
  <2>4. r # None => \A w \in Lookups : Entry(r.key, r.call, now[w] + TTL) \in Stored
    BY <2>2, <2>3 DEF Entry, Stored
  <2>5. found' \in [Lookups -> Entries]
    BY <2>1, <2>4 DEF TypeOK, Entries
  <2> QED BY <1>1, <2>1, <2>2, <2>3, <2>5 DEF Entry
<1> HIDE DEF landed, r
<1>3. /\ l \in landed /\ found[l] = r
      /\ \A w \in landed : w = l \/ (lpc[w] = "wait" /\ flights[key[w]] = l)
      /\ \A w \in Lookups \ landed : lpc[w] = "wait" => flights[key[w]] # l
  BY DEF landed, r
<1>4. TypeOK'
  <2>1. \A w \in Lookups : AfterFlight(w, r) \in {"reply", "insert", "keep"}
                           /\ (AfterFlight(w, r) = "insert" => key[w] \in V4)
    BY DEF AfterFlight
  <2>2. answer' \in [Lookups -> Entries] /\ flights' \in [Keys -> Lookups \cup {None}]
    BY <1>1 DEF TypeOK, Entries
  <2> QED BY <1>1, <1>2, <2>1, <2>2 DEF TypeOK
<1>5. Holding'
  BY <1>1, <1>2, <1>3 DEF TypeOK, Holding, AfterFlight
<1>6. Caches'
  BY <1>1 DEF Caches
<1>7. Flights'
  BY <1>1, <1>3 DEF TypeOK, Flights, Holding, AfterFlight
<1>8. Deletion'
  <2>1. \A d \in Deleters : \A x \in doomed[d] : \A w \in landed : x # found'[w]
    BY <1>1, <1>2, <1>3 DEF Deletion, Unique
  <2>2. \A d \in Deleters : \A w \in Lookups : found'[w] \notin doomed[d] \ carried[d]
    BY <1>2, <2>1 DEF Deletion, Owed
  <2> QED BY <1>1, <2>2 DEF Deletion, Owed
<1>9. Unique'
  BY <1>1, <1>2, <1>3 DEF TypeOK, Unique, AfterFlight
<1>10. AnswerForKey' /\ NoStaleAnswer'
  BY <1>1 DEF AnswerForKey, NoStaleAnswer, Fresh
<1> QED BY <1>4, <1>5, <1>6, <1>7, <1>8, <1>9, <1>10

\* The result in hand goes to the table.
LEMMA InsertRowIInv ==
  ASSUME IInv, NEW l \in Lookups, InsertRow(l)
  PROVE  IInv'
<1> USE GeoCacheAssumption DEF IInv, Keys, store, lookup, delete, purge, InsertRow, Reply, Goto
<1>1. TypeOK' BY SMTT(30) DEF TypeOK, Stored, Entries
<1>2. Holding' BY DEF TypeOK, Holding, Caches, Flights
<1>3. Caches' BY DEF TypeOK, Caches, Holding
<1>4. Flights' BY DEF TypeOK, Flights, Holding
<1>5. Deletion' BY DEF TypeOK, Deletion, Owed, Holding, Caches
<1>6. Unique' BY DEF TypeOK, Unique, Holding, Caches, Deletion
<1>7. AnswerForKey' BY DEF TypeOK, AnswerForKey, Holding, Caches
<1>8. NoStaleAnswer' BY DEF TypeOK, NoStaleAnswer, Fresh, Holding
<1> QED BY <1>1, <1>2, <1>3, <1>4, <1>5, <1>6, <1>7, <1>8

\* The result in hand goes to memory.
LEMMA KeepIInv ==
  ASSUME IInv, NEW l \in Lookups, Keep(l)
  PROVE  IInv'
<1> USE GeoCacheAssumption DEF IInv, Keys, store, lookup, delete, purge, Keep, Reply
<1>1. TypeOK' BY DEF TypeOK, Stored, Entries
<1>2. Holding' BY DEF TypeOK, Holding, Caches, Flights
<1>3. Caches' BY DEF TypeOK, Caches, Holding
<1>4. Flights' BY DEF TypeOK, Flights, Holding
<1>5. Deletion' BY DEF TypeOK, Deletion, Owed, Holding, Caches
<1>6. Unique' BY DEF TypeOK, Unique, Holding, Caches, Deletion
<1>7. AnswerForKey' BY DEF TypeOK, AnswerForKey, Holding, Caches
<1>8. NoStaleAnswer' BY DEF TypeOK, NoStaleAnswer, Fresh, Holding
<1> QED BY <1>1, <1>2, <1>3, <1>4, <1>5, <1>6, <1>7, <1>8

\* The lookup lets go of all it holds.
LEMMA ReturnIInv ==
  ASSUME IInv, NEW l \in Lookups, Return(l)
  PROVE  IInv'
<1> USE GeoCacheAssumption DEF IInv, Keys, store, lookup, delete, purge, Return, Goto
<1>1. TypeOK' BY DEF TypeOK, Stored, Entries
<1>2. Holding' BY DEF TypeOK, Holding, Caches, Flights
<1>3. Caches' BY DEF TypeOK, Caches, Holding
<1>4. Flights' BY DEF TypeOK, Flights, Holding
<1>5. Deletion' BY DEF TypeOK, Deletion, Owed, Holding, Caches
<1>6. Unique' BY DEF TypeOK, Unique, Holding, Caches, Deletion
<1>7. AnswerForKey' BY DEF TypeOK, AnswerForKey, Holding, Caches
<1>8. NoStaleAnswer' BY DEF TypeOK, NoStaleAnswer, Fresh, Holding
<1> QED BY <1>1, <1>2, <1>3, <1>4, <1>5, <1>6, <1>7, <1>8

\* What a lookup has in hand is not owed, and the rows are gone.
LEMMA DeleteRowsIInv ==
  ASSUME IInv, NEW d \in Deleters, NEW ks \in (SUBSET V4 \ {{}}) \cup {Keys}, DeleteRows(d, ks)
  PROVE  IInv'
<1> USE GeoCacheAssumption DEF IInv, Keys, store, lookup, delete, purge
<1> DEFINE Deleted ==
      /\ filter' = [filter EXCEPT ![d] = ks]
      /\ doomed' = [doomed EXCEPT ![d] = StoredIn(ks)]
      /\ carried' = [carried EXCEPT ![d] = StoredIn(ks) \cap {found[l] : l \in Lookups}]
      /\ table' = [k \in V4 |-> IF k \in ks THEN None ELSE table[k]]
      /\ dpc' = [dpc EXCEPT ![d] = "memory"]
    Failed ==
      /\ dpc' = [dpc EXCEPT ![d] = "failed"]
      /\ UNCHANGED <<table, filter, doomed, carried>>
<1>1. dpc[d] = "idle" /\ UNCHANGED <<clock, memory, flights, calls>> /\ UNCHANGED <<lookup, purge>>
  BY DEF DeleteRows
<1>2. Deleted \/ Failed
  BY DEF DeleteRows
<1>3. CASE Failed
  <2>1. UNCHANGED <<clock, store, flights, calls>> /\ UNCHANGED <<lookup, purge>>
    BY <1>1, <1>3
  <2>2. TypeOK' BY <1>3, <2>1 DEF TypeOK, Stored, Entries
  <2>3. Holding' /\ Caches' BY <2>1 DEF Holding, Caches
  <2>4. Flights' BY <2>1 DEF Flights
  <2>5. Deletion' BY <1>1, <1>3, <2>1 DEF TypeOK, Deletion, Owed
  <2>6. Unique' BY <1>3, <2>1 DEF Unique
  <2>7. AnswerForKey' /\ NoStaleAnswer' BY <2>1 DEF AnswerForKey, NoStaleAnswer, Fresh
  <2> QED BY <2>2, <2>3, <2>4, <2>5, <2>6, <2>7
<1>4. CASE Deleted
  <2>1. ks \subseteq Keys
    OBVIOUS
  <2>2. StoredIn(ks) \subseteq Stored
    BY <2>1 DEF TypeOK, Entries, StoredIn
  <2>3. \A x \in StoredIn(ks) : x # None /\ x.key \in ks /\ x.call <= calls
    BY <2>1 DEF Caches, StoredIn
  <2>4. \A k \in V4 : table'[k] \in {None, table[k]} /\ (k \in ks => table'[k] = None)
    BY <1>4
  <2>5. TypeOK'
    <3>1. table' \in [V4 -> Entries]
      BY <1>4 DEF TypeOK, Entries
    <3>2. /\ dpc' \in [Deleters -> {"idle", "memory", "done", "failed"}]
          /\ filter' \in [Deleters -> SUBSET Keys]
      BY <1>4, <2>1 DEF TypeOK
    <3>3. doomed' \in [Deleters -> SUBSET Stored] /\ carried' \in [Deleters -> SUBSET Stored]
      BY <1>4, <2>2 DEF TypeOK
    <3> QED BY <1>1, <3>1, <3>2, <3>3 DEF TypeOK
  <2>6. Holding' BY <1>1 DEF Holding
  <2>7. Caches' BY <1>1, <2>4 DEF Caches
  <2>8. Flights' BY <1>1 DEF Flights
  <2>9. Deletion'
    <3> SUFFICES ASSUME NEW e \in Deleters
                 PROVE  /\ dpc'[e] \in {"idle", "failed"} => doomed'[e] = {}
                        /\ \A x \in doomed'[e] :
                             x # None /\ x.key \in filter'[e] /\ x.call <= calls'
                        /\ \A k \in V4 : k \in filter'[e] => table'[k] \notin Owed(e)'
                        /\ \A l \in Lookups : found'[l] \notin Owed(e)'
                        /\ dpc'[e] = "done" =>
                             \A k \in V4 : k \in filter'[e] => memory'[k] \notin Owed(e)'
      BY DEF Deletion
    <3>1. CASE e = d
      <4>1. /\ dpc'[e] = "memory" /\ filter'[e] = ks /\ doomed'[e] = StoredIn(ks)
            /\ Owed(e)' = StoredIn(ks) \ (StoredIn(ks) \cap {found[l] : l \in Lookups})
        BY <1>4, <3>1 DEF TypeOK, Owed
      <4> QED BY <1>1, <2>3, <2>4, <4>1
    <3>2. CASE e # d
      <4>1. /\ dpc'[e] = dpc[e] /\ filter'[e] = filter[e] /\ doomed'[e] = doomed[e]
            /\ Owed(e)' = Owed(e)
        BY <1>4, <3>2 DEF TypeOK, Owed
      <4>2. \A x \in doomed[e] : x # None
        BY DEF Deletion
      <4> QED BY <1>1, <2>4, <4>1, <4>2 DEF Deletion, Owed
    <3> QED BY <3>1, <3>2
  <2>10. Unique'
    <3>1. \A e \in Deleters : doomed'[e] = IF e = d THEN StoredIn(ks) ELSE doomed[e]
      BY <1>4 DEF TypeOK
    <3>2. \A l \in Lookups : lpc[l] = "land" /\ found[l] # None =>
            \A x \in StoredIn(ks) : x.call # found[l].call
      BY <2>1 DEF Unique, StoredIn
    <3> QED BY <1>1, <2>4, <3>1, <3>2 DEF Unique
  <2>11. AnswerForKey' /\ NoStaleAnswer'
    BY <1>1, <2>4 DEF AnswerForKey, NoStaleAnswer, Fresh
  <2> QED BY <2>5, <2>6, <2>7, <2>8, <2>9, <2>10, <2>11
<1> QED BY <1>2, <1>3, <1>4

\* The memory of the filter is gone.
LEMMA DeleteMemoryIInv ==
  ASSUME IInv, NEW d \in Deleters, DeleteMemory(d)
  PROVE  IInv'
<1> USE GeoCacheAssumption DEF IInv, Keys, store, lookup, delete, purge, DeleteMemory
<1>1. TypeOK' BY DEF TypeOK, Stored, Entries
<1>2. Holding' BY DEF TypeOK, Holding, Caches, Flights
<1>3. Caches' BY DEF TypeOK, Caches, Holding
<1>4. Flights' BY DEF TypeOK, Flights, Holding
<1>5. Deletion' BY DEF TypeOK, Deletion, Owed, Holding, Caches
<1>6. Unique' BY DEF TypeOK, Unique, Holding, Caches, Deletion
<1>7. AnswerForKey' BY DEF TypeOK, AnswerForKey, Holding, Caches
<1>8. NoStaleAnswer' BY DEF TypeOK, NoStaleAnswer, Fresh, Holding
<1> QED BY <1>1, <1>2, <1>3, <1>4, <1>5, <1>6, <1>7, <1>8

\* The purge only removes rows.
LEMMA PurgeRowsIInv ==
  ASSUME IInv, PurgeRows
  PROVE  IInv'
<1> USE GeoCacheAssumption DEF IInv, Keys, store, lookup, delete, purge, PurgeRows
<1>1. TypeOK' BY DEF TypeOK, Stored, Entries
<1>2. Holding' BY DEF TypeOK, Holding, Caches, Flights
<1>3. Caches' BY DEF TypeOK, Caches, Holding
<1>4. Flights' BY DEF TypeOK, Flights, Holding
<1>5. Deletion' BY DEF TypeOK, Deletion, Owed, Holding, Caches
<1>6. Unique' BY DEF TypeOK, Unique, Holding, Caches, Deletion
<1>7. AnswerForKey' BY DEF TypeOK, AnswerForKey, Holding, Caches
<1>8. NoStaleAnswer' BY DEF TypeOK, NoStaleAnswer, Fresh, Holding
<1> QED BY <1>1, <1>2, <1>3, <1>4, <1>5, <1>6, <1>7, <1>8

\* The purge only removes entries of memory.
LEMMA PurgeMemoryIInv ==
  ASSUME IInv, PurgeMemory
  PROVE  IInv'
<1> USE GeoCacheAssumption DEF IInv, Keys, store, lookup, delete, purge, PurgeMemory
<1>1. TypeOK' BY DEF TypeOK, Stored, Entries
<1>2. Holding' BY DEF TypeOK, Holding, Caches, Flights
<1>3. Caches' BY DEF TypeOK, Caches, Holding
<1>4. Flights' BY DEF TypeOK, Flights, Holding
<1>5. Deletion' BY DEF TypeOK, Deletion, Owed, Holding, Caches
<1>6. Unique' BY DEF TypeOK, Unique, Holding, Caches, Deletion
<1>7. AnswerForKey' BY DEF TypeOK, AnswerForKey, Holding, Caches
<1>8. NoStaleAnswer' BY DEF TypeOK, NoStaleAnswer, Fresh, Holding
<1> QED BY <1>1, <1>2, <1>3, <1>4, <1>5, <1>6, <1>7, <1>8

\* Time alone changes nothing.
LEMMA TickIInv ==
  ASSUME IInv, Tick
  PROVE  IInv'
<1> USE GeoCacheAssumption DEF IInv, Keys, store, lookup, delete, purge, Tick
<1>1. TypeOK' BY DEF TypeOK, Stored, Entries
<1>2. Holding' BY DEF TypeOK, Holding, Caches, Flights
<1>3. Caches' BY DEF TypeOK, Caches, Holding
<1>4. Flights' BY DEF TypeOK, Flights, Holding
<1>5. Deletion' BY DEF TypeOK, Deletion, Owed, Holding, Caches
<1>6. Unique' BY DEF TypeOK, Unique, Holding, Caches, Deletion
<1>7. AnswerForKey' BY DEF TypeOK, AnswerForKey, Holding, Caches
<1>8. NoStaleAnswer' BY DEF TypeOK, NoStaleAnswer, Fresh, Holding
<1> QED BY <1>1, <1>2, <1>3, <1>4, <1>5, <1>6, <1>7, <1>8

\* Nothing is stored, held or registered at the start.
LEMMA InitIInv == Init => IInv
<1> SUFFICES ASSUME Init PROVE IInv
  OBVIOUS
<1> USE GeoCacheAssumption DEF Init, store, lookup, delete, purge
<1>1. TypeOK
  BY DEF TypeOK, Entries
<1>2. Holding /\ Caches /\ Flights /\ Unique
  BY DEF Holding, Caches, Flights, Unique
<1>3. Deletion
  BY DEF Deletion, Owed
<1>4. AnswerForKey /\ NoStaleAnswer
  BY DEF AnswerForKey, NoStaleAnswer
<1> QED BY <1>1, <1>2, <1>3, <1>4 DEF IInv

\* Nor does a step that changes no variable.
LEMMA StutterIInv ==
  ASSUME IInv, UNCHANGED vars
  PROVE  IInv'
<1> USE DEF vars, store, lookup, delete, purge
<1>1. TypeOK'
  BY DEF IInv, TypeOK
<1>2. Holding' /\ Caches' /\ Flights' /\ Unique'
  BY DEF IInv, Holding, Caches, Flights, Unique
<1>3. Deletion'
  BY DEF IInv, Deletion, Owed
<1>4. AnswerForKey' /\ NoStaleAnswer'
  BY DEF IInv, AnswerForKey, NoStaleAnswer, Fresh
<1> QED BY <1>1, <1>2, <1>3, <1>4 DEF IInv

-----------------------------------------------------------------------------
(* The theorems.                                                           *)

\* The invariant holds in every reachable state.
THEOREM Inductive == Spec => []IInv
<1>1. IInv /\ [Next]_vars => IInv'
  <2>1. SUFFICES ASSUME IInv, [Next]_vars PROVE IInv'
    OBVIOUS
  <2>2. CASE \E l \in Lookups : (\E k \in Keys : Begin(l, k)) \/ Steps(l)
    BY <2>1, <2>2, BeginIInv, ReadRowIInv, FillMemoryIInv, DeleteExpiredIInv, AskLocalIInv,
       JoinIInv, CallIInv, LandIInv, InsertRowIInv, KeepIInv, ReturnIInv DEF Steps
  <2>3. CASE \E d \in Deleters :
               \/ \E ks \in (SUBSET V4 \ {{}}) \cup {Keys} : DeleteRows(d, ks)
               \/ DeleteMemory(d)
    BY <2>1, <2>3, DeleteRowsIInv, DeleteMemoryIInv
  <2>4. CASE PurgeRows \/ PurgeMemory \/ Tick
    BY <2>1, <2>4, PurgeRowsIInv, PurgeMemoryIInv, TickIInv
  <2>5. CASE UNCHANGED vars
    BY <2>1, <2>5, StutterIInv
  <2> QED BY <2>1, <2>2, <2>3, <2>4, <2>5 DEF Next
<1> QED BY InitIInv, <1>1, PTL DEF Spec

\* Every variable keeps its type.
THEOREM TypeCorrect == Spec => []TypeOK
<1>1. IInv => TypeOK
  BY DEF IInv
<1> QED BY Inductive, <1>1, PTL

\* A lookup answers, and a cache holds, only the result for the key asked for,
\* however flights, fills and deletions interleave (lookupProvider).
THEOREM AnswersAreForTheKey == Spec => []AnswerForKey
<1>1. IInv => AnswerForKey
  BY DEF IInv
<1> QED BY Inductive, <1>1, PTL

\* No answer of the provider is served past its expiry (Lookup reads the time
\* before the cache and the row).
THEOREM AnswersAreFresh == Spec => []NoStaleAnswer
<1>1. IInv => NoStaleAnswer
  BY DEF IInv
<1> QED BY Inductive, <1>1, PTL

\* One call of the provider per key, and no waiter without a flight in the air
\* (l.flights under flightMu).
THEOREM OneFlightPerKey == Spec => []SingleFlight
<1>1. IInv => SingleFlight
  <2> SUFFICES ASSUME IInv PROVE SingleFlight
    OBVIOUS
  <2> USE GeoCacheAssumption DEF IInv
  <2>1. ASSUME NEW l \in Lookups, NEW m \in Lookups, key[l] = key[m],
               lpc[l] \in {"call", "land"}, lpc[m] \in {"call", "land"}
        PROVE  l = m
    BY <2>1 DEF Flights
  <2>2. ASSUME NEW w \in Lookups, lpc[w] = "wait"
        PROVE  \E l \in Lookups : lpc[l] \in {"call", "land"} /\ key[l] = key[w]
    <3>1. key[w] \in Keys /\ flights[key[w]] \in Lookups
      BY <2>2 DEF Flights, Holding, TypeOK
    <3> QED BY <3>1 DEF Flights
  <2> QED BY <2>1, <2>2 DEF SingleFlight
<1> QED BY Inductive, <1>1, PTL

\* A finished DELETE /api/geo-cache has removed every IPv4 entry stored when it
\* began, unless a lookup had it in hand (DeleteCache).
THEOREM DeletionIsComplete == Spec => []DeletedV4Gone
<1>1. IInv => DeletedV4Gone
  BY DEF IInv, Deletion, Owed, DeletedV4Gone, StoredIn
<1> QED BY Inductive, <1>1, PTL

-----------------------------------------------------------------------------
(* The index of geoip.dat (DatIndex.tla): any file, any number of CIDRs,   *)
(* countries and bits.                                                     *)

\* A set of natural numbers has a least one,
LEMMA LeastOf ==
  ASSUME NEW S \in SUBSET Nat, S # {}
  PROVE  \E n \in S : \A m \in S : n <= m
<1>1. PICK n \in S : \A m \in S : ~(<<m, n>> \in OpToRel(LAMBDA x, y : x < y, Nat))
  BY WFMin, NatLessThanWellFounded
<1>2. \A m \in S : ~(m < n)
  BY <1>1 DEF OpToRel
<1> QED BY <1>2

\* and, if it is bounded, a greatest one.
LEMMA GreatestOf ==
  ASSUME NEW S \in SUBSET Nat, S # {}, NEW b \in Nat, \A m \in S : m <= b
  PROVE  \E n \in S : \A m \in S : m <= n
<1> DEFINE T == {d \in Nat : b - d \in S}
<1>1. \A m \in S : b - m \in T
  BY DEF T
<1>2. T # {} /\ T \in SUBSET Nat
  BY <1>1
<1>3. PICK d \in T : \A e \in T : d <= e
  BY <1>2, LeastOf
<1>4. b - d \in S /\ \A m \in S : m <= b - d
  BY <1>1, <1>3
<1> QED BY <1>4

\* A sequence is a function on 1..n,
LEMMA SeqDomain ==
  ASSUME NEW S, NEW s \in Seq(S)
  PROVE  DOMAIN s = 1..Len(s) /\ Len(s) \in Nat /\ \A k \in DOMAIN s : s[k] \in S
OBVIOUS

\* and the other way round.
LEMMA SeqOf ==
  ASSUME NEW S, NEW n \in Nat, NEW s \in [1..n -> S]
  PROVE  s \in Seq(S)
OBVIOUS

-----------------------------------------------------------------------------
(* Addresses.                                                              *)

\* The order of addresses is strict and total.
LEMMA LessOrder ==
  ASSUME NEW w \in Nat, NEW a \in [1..w -> 0..1], NEW b \in [1..w -> 0..1],
         NEW c \in [1..w -> 0..1]
  PROVE  /\ ~Less(a, a)
         /\ Less(a, b) /\ Less(b, c) => Less(a, c)
         /\ a # b => Less(a, b) \/ Less(b, a)
<1>1. \A x \in [1..w -> 0..1] : DOMAIN x = 1..w /\ \A i \in 1..w : x[i] \in 0..1
  OBVIOUS
<1>2. ~Less(a, a)
  BY <1>1 DEF Less
<1>3. ASSUME Less(a, b), Less(b, c) PROVE Less(a, c)
  <2>1. PICK i \in 1..w : a[i] < b[i] /\ \A j \in 1..(i - 1) : a[j] = b[j]
    BY <1>1, <1>3 DEF Less
  <2>2. PICK k \in 1..w : b[k] < c[k] /\ \A j \in 1..(k - 1) : b[j] = c[j]
    BY <1>1, <1>3 DEF Less
  <2>3. CASE i <= k
    <3>1. a[i] < c[i]
      BY <1>1, <2>1, <2>2, <2>3
    <3>2. \A j \in 1..(i - 1) : a[j] = c[j]
      BY <2>1, <2>2, <2>3
    <3> QED BY <1>1, <3>1, <3>2 DEF Less
  <2>4. CASE k < i
    <3>1. a[k] < c[k]
      BY <1>1, <2>1, <2>2, <2>4
    <3>2. \A j \in 1..(k - 1) : a[j] = c[j]
      BY <2>1, <2>2, <2>4
    <3> QED BY <1>1, <3>1, <3>2 DEF Less
  <2> QED BY <2>3, <2>4
<1>4. ASSUME a # b PROVE Less(a, b) \/ Less(b, a)
  <2> DEFINE D == {i \in 1..w : a[i] # b[i]}
  <2>1. D # {} /\ D \in SUBSET Nat
    BY <1>1, <1>4
  <2>2. PICK i \in D : \A j \in D : i <= j
    BY <2>1, LeastOf
  <2>3. i \in 1..w /\ a[i] # b[i] /\ \A j \in 1..(i - 1) : a[j] = b[j]
    BY <2>2
  <2>4. a[i] < b[i] \/ b[i] < a[i]
    BY <1>1, <2>3
  <2> QED BY <1>1, <2>3, <2>4 DEF Less
<1> QED BY <1>2, <1>3, <1>4

\* Division by the bits of a byte keeps the order, the rest decides in a byte.
LEMMA ByteOrder ==
  ASSUME NEW b \in Nat \ {0}, NEW x \in Nat, NEW y \in Nat
  PROVE  x < y <=> \/ x \div b < y \div b
                   \/ x \div b = y \div b /\ x % b < y % b
<1> DEFINE m == x \div b  n == y \div b  s == x % b  t == y % b
<1>1. /\ m \in Nat /\ n \in Nat /\ s \in 0..(b - 1) /\ t \in 0..(b - 1)
      /\ x = b * m + s /\ y = b * n + t
  OBVIOUS
<1> HIDE DEF m, n, s, t
<1>2. \A i, j \in Nat : i < j => b * i + b <= b * j
  <2> SUFFICES ASSUME NEW i \in Nat, NEW j \in Nat, i < j PROVE b * i + b <= b * j
    OBVIOUS
  <2>1. PICK d \in Nat : j = i + 1 + d
    <3>1. j - i - 1 \in Nat /\ j = i + 1 + (j - i - 1)
      OBVIOUS
    <3> QED BY <3>1
  <2>2. b * j = b * i + b + b * d /\ b * d \in Nat
    BY <2>1
  <2> QED BY <2>2
<1>3. m < n => x < y
  BY <1>1, <1>2
<1>4. n < m => y < x
  BY <1>1, <1>2
<1> QED BY <1>1, <1>3, <1>4 DEF m, n, s, t

\* What the loader and the search keep of an address: its first p bits.
LEMMA MaskKeepsPrefix ==
  ASSUME NEW f \in Families, NEW a \in Address(f),
         NEW p \in 0..Width(f)
  PROVE  /\ Mask(f, a, p) \in Address(f)
         /\ \A k \in 1..Width(f) : Mask(f, a, p)[k] = IF k <= p THEN a[k] ELSE 0
<1> DEFINE w == Width(f)
<1>1. w \in Nat /\ ByteBits \in Nat \ {0} /\ p \in Nat
  BY DatIndexAssumption DEF Width
<1>2. DOMAIN a = 1..w /\ \A k \in 1..w : a[k] \in 0..1
  BY DEF Address
<1>3. MaskV4(a, p) = [k \in 1..w |-> IF k <= p THEN a[k] ELSE 0]
  BY <1>2 DEF MaskV4
<1>4. MaskV6(a, p) = [k \in 1..w |-> IF k <= p THEN a[k] ELSE 0]
  <2>1. \A k \in 1..w : k <= p <=> \/ (k - 1) \div ByteBits < p \div ByteBits
                                  \/ /\ (k - 1) \div ByteBits = p \div ByteBits
                                     /\ (k - 1) % ByteBits < p % ByteBits
    <3> SUFFICES ASSUME NEW k \in 1..w
                 PROVE  k <= p <=> \/ (k - 1) \div ByteBits < p \div ByteBits
                                   \/ /\ (k - 1) \div ByteBits = p \div ByteBits
                                      /\ (k - 1) % ByteBits < p % ByteBits
      OBVIOUS
    <3>1. k - 1 \in Nat /\ (k <= p <=> k - 1 < p)
      BY <1>1
    <3> QED BY <1>1, <3>1, ByteOrder
  <2>2. MaskV6(a, p) =
          [k \in 1..w |->
             IF \/ (k - 1) \div ByteBits < p \div ByteBits
                \/ (k - 1) \div ByteBits = p \div ByteBits /\ (k - 1) % ByteBits < p % ByteBits
             THEN a[k] ELSE 0]
    BY <1>2 DEF MaskV6
  <2> QED BY <2>1, <2>2
<1>5. Mask(f, a, p) = [k \in 1..w |-> IF k <= p THEN a[k] ELSE 0]
  BY <1>3, <1>4 DEF Mask
<1> QED BY <1>2, <1>5 DEF Address

\* Two addresses are alike once masked if their first p bits are.
LEMMA MaskedAlike ==
  ASSUME NEW f \in Families, NEW a \in Address(f),
         NEW b \in Address(f), NEW p \in 0..Width(f)
  PROVE  Mask(f, a, p) = Mask(f, b, p) <=> \A k \in 1..p : a[k] = b[k]
<1> DEFINE w == Width(f)  x == Mask(f, a, p)  y == Mask(f, b, p)
<1>1. w \in Nat /\ p \in Nat /\ p <= w
  BY DatIndexAssumption DEF Width
<1>2. /\ x \in [1..w -> 0..1] /\ y \in [1..w -> 0..1]
      /\ \A k \in 1..w : x[k] = IF k <= p THEN a[k] ELSE 0
      /\ \A k \in 1..w : y[k] = IF k <= p THEN b[k] ELSE 0
  BY MaskKeepsPrefix DEF Address
<1> HIDE DEF x, y, w
<1>3. ASSUME x = y PROVE \A k \in 1..p : a[k] = b[k]
  BY <1>1, <1>2, <1>3
<1>4. ASSUME \A k \in 1..p : a[k] = b[k] PROVE x = y
  <2>1. \A k \in 1..w : x[k] = y[k]
    BY <1>1, <1>2, <1>4
  <2>2. x \in [1..w -> 0..1] /\ y \in [1..w -> 0..1]
    BY <1>2
  <2>3. x = [k \in 1..w |-> x[k]] /\ y = [k \in 1..w |-> y[k]]
    BY <2>2
  <2>4. [k \in 1..w |-> x[k]] = [k \in 1..w |-> y[k]]
    BY <2>1
  <2> QED BY <2>3, <2>4
<1> QED BY <1>3, <1>4 DEF x, y

-----------------------------------------------------------------------------
(* A finite set in order.                                                  *)

\* prior is a strict total order of S.
Orders(prior, S) ==
  /\ \A x \in S : <<x, x>> \notin prior
  /\ \A x, y, z \in S : <<x, y>> \in prior /\ <<y, z>> \in prior => <<x, z>> \in prior
  /\ \A x, y \in S : x # y => <<x, y>> \in prior \/ <<y, x>> \in prior

\* InOrder lists the members of S, each behind those before it.
LEMMA InOrderLists ==
  ASSUME NEW S, IsFiniteSet(S), NEW prior, Orders(prior, S)
  PROVE  LET s == InOrder(S, prior) IN
         /\ s \in Seq(S) /\ DOMAIN s = 1..Cardinality(S)
         /\ \A x \in S : \E k \in DOMAIN s : s[k] = x
         /\ \A j, k \in DOMAIN s : j < k => <<s[j], s[k]>> \in prior
<1> DEFINE n == Cardinality(S)
           Below(x) == {y \in S : <<y, x>> \in prior}
           rank == [x \in S |-> Cardinality(Below(x)) + 1]
           s == InOrder(S, prior)
<1>1. n \in Nat
  BY FS_CardinalityType
<1>2. \A x \in S : IsFiniteSet(Below(x)) /\ Cardinality(Below(x)) \in Nat
  BY FS_Subset, FS_CardinalityType
<1>3. \A x, y \in S : <<x, y>> \in prior => Cardinality(Below(x)) < Cardinality(Below(y))
  <2> SUFFICES ASSUME NEW x \in S, NEW y \in S, <<x, y>> \in prior
               PROVE  Cardinality(Below(x)) < Cardinality(Below(y))
    OBVIOUS
  <2>1. Below(x) \subseteq Below(y) /\ Below(x) # Below(y)
    BY DEF Orders
  <2> HIDE DEF Below
  <2>2. /\ Cardinality(Below(x)) <= Cardinality(Below(y))
        /\ Cardinality(Below(x)) # Cardinality(Below(y))
    BY <1>2, <2>1, FS_Subset
  <2> QED BY <1>2, <2>2
<1>4. \A x \in S : Cardinality(Below(x)) < n
  <2> SUFFICES ASSUME NEW x \in S PROVE Cardinality(Below(x)) < n
    OBVIOUS
  <2>1. Below(x) \subseteq S /\ Below(x) # S
    BY DEF Orders
  <2> HIDE DEF Below
  <2>2. Cardinality(Below(x)) <= n /\ Cardinality(Below(x)) # n
    BY <2>1, FS_Subset
  <2> QED BY <1>1, <1>2, <2>2
<1>10. s = [k \in 1..n |-> CHOOSE x \in S : Cardinality(Below(x)) = k - 1]
  BY DEF InOrder, Cardinality, Cardinality
<1> HIDE DEF Below
<1>5. rank \in [S -> 1..n]
  <2>1. \A x \in S : Cardinality(Below(x)) + 1 \in 1..n
    BY <1>1, <1>2, <1>4
  <2> QED BY <2>1
<1>6. \A x, y \in S : rank[x] = rank[y] => x = y
  <2> SUFFICES ASSUME NEW x \in S, NEW y \in S, rank[x] = rank[y], x # y PROVE FALSE
    OBVIOUS
  <2>1. Cardinality(Below(x)) = Cardinality(Below(y))
    BY <1>2
  <2>2. \/ Cardinality(Below(x)) < Cardinality(Below(y))
        \/ Cardinality(Below(y)) < Cardinality(Below(x))
    BY <1>3 DEF Orders
  <2> QED BY <1>2, <2>1, <2>2
<1>7. rank \in Injection(S, 1..n)
  BY <1>5, <1>6 DEF Injection, IsInjective
<1>8. rank \in Surjection(S, 1..n)
  <2>1. IsFiniteSet(1..n) /\ Cardinality(1..n) = n
    BY <1>1, FS_Interval
  <2> QED BY <1>7, <2>1, FS_Injection
<1>9. \A k \in 1..n : \E x \in S : Cardinality(Below(x)) = k - 1
  <2> SUFFICES ASSUME NEW k \in 1..n PROVE \E x \in S : Cardinality(Below(x)) = k - 1
    OBVIOUS
  <2>1. PICK x \in S : rank[x] = k
    BY <1>8 DEF Surjection
  <2>2. Cardinality(Below(x)) + 1 = k
    BY <2>1
  <2> QED BY <1>2, <2>2
<1> HIDE DEF s, rank
<1>11. \A k \in 1..n : s[k] \in S /\ Cardinality(Below(s[k])) = k - 1
  BY <1>9, <1>10
<1>12. s \in Seq(S) /\ DOMAIN s = 1..n
  BY <1>1, <1>10, <1>11
<1>13. \A x \in S : \E k \in 1..n : s[k] = x
  <2> SUFFICES ASSUME NEW x \in S PROVE \E k \in 1..n : s[k] = x
    OBVIOUS
  <2>1. PICK k \in 1..n : k = rank[x]
    BY <1>5
  <2>2. Cardinality(Below(x)) = k - 1
    BY <1>2, <2>1 DEF rank
  <2>3. rank[s[k]] = rank[x]
    BY <1>11, <2>2 DEF rank
  <2> QED BY <1>6, <1>11, <2>3
<1>14. \A j, k \in 1..n : j < k => <<s[j], s[k]>> \in prior
  <2> SUFFICES ASSUME NEW j \in 1..n, NEW k \in 1..n, j < k
               PROVE  <<s[j], s[k]>> \in prior
    OBVIOUS
  <2>1. s[j] # s[k] /\ s[j] \in S /\ s[k] \in S
    BY <1>11
  <2>2. <<s[k], s[j]>> \notin prior
    BY <1>3, <1>11
  <2> QED BY <2>1, <2>2 DEF Orders
<1> QED BY <1>12, <1>13, <1>14 DEF s

-----------------------------------------------------------------------------
(* The index.                                                              *)

\* What a file's codes are: each country of the file once.
AreCodes(fl, codes) ==
  /\ codes \in Seq(Countries)
  /\ \A c, d \in DOMAIN codes : codes[c] = codes[d] => c = d
  /\ \A i \in Visited(fl) : \E c \in DOMAIN codes : codes[c] = fl[i].code

\* What a table holds: the file's CIDRs of one family and prefix length, masked,
\* sorted by address, with the positions of their countries.
IsTable(fl, codes, f, p, t) ==
  /\ t \in Seq([address : Address(f), code : DOMAIN codes])
  /\ \A j, k \in DOMAIN t : j < k => ~Less(t[k].address, t[j].address)
  /\ \A k \in DOMAIN t : \E i \in Visited(fl) :
       /\ fl[i].family = f /\ fl[i].prefix = p
       /\ t[k].address = Mask(f, fl[i].ip, p) /\ codes[t[k].code] = fl[i].code
  /\ \A i \in Visited(fl) :
       fl[i].family = f /\ fl[i].prefix = p =>
         \E k \in DOMAIN t : t[k].address = Mask(f, fl[i].ip, p)

IsIndex(fl, ix) ==
  /\ AreCodes(fl, ix.codes)
  /\ \A f \in Families : \A p \in 0..Width(f) :
       IsTable(fl, ix.codes, f, p, ix.table[f][p])

\* A file has finitely many CIDRs.
LEMMA VisitedFinite ==
  ASSUME NEW fl \in Files
  PROVE  /\ IsFiniteSet(Visited(fl)) /\ Visited(fl) \subseteq Nat
         /\ Visited(fl) \subseteq DOMAIN fl
         /\ \A i \in Visited(fl) : fl[i].code \in Countries
<1>1. IsFiniteSet(DOMAIN fl) /\ DOMAIN fl \subseteq Nat
  BY DatIndexAssumption
<1>2. Visited(fl) \subseteq DOMAIN fl /\ \A i \in Visited(fl) : fl[i].code \in Countries
  BY DEF Visited
<1> QED BY <1>1, <1>2, FS_Subset

\* The codes are the countries of the file.
LEMMA CodesListed ==
  ASSUME NEW fl \in Files
  PROVE  AreCodes(fl, CodesOf(fl))
<1> DEFINE V == Visited(fl)
           first == {i \in V : \A j \in V : fl[j].code = fl[i].code => i <= j}
           prior == {x \in first \X first : x[1] < x[2]}
           at == InOrder(first, prior)
           codes == CodesOf(fl)
<1>1. IsFiniteSet(V) /\ V \subseteq Nat /\ \A i \in V : fl[i].code \in Countries
  BY VisitedFinite
<1>2. first \subseteq V /\ IsFiniteSet(first)
  BY <1>1, FS_Subset
<1>3. Orders(prior, first)
  <2>1. \A x, y \in first : <<x, y>> \in prior <=> x < y
    OBVIOUS
  <2>2. first \subseteq Nat
    BY <1>1
  <2> HIDE DEF first, prior
  <2> QED BY <2>1, <2>2 DEF Orders
<1>4. codes = [k \in DOMAIN at |-> fl[at[k]].code]
  BY DEF CodesOf
<1> HIDE DEF codes, at, prior
<1>5. /\ at \in Seq(first) /\ DOMAIN at = 1..Cardinality(first)
      /\ \A x \in first : \E k \in DOMAIN at : at[k] = x
      /\ \A j, k \in DOMAIN at : j < k => <<at[j], at[k]>> \in prior
  BY <1>2, <1>3, InOrderLists DEF at
<1> HIDE DEF first
<1>6. DOMAIN codes = DOMAIN at /\ DOMAIN at = 1..Len(at) /\ Len(at) \in Nat
      /\ \A k \in DOMAIN codes : codes[k] = fl[at[k]].code /\ at[k] \in first
  <2>1. DOMAIN at = 1..Len(at) /\ Len(at) \in Nat /\ \A k \in DOMAIN at : at[k] \in first
    BY <1>5, SeqDomain
  <2> QED BY <1>4, <2>1
<1> USE DEF first
<1>7. codes \in Seq(Countries)
  <2>1. codes \in [1..Len(at) -> Countries]
    BY <1>1, <1>2, <1>4, <1>6
  <2> QED BY <1>6, <2>1
<1>8. ASSUME NEW c \in DOMAIN codes, NEW d \in DOMAIN codes, codes[c] = codes[d] PROVE c = d
  <2>1. at[c] \in V /\ at[d] \in V /\ at[c] <= at[d] /\ at[d] <= at[c]
    BY <1>6, <1>8
  <2>2. at[c] = at[d]
    BY <1>1, <2>1
  <2>3. \A j, k \in DOMAIN at : j < k => at[j] < at[k]
    BY <1>5 DEF prior
  <2> QED BY <1>1, <1>6, <2>1, <2>2, <2>3
<1>9. ASSUME NEW i \in V PROVE \E c \in DOMAIN codes : codes[c] = fl[i].code
  <2> DEFINE same == {j \in V : fl[j].code = fl[i].code}
  <2>1. same # {} /\ same \in SUBSET Nat
    BY <1>1, <1>9
  <2>2. PICK j \in same : \A k \in same : j <= k
    BY <2>1, LeastOf
  <2>3. j \in first /\ fl[j].code = fl[i].code
    BY <2>2
  <2>4. PICK k \in DOMAIN at : at[k] = j
    BY <1>5, <2>3
  <2> QED BY <1>6, <2>3, <2>4
<1> QED BY <1>7, <1>8, <1>9 DEF AreCodes, codes

\* Each table is sorted and complete, whatever order sort.Slice gives equal addresses.
LEMMA TableBuilt ==
  ASSUME NEW fl \in Files, Accepted(fl),
         NEW rank \in Bijection(DOMAIN fl, DOMAIN fl),
         NEW f \in Families, NEW p \in 0..Width(f)
  PROVE  IsTable(fl, CodesOf(fl), f, p, Table(fl, rank, f, p))
<1> DEFINE V == Visited(fl)
           codes == CodesOf(fl)
           here == {i \in V : fl[i].family = f /\ fl[i].prefix = p}
           address == [i \in here |-> Mask(f, fl[i].ip, p)]
           prior == ByAddress(here, address, rank)
           rows == InOrder(here, prior)
           t == Table(fl, rank, f, p)
<1>1. IsFiniteSet(V) /\ V \subseteq Nat /\ V \subseteq DOMAIN fl
  BY VisitedFinite
<1>2. here \subseteq V /\ IsFiniteSet(here)
  BY <1>1, FS_Subset
<1>3. \A i \in here : address[i] \in Address(f)
  <2> SUFFICES ASSUME NEW i \in here PROVE Mask(f, fl[i].ip, p) \in Address(f)
    OBVIOUS
  <2>1. fl[i].ip \in Address(f)
    BY <1>1, DatIndexAssumption
  <2> QED BY <2>1, MaskKeepsPrefix
<1>4. /\ \A i \in V : rank[i] \in Nat
      /\ \A i, j \in V : rank[i] = rank[j] => i = j
  <2>1. DOMAIN fl \subseteq Nat
    BY DatIndexAssumption
  <2> QED BY <1>1, <2>1 DEF Bijection, Injection, IsInjective
<1> DEFINE w == Width(f)
<1>5. w \in Nat /\ Address(f) = [1..w -> 0..1]
  BY DatIndexAssumption DEF Width, Address
<1> HIDE DEF address, w
<1>6. \A i, j \in here : <<i, j>> \in prior <=>
        \/ Less(address[i], address[j])
        \/ address[i] = address[j] /\ rank[i] < rank[j]
  BY DEF ByAddress
<1> HIDE DEF prior, here
<1>7. Orders(prior, here)
  <2>1. ASSUME NEW x \in here PROVE <<x, x>> \notin prior
    <3>1. address[x] \in [1..w -> 0..1] /\ rank[x] \in Nat
      BY <1>2, <1>3, <1>4, <1>5
    <3>2. ~Less(address[x], address[x])
      BY <1>5, <3>1, LessOrder
    <3> QED BY <1>6, <3>1, <3>2
  <2>2. ASSUME NEW x \in here, NEW y \in here, NEW z \in here,
               <<x, y>> \in prior, <<y, z>> \in prior
        PROVE  <<x, z>> \in prior
    <3>1. /\ address[x] \in [1..w -> 0..1] /\ address[y] \in [1..w -> 0..1]
          /\ address[z] \in [1..w -> 0..1]
          /\ rank[x] \in Nat /\ rank[y] \in Nat /\ rank[z] \in Nat
      BY <1>2, <1>3, <1>4, <1>5
    <3>2. Less(address[x], address[y]) /\ Less(address[y], address[z])
            => Less(address[x], address[z])
      BY <1>5, <3>1, LessOrder
    <3> QED BY <1>6, <2>2, <3>1, <3>2
  <2>3. ASSUME NEW x \in here, NEW y \in here, x # y
        PROVE  <<x, y>> \in prior \/ <<y, x>> \in prior
    <3>1. /\ address[x] \in [1..w -> 0..1] /\ address[y] \in [1..w -> 0..1]
          /\ rank[x] \in Nat /\ rank[y] \in Nat /\ rank[x] # rank[y]
      BY <1>2, <1>3, <1>4, <1>5, <2>3
    <3>2. address[x] # address[y] =>
            Less(address[x], address[y]) \/ Less(address[y], address[x])
      BY <1>5, <3>1, LessOrder
    <3> QED BY <1>6, <3>1, <3>2
  <2> QED BY <2>1, <2>2, <2>3 DEF Orders
<1>8. /\ rows \in Seq(here) /\ DOMAIN rows = 1..Cardinality(here)
      /\ \A x \in here : \E k \in DOMAIN rows : rows[k] = x
      /\ \A j, k \in DOMAIN rows : j < k => <<rows[j], rows[k]>> \in prior
  BY <1>2, <1>7, InOrderLists
<1>9. t = [k \in DOMAIN rows |->
             [address |-> address[rows[k]],
              code |-> CHOOSE c \in DOMAIN codes : codes[c] = fl[rows[k]].code]]
  BY DEF Table, rows, prior, here, address
<1> HIDE DEF t, rows, codes
<1>10. /\ DOMAIN t = DOMAIN rows /\ DOMAIN rows = 1..Len(rows) /\ Len(rows) \in Nat
       /\ \A k \in DOMAIN rows : rows[k] \in here
  <2>1. DOMAIN rows = 1..Len(rows) /\ Len(rows) \in Nat /\ \A k \in DOMAIN rows : rows[k] \in here
    BY <1>8, SeqDomain
  <2> QED BY <1>9, <2>1
<1>11. \A i \in here : i \in V /\ fl[i].family = f /\ fl[i].prefix = p
                       /\ address[i] = Mask(f, fl[i].ip, p)
  BY DEF here, address
<1>12. \A k \in DOMAIN t : /\ t[k] \in [address : Address(f), code : DOMAIN codes]
                           /\ t[k].address = address[rows[k]]
                           /\ codes[t[k].code] = fl[rows[k]].code
  <2> SUFFICES ASSUME NEW k \in DOMAIN t
               PROVE  /\ t[k] \in [address : Address(f), code : DOMAIN codes]
                      /\ t[k].address = address[rows[k]]
                      /\ codes[t[k].code] = fl[rows[k]].code
    OBVIOUS
  <2> DEFINE c == CHOOSE d \in DOMAIN codes : codes[d] = fl[rows[k]].code
  <2>1. t[k] = [address |-> address[rows[k]], code |-> c]
    BY <1>9, <1>10
  <2>2. \E d \in DOMAIN codes : codes[d] = fl[rows[k]].code
    BY <1>10, <1>11, CodesListed DEF AreCodes, codes
  <2>3. c \in DOMAIN codes /\ codes[c] = fl[rows[k]].code
    BY <2>2
  <2>4. address[rows[k]] \in Address(f)
    BY <1>3, <1>10
  <2> QED BY <2>1, <2>3, <2>4
<1>13. t \in Seq([address : Address(f), code : DOMAIN codes])
  <2>1. t = [k \in 1..Len(rows) |-> t[k]]
    BY <1>9, <1>10
  <2>2. t \in [1..Len(rows) -> [address : Address(f), code : DOMAIN codes]]
    BY <1>10, <1>12, <2>1
  <2> QED BY <1>10, <2>2, SeqOf
<1>14. ASSUME NEW j \in DOMAIN t, NEW k \in DOMAIN t, j < k
       PROVE  ~Less(t[k].address, t[j].address)
  <2> DEFINE a == address[rows[j]]  b == address[rows[k]]
  <2>1. a \in [1..w -> 0..1] /\ b \in [1..w -> 0..1]
    BY <1>3, <1>5, <1>10
  <2>2. Less(a, b) \/ a = b
    BY <1>6, <1>8, <1>10, <1>14
  <2>3. ~Less(b, a)
    <3>1. ~Less(a, a) /\ (Less(a, b) /\ Less(b, a) => Less(a, a))
      BY <1>5, <2>1, LessOrder
    <3> QED BY <2>2, <3>1
  <2> QED BY <1>12, <2>3
<1>15. \A k \in DOMAIN t : \E i \in V :
         /\ fl[i].family = f /\ fl[i].prefix = p
         /\ t[k].address = Mask(f, fl[i].ip, p) /\ codes[t[k].code] = fl[i].code
  BY <1>10, <1>11, <1>12
<1>16. ASSUME NEW i \in V, fl[i].family = f, fl[i].prefix = p
       PROVE  \E k \in DOMAIN t : t[k].address = Mask(f, fl[i].ip, p)
  <2>1. i \in here
    BY <1>16 DEF here
  <2>2. PICK k \in DOMAIN t : rows[k] = i
    BY <1>8, <1>10, <2>1
  <2> QED BY <1>11, <1>12, <2>1, <2>2
<1> QED BY <1>13, <1>14, <1>15, <1>16 DEF IsTable, t, codes

-----------------------------------------------------------------------------
(* The mapped file.                                                        *)

\* The records of shorter prefixes, and those written before a record.
ShorterRows(ix, f, p) == {r \in Rows(ix, f) : r[1] < p}
EarlierRows(ix, f, p, i) ==
  {r \in Rows(ix, f) : r[1] < p \/ (r[1] = p /\ r[2] < i)}

\* There are finitely many records.
LEMMA RowsFinite ==
  ASSUME NEW ix, NEW f \in Families, NEW X, Width(f) \in Nat,
         \A p \in 0..Width(f) : ix.table[f][p] \in Seq(X)
  PROVE  IsFiniteSet(Rows(ix, f))
<1> DEFINE w == Width(f)
           T(q) == {<<q, j>> : j \in DOMAIN ix.table[f][q]}
           U == {T(q) : q \in 0..w}
<1>1. \A q \in 0..w : /\ DOMAIN ix.table[f][q] = 1..Len(ix.table[f][q])
                      /\ Len(ix.table[f][q]) \in Nat
  BY SeqDomain
<1>2. ASSUME NEW q \in 0..w PROVE IsFiniteSet(T(q))
  <2> DEFINE h == [j \in DOMAIN ix.table[f][q] |-> <<q, j>>]
  <2>1. IsFiniteSet(DOMAIN ix.table[f][q])
    <3>1. DOMAIN ix.table[f][q] = 1..Len(ix.table[f][q])
      BY <1>1
    <3>2. 1 \in Int /\ Len(ix.table[f][q]) \in Int
      BY <1>1
    <3> QED BY <3>1, <3>2, FS_Interval
  <2>2. h \in Surjection(DOMAIN ix.table[f][q], T(q))
    BY DEF Surjection
  <2> QED BY <2>1, <2>2, FS_Surjection
<1>3. IsFiniteSet(U)
  <2> DEFINE g == [q \in 0..w |-> T(q)]
  <2>1. g \in Surjection(0..w, U)
    BY DEF Surjection
  <2>2. IsFiniteSet(0..w)
    <3>1. 0 \in Int /\ w \in Int
      OBVIOUS
    <3> QED BY <3>1, FS_Interval
  <2> QED BY <2>1, <2>2, FS_Surjection
<1>4. \A V \in U : IsFiniteSet(V)
  BY <1>2
<1>5. Rows(ix, f) = UNION U
  BY DEF Rows
<1> HIDE DEF U
<1> QED BY <1>3, <1>4, <1>5, FS_UNION

\* Between the two are the rows before it in its table.
LEMMA RowsBefore ==
  ASSUME NEW ix, NEW f \in Families, NEW X, Width(f) \in Nat,
         \A p \in 0..Width(f) : ix.table[f][p] \in Seq(X),
         NEW p \in 0..Width(f), NEW i \in DOMAIN ix.table[f][p]
  PROVE  LET R == Rows(ix, f) IN
         /\ IsFiniteSet(R) /\ <<p, i>> \in R
         /\ \A r \in R : /\ r = <<r[1], r[2]>> /\ r[1] \in 0..Width(f)
                        /\ r[2] \in DOMAIN ix.table[f][r[1]] /\ r[2] \in Nat
         /\ Cardinality(ShorterRows(ix, f, p)) \in Nat
         /\ Cardinality(EarlierRows(ix, f, p, i)) = Cardinality(ShorterRows(ix, f, p)) + (i - 1)
<1> DEFINE w == Width(f)  R == Rows(ix, f)
           T(q) == {<<q, j>> : j \in DOMAIN ix.table[f][q]}
           A == ShorterRows(ix, f, p)  B == {r \in R : r[1] = p /\ r[2] < i}
<1>1. \A q \in 0..w : /\ DOMAIN ix.table[f][q] = 1..Len(ix.table[f][q])
                      /\ Len(ix.table[f][q]) \in Nat
  BY SeqDomain
<1>2. R = UNION {T(q) : q \in 0..w}
  BY DEF Rows
<1>3. \A r \in R : \E q \in 0..w : \E j \in DOMAIN ix.table[f][q] : r = <<q, j>>
  BY <1>2
<1>4. \A q \in 0..w : \A j \in DOMAIN ix.table[f][q] : <<q, j>> \in R
  BY <1>2
<1>5. IsFiniteSet(R)
  BY RowsFinite
<1> HIDE DEF R, T, w
<1>6. \A r \in R : /\ r = <<r[1], r[2]>> /\ r[1] \in 0..w
                   /\ r[2] \in DOMAIN ix.table[f][r[1]] /\ r[2] \in Nat
  BY <1>1, <1>3
<1>7. B = {<<p, j>> : j \in 1..(i - 1)}
  <2>1. p \in 0..w /\ i \in 1..Len(ix.table[f][p]) /\ Len(ix.table[f][p]) \in Nat
    BY <1>1 DEF w
  <2>2. \A j \in 1..(i - 1) : <<p, j>> \in R
    BY <1>1, <1>4, <2>1
  <2>3. \A r \in B : r[2] \in 1..(i - 1) /\ r = <<p, r[2]>>
    BY <1>1, <1>6
  <2> QED BY <2>1, <2>2, <2>3
<1>8. Cardinality(B) = i - 1 /\ IsFiniteSet(B)
  <2> DEFINE h == [j \in 1..(i - 1) |-> <<p, j>>]
  <2>1. h \in Bijection(1..(i - 1), B)
    BY <1>7 DEF Bijection, Injection, Surjection, IsInjective
  <2>2. i - 1 \in Nat
    BY <1>1
  <2>3. IsFiniteSet(1..(i - 1)) /\ Cardinality(1..(i - 1)) = i - 1
    BY <2>2, FS_Interval
  <2> QED BY <2>1, <2>3, FS_Bijection DEF ExistsBijection
<1>9. IsFiniteSet(A) /\ Cardinality(A) \in Nat
  BY <1>5, FS_Subset, FS_CardinalityType DEF ShorterRows, R
<1>10. EarlierRows(ix, f, p, i) = A \cup B
  BY DEF EarlierRows, ShorterRows, R
<1>11. A \cap B = {}
  BY <1>6 DEF ShorterRows, R
<1>12. Cardinality(A \cup B) = Cardinality(A) + (i - 1)
  <2>1. Cardinality(A \cup B) = Cardinality(A) + Cardinality(B) - Cardinality(A \cap B)
    BY <1>8, <1>9, FS_Union
  <2>2. Cardinality({}) = 0
    BY FS_EmptySet
  <2>3. i - 1 \in Int
    BY <1>1 DEF w
  <2> HIDE DEF A, B
  <2>4. Cardinality(A \cap B) = 0
    BY <1>11, <2>2
  <2> QED BY <1>8, <1>9, <2>1, <2>3, <2>4
<1> QED BY <1>4, <1>5, <1>6, <1>9, <1>10, <1>12 DEF R, w

\* In the file each record is where its table's offset says.
LEMMA WrittenAt ==
  ASSUME NEW ix, NEW f \in Families, NEW X, Width(f) \in Nat, Base(ix, f) \in Nat,
         \A p \in 0..Width(f) : ix.table[f][p] \in Seq(X),
         NEW p \in 0..Width(f), NEW i \in DOMAIN ix.table[f][p]
  PROVE  Written(ix, f, p, i) = Offset(ix, f, p) + (i - 1) * Size(f)
<1> DEFINE a == Cardinality(ShorterRows(ix, f, p))
           b == Cardinality(EarlierRows(ix, f, p, i))
<1>1. a \in Nat /\ b = a + (i - 1)
  BY RowsBefore
<1>4. i \in Nat
  BY SeqDomain
<1>2. Written(ix, f, p, i) = Base(ix, f) + Size(f) * b
  BY DEF Written, EarlierRows
<1>3. Offset(ix, f, p) = Base(ix, f) + Size(f) * a
  BY DEF Offset, ShorterRows
<1> HIDE DEF a, b
<1>5. CASE f = 4
  BY <1>1, <1>2, <1>3, <1>4, <1>5 DEF Size
<1>6. CASE f = 6
  BY <1>1, <1>2, <1>3, <1>4, <1>6 DEF Size
<1> QED BY <1>5, <1>6 DEF Families

\* No two records of a family are written to the same place.
LEMMA WrittenOnce ==
  ASSUME NEW ix, NEW f \in Families, NEW X, Width(f) \in Nat, Base(ix, f) \in Nat,
         \A p \in 0..Width(f) : ix.table[f][p] \in Seq(X),
         NEW p \in 0..Width(f), NEW i \in DOMAIN ix.table[f][p],
         NEW q \in 0..Width(f), NEW j \in DOMAIN ix.table[f][q],
         p < q \/ (p = q /\ i < j)
  PROVE  Written(ix, f, p, i) # Written(ix, f, q, j)
<1> DEFINE R == Rows(ix, f)
           A == {r \in R : r[1] < p \/ (r[1] = p /\ r[2] < i)}
           B == {r \in R : r[1] < q \/ (r[1] = q /\ r[2] < j)}
<1>1. /\ IsFiniteSet(R) /\ <<p, i>> \in R
      /\ \A r \in R : r[1] \in 0..Width(f) /\ r[2] \in Nat
  BY RowsBefore
<1>2. A \subseteq B /\ <<p, i>> \in B /\ <<p, i>> \notin A
  <2>1. i \in Nat /\ j \in Nat /\ p \in Nat /\ q \in Nat
    <3>1. DOMAIN ix.table[f][p] \subseteq Nat
      BY SeqDomain
    <3>2. DOMAIN ix.table[f][q] \subseteq Nat
      BY SeqDomain
    <3> QED BY <3>1, <3>2
  <2> HIDE DEF R
  <2>2. \A r \in R : r[1] \in Nat /\ r[2] \in Nat
    BY <1>1
  <2>3. <<p, i>>[1] = p /\ <<p, i>>[2] = i
    OBVIOUS
  <2> QED BY <1>1, <2>1, <2>2, <2>3
<1>3. IsFiniteSet(B) /\ B \subseteq R
  BY <1>1, FS_Subset
<1> HIDE DEF A, B, R
<1>4. Cardinality(A) # Cardinality(B) /\ Cardinality(A) \in Nat /\ Cardinality(B) \in Nat
  BY <1>2, <1>3, FS_Subset, FS_CardinalityType
<1>5. Written(ix, f, p, i) = Base(ix, f) + Size(f) * Cardinality(A)
  BY DEF Written, A, R
<1>6. Written(ix, f, q, j) = Base(ix, f) + Size(f) * Cardinality(B)
  BY DEF Written, B, R
<1>7. Size(f) = 6 \/ Size(f) = 18
  BY DEF Size
<1> DEFINE a == Cardinality(A)  b == Cardinality(B)
<1> HIDE DEF a, b
<1>8. a \in Nat /\ b \in Nat /\ a # b
  BY <1>4 DEF a, b
<1>9. /\ Written(ix, f, p, i) = Base(ix, f) + Size(f) * a
      /\ Written(ix, f, q, j) = Base(ix, f) + Size(f) * b
  BY <1>5, <1>6 DEF a, b
<1>10. CASE Size(f) = 6
  BY <1>8, <1>9, <1>10
<1>11. CASE Size(f) = 18
  BY <1>8, <1>9, <1>11
<1> QED BY <1>7, <1>10, <1>11

\* What is mapped is what was written: the packed index is the index.
LEMMA MappedIsBuilt ==
  ASSUME NEW ix, NEW f \in Families, NEW X, Width(f) \in Nat, Base(ix, f) \in Nat,
         \A p \in 0..Width(f) : ix.table[f][p] \in Seq(X),
         NEW p \in 0..Width(f)
  PROVE  MappedTable(ix, f, p) = ix.table[f][p]
<1> DEFINE t == ix.table[f][p]  m == MappedTable(ix, f, p)
           place(i) == Offset(ix, f, p) + (i - 1) * Size(f)
           here(i) == {r \in Rows(ix, f) : Written(ix, f, r[1], r[2]) = place(i)}
<1>1. DOMAIN t = 1..Len(t) /\ t = [i \in DOMAIN t |-> t[i]]
  BY SeqDomain
<1>2. ASSUME NEW i \in DOMAIN t PROVE here(i) = {<<p, i>>}
  <2>1. <<p, i>> \in here(i)
    BY RowsBefore, WrittenAt
  <2>2. ASSUME NEW r \in here(i) PROVE r = <<p, i>>
    <3>1. /\ r = <<r[1], r[2]>> /\ r[1] \in 0..Width(f)
          /\ r[2] \in DOMAIN ix.table[f][r[1]] /\ r[2] \in Nat
      BY RowsBefore
    <3>2. Written(ix, f, r[1], r[2]) = Written(ix, f, p, i)
      BY <1>2, <2>2, WrittenAt
    <3>3. ~(r[1] < p \/ (r[1] = p /\ r[2] < i)) /\ ~(p < r[1] \/ (p = r[1] /\ i < r[2]))
      BY <3>1, <3>2, WrittenOnce
    <3>4. i \in Nat
      BY <1>1, SeqDomain
    <3> QED BY <3>1, <3>3, <3>4
  <2> QED BY <2>1, <2>2
<1>3. m = [i \in DOMAIN t |->
            LET r == CHOOSE r \in here(i) : TRUE
            IN IF here(i) = {} THEN Zero(f) ELSE ix.table[f][r[1]][r[2]]]
  BY DEF MappedTable
<1> HIDE DEF here
<1>4. ASSUME NEW i \in DOMAIN t PROVE m[i] = t[i]
  <2> DEFINE c == CHOOSE r \in here(i) : TRUE
  <2>1. c = <<p, i>> /\ here(i) # {}
    BY <1>2
  <2>2. m[i] = ix.table[f][c[1]][c[2]]
    BY <1>3, <2>1
  <2> HIDE DEF c
  <2>3. c[1] = p /\ c[2] = i
    BY <2>1
  <2> QED BY <2>2, <2>3
<1>5. m = [i \in DOMAIN t |-> m[i]]
  BY <1>3
<1>6. [i \in DOMAIN t |-> m[i]] = [i \in DOMAIN t |-> t[i]]
  BY <1>4
<1> QED BY <1>1, <1>5, <1>6

\* IPv6 records come behind the IPv4 ones.
LEMMA BaseNat ==
  ASSUME NEW ix, NEW f \in Families, NEW X, Width(4) \in Nat,
         \A p \in 0..Width(4) : ix.table[4][p] \in Seq(X)
  PROVE  Base(ix, f) \in Nat
<1>1. IsFiniteSet(Rows(ix, 4))
  <2>1. 4 \in Families
    BY DEF Families
  <2> QED BY <2>1, RowsFinite
<1> DEFINE n == Cardinality(Rows(ix, 4))
<1>2. n \in Nat
  BY <1>1, FS_CardinalityType
<1>3. Base(ix, f) = IF f = 4 THEN 0 ELSE 6 * n
  BY DEF Base, Size
<1> HIDE DEF n
<1> QED BY <1>2, <1>3

\* The loader builds the index of its file, mapped or not.
LEMMA IndexBuilt ==
  ASSUME NEW fl \in Files, Accepted(fl),
         NEW rank \in Bijection(DOMAIN fl, DOMAIN fl)
  PROVE  LET ix == BuildIndex(fl, rank)
         IN IsIndex(fl, ix) /\ MapCompactIndex(ix) = ix
<1> DEFINE ix == BuildIndex(fl, rank)
           F == Families
           all == [f \in F |-> [p \in 0..Width(f) |-> Table(fl, rank, f, p)]]
<1>1. ix = [codes |-> CodesOf(fl), table |-> all]
  BY DEF BuildIndex
<1> HIDE DEF ix
<1>2. IsIndex(fl, ix)
  <2>1. AreCodes(fl, ix.codes)
    BY <1>1, CodesListed
  <2>2. ASSUME NEW f \in F, NEW p \in 0..Width(f)
        PROVE  IsTable(fl, ix.codes, f, p, ix.table[f][p])
    BY <1>1, TableBuilt
  <2> QED BY <2>1, <2>2 DEF IsIndex
<1>3. \A f \in F : Width(f) \in Nat
  BY DatIndexAssumption DEF Width
<1>4. \A f \in F : \A p \in 0..Width(f) :
        ix.table[f][p] \in Seq([address : Address(f), code : DOMAIN ix.codes])
  BY <1>2 DEF IsIndex, IsTable
<1>5. 4 \in F
  BY DEF Families
<1>6. \A f \in F : Base(ix, f) \in Nat
  BY <1>3, <1>4, <1>5, BaseNat
<1>7. ASSUME NEW f \in F, NEW p \in 0..Width(f)
      PROVE  MappedTable(ix, f, p) = ix.table[f][p]
  BY <1>3, <1>4, <1>6, MappedIsBuilt
<1>8. MapCompactIndex(ix) =
        [ix EXCEPT !.table = [f \in F |-> [p \in 0..Width(f) |-> ix.table[f][p]]]]
  BY <1>7 DEF MapCompactIndex
<1>9. [f \in F |-> [p \in 0..Width(f) |-> ix.table[f][p]]] = all
  BY <1>1
<1>10. MapCompactIndex(ix) = ix
  BY <1>1, <1>8, <1>9
<1> QED BY <1>2, <1>10 DEF ix

-----------------------------------------------------------------------------
(* The search.                                                             *)

\* The binary search in a sorted table finds a record of the key if there is
\* one.
LEMMA FindAnswers ==
  ASSUME NEW w \in Nat, NEW C, C \subseteq Nat, Unknown \notin Nat,
         NEW t \in Seq([address : [1..w -> 0..1], code : C]),
         \A j, k \in DOMAIN t : j < k => ~Less(t[k].address, t[j].address),
         NEW masked \in [1..w -> 0..1]
  PROVE  /\ Find(t, masked) = Unknown => \A k \in DOMAIN t : t[k].address # masked
         /\ Find(t, masked) # Unknown =>
              \E k \in DOMAIN t : t[k].address = masked /\ Find(t, masked) = t[k].code
<1> DEFINE n == Len(t)
           ok == [h \in 0..(n - 1) |-> ~Less(t[h + 1].address, masked)]
           End(h) == (h < n => ok[h]) /\ (h > 0 => ~ok[h - 1])
           pos == SearchFirst(n, ok)
<1>1. n \in Nat /\ DOMAIN t = 1..n
  BY SeqDomain
<1>2. \A k \in 1..n : t[k].address \in [1..w -> 0..1] /\ t[k].code \in Nat
  <2>1. \A k \in 1..n : t[k] \in [address : [1..w -> 0..1], code : C]
    BY SeqDomain
  <2> QED BY <2>1
<1> HIDE DEF n
<1>3. \A h \in 0..(n - 1) : ok[h] <=> ~Less(t[h + 1].address, masked)
  OBVIOUS
<1>4. pos = CHOOSE h \in 0..n : End(h)
  BY DEF SearchFirst
<1> HIDE DEF ok, pos
<1>5. \E h \in 0..n : End(h)
  <2> DEFINE S == {h \in 0..n : h = n \/ (h < n /\ ok[h])}
  <2>1. n \in S /\ S \in SUBSET Nat
    BY <1>1
  <2>2. PICK h \in S : \A g \in S : h <= g
    BY <2>1, LeastOf
  <2>3. h \in 0..n /\ (h < n => ok[h])
    BY <2>2
  <2>4. h > 0 => ~ok[h - 1]
    <3>1. SUFFICES ASSUME h > 0, ok[h - 1] PROVE FALSE
      OBVIOUS
    <3>2. h - 1 \in 0..n /\ h - 1 < n /\ ~(h <= h - 1)
      BY <1>1, <2>3, <3>1
    <3> QED BY <2>2, <3>1, <3>2
  <2> QED BY <2>3, <2>4
<1>6. pos \in 0..n /\ End(pos)
  <2> HIDE DEF End
  <2> QED BY <1>4, <1>5
<1>7. /\ pos < n => ~Less(t[pos + 1].address, masked)
      /\ pos > 0 => Less(t[pos].address, masked)
  BY <1>1, <1>3, <1>6
<1>8. Find(t, masked) = IF pos < n /\ t[pos + 1].address = masked THEN t[pos + 1].code ELSE Unknown
  BY DEF Find, pos, ok, n
<1>9. ASSUME NEW k \in 1..n, t[k].address = masked PROVE pos < n /\ t[pos + 1].address = masked
  <2>1. ~Less(masked, masked)
    BY LessOrder
  <2>2. pos < k
    <3>1. SUFFICES ASSUME pos >= k PROVE FALSE
      BY <1>1, <1>6
    <3>2. pos > 0 /\ pos \in 1..n
      BY <1>1, <1>6, <3>1
    <3>3. CASE pos = k
      BY <1>7, <1>9, <2>1, <3>2, <3>3
    <3>4. CASE k < pos
      BY <1>1, <1>7, <1>9, <3>2, <3>4
    <3> QED BY <1>6, <3>1, <3>3, <3>4
  <2>3. pos < n /\ pos + 1 \in 1..n
    BY <1>1, <1>6, <2>2
  <2>4. CASE pos + 1 = k
    BY <1>9, <2>3, <2>4
  <2>5. CASE pos + 1 < k
    <3> DEFINE b == t[pos + 1].address
    <3>1. ~Less(masked, b)
      BY <1>1, <1>9, <2>3, <2>5
    <3>2. ~Less(b, masked)
      BY <1>7, <2>3
    <3>3. b \in [1..w -> 0..1]
      BY <1>2, <2>3
    <3>4. b # masked => Less(b, masked) \/ Less(masked, b)
      BY <3>3, LessOrder
    <3> QED BY <2>3, <3>1, <3>2, <3>4
  <2> QED BY <1>6, <2>2, <2>4, <2>5
<1>10. ASSUME pos < n, t[pos + 1].address = masked
       PROVE  /\ Find(t, masked) = t[pos + 1].code /\ Find(t, masked) \in Nat
              /\ pos + 1 \in 1..n
  BY <1>1, <1>2, <1>6, <1>8, <1>10
<1>11. ASSUME ~(pos < n /\ t[pos + 1].address = masked) PROVE Find(t, masked) = Unknown
  BY <1>8, <1>11
<1> QED BY <1>1, <1>9, <1>10, <1>11

\* The records found are those of the CIDRs that cover the address.
LEMMA FoundCovers ==
  ASSUME NEW fl \in Files, Accepted(fl), NEW ix, IsIndex(fl, ix),
         NEW f \in Families, NEW a \in Address(f), NEW p \in 0..Width(f)
  PROVE  LET hit == Find(ix.table[f][p], Mask(f, a, p)) IN
         /\ \A i \in Visited(fl) :
              Covers(fl[i], f, a) /\ fl[i].prefix = p => hit # Unknown
         /\ hit # Unknown => \E i \in Visited(fl) :
              Covers(fl[i], f, a) /\ fl[i].prefix = p /\ ix.codes[hit] = fl[i].code
<1> DEFINE V == Visited(fl)  w == Width(f)  t == ix.table[f][p]
           masked == Mask(f, a, p)  hit == Find(t, masked)  C == DOMAIN ix.codes
<1>1. w \in Nat /\ Address(f) = [1..w -> 0..1]
  BY DatIndexAssumption DEF Width, Address
<1>2. IsTable(fl, ix.codes, f, p, t) /\ ix.codes \in Seq(Countries)
  BY DEF IsIndex, AreCodes
<1>3. C \subseteq Nat
  BY <1>2, SeqDomain
<1>4. masked \in [1..w -> 0..1]
  BY <1>1, MaskKeepsPrefix
<1>5. \A i \in V : fl[i].family = f => fl[i].ip \in Address(f)
  BY VisitedFinite, DatIndexAssumption
<1>6. \A i \in V : fl[i].family = f /\ fl[i].prefix = p =>
        (Mask(f, fl[i].ip, p) = masked <=> Covers(fl[i], f, a))
  <2> SUFFICES ASSUME NEW i \in V, fl[i].family = f, fl[i].prefix = p
               PROVE  Mask(f, fl[i].ip, p) = masked <=> Covers(fl[i], f, a)
    OBVIOUS
  <2>1. fl[i].ip \in Address(f)
    BY <1>5
  <2> QED BY <2>1, MaskedAlike DEF Covers
<1>7. /\ hit = Unknown => \A k \in DOMAIN t : t[k].address # masked
      /\ hit # Unknown => \E k \in DOMAIN t : t[k].address = masked /\ hit = t[k].code
  <2>1. t \in Seq([address : [1..w -> 0..1], code : C])
    BY <1>1, <1>2 DEF IsTable
  <2>2. \A j, k \in DOMAIN t : j < k => ~Less(t[k].address, t[j].address)
    BY <1>2 DEF IsTable
  <2>3. Unknown \notin Nat
    BY DatIndexAssumption
  <2> HIDE DEF t, masked, C, w
  <2> QED BY <1>1, <1>3, <1>4, <2>1, <2>2, <2>3, FindAnswers
<1> HIDE DEF hit, masked, t
<1>8. ASSUME NEW i \in V, Covers(fl[i], f, a), fl[i].prefix = p PROVE hit # Unknown
  <2>1. fl[i].family = f
    BY <1>8 DEF Covers
  <2>2. \E k \in DOMAIN t : t[k].address = Mask(f, fl[i].ip, p)
    BY <1>2, <1>8, <2>1 DEF IsTable
  <2> QED BY <1>6, <1>7, <1>8, <2>1, <2>2
<1>9. ASSUME hit # Unknown
      PROVE  \E i \in V : /\ Covers(fl[i], f, a) /\ fl[i].prefix = p
                         /\ ix.codes[hit] = fl[i].code
  <2>1. PICK k \in DOMAIN t : t[k].address = masked /\ hit = t[k].code
    BY <1>7, <1>9
  <2>2. PICK i \in V : /\ fl[i].family = f /\ fl[i].prefix = p
                       /\ t[k].address = Mask(f, fl[i].ip, p)
                       /\ ix.codes[t[k].code] = fl[i].code
    BY <1>2 DEF IsTable
  <2> QED BY <1>6, <2>1, <2>2
<1> QED BY <1>8, <1>9 DEF hit, masked, t

\* c is the country of a longest CIDR of the file that covers the address.
IsAnswer(fl, f, a, c) ==
  LET covering == {i \in Visited(fl) : Covers(fl[i], f, a)}
      longest  == {i \in covering : \A j \in covering : fl[j].prefix <= fl[i].prefix}
  IN IF covering = {} THEN c = Unknown ELSE c \in {fl[i].code : i \in longest}

\* The lookup answers right in every index of the file.
LEMMA LookupAnswers ==
  ASSUME NEW fl \in Files, Accepted(fl), NEW ix, IsIndex(fl, ix),
         NEW f \in Families, NEW a \in Address(f)
  PROVE  /\ IsAnswer(fl, f, a, Lookup(ix, f, a))
         /\ Lookup(ix, f, a) \in Countries \cup {Unknown}
<1> DEFINE V == Visited(fl)  w == Width(f)
           covering == {i \in V : Covers(fl[i], f, a)}
           longest == {i \in covering : \A j \in covering : fl[j].prefix <= fl[i].prefix}
           hits == Matches(ix, f, a)
           hit(p) == Find(ix.table[f][p], Mask(f, a, p))
           c == Lookup(ix, f, a)
<1>1. \A i \in covering : i \in V /\ fl[i].prefix \in 0..w /\ fl[i].code \in Countries
  <2> SUFFICES ASSUME NEW i \in covering
               PROVE  i \in V /\ fl[i].prefix \in 0..w /\ fl[i].code \in Countries
    OBVIOUS
  <2>1. i \in V /\ fl[i].family = f
    BY DEF Covers
  <2>2. fl[i].code \in Countries /\ ~Malformed(fl[i])
    BY <2>1 DEF Accepted, Visited
  <2> QED BY <2>1, <2>2 DEF Malformed
<1>2. hits = {p \in 0..w : hit(p) # Unknown}
  BY DEF Matches
<1>3. \A p \in 0..w :
        /\ \A i \in covering : fl[i].prefix = p => hit(p) # Unknown
        /\ hit(p) # Unknown =>
             \E i \in covering : fl[i].prefix = p /\ ix.codes[hit(p)] = fl[i].code
  <2> SUFFICES ASSUME NEW p \in 0..w
               PROVE  /\ \A i \in covering : fl[i].prefix = p => hit(p) # Unknown
                      /\ hit(p) # Unknown =>
                           \E i \in covering : fl[i].prefix = p /\ ix.codes[hit(p)] = fl[i].code
    OBVIOUS
  <2> QED BY FoundCovers
<1>4. c = IF hits = {} THEN Unknown ELSE ix.codes[hit(Max(hits))]
  BY DEF Lookup
<1>5. w \in Nat /\ hits \in SUBSET Nat /\ \A p \in hits : p <= w
  BY <1>2, DatIndexAssumption DEF Width
<1> HIDE DEF hits, hit, covering, c, V, w
<1>6. CASE hits = {}
  <2>1. covering = {}
    BY <1>1, <1>2, <1>3, <1>6
  <2>2. c = Unknown
    BY <1>4, <1>6
  <2> QED BY <2>1, <2>2 DEF IsAnswer, covering, c, V
<1>7. CASE hits # {}
  <2> DEFINE p == Max(hits)
  <2>1. \E q \in hits : \A r \in hits : q >= r
    <3>1. PICK q \in hits : \A r \in hits : r <= q
      BY <1>5, <1>7, GreatestOf
    <3> QED BY <1>5, <3>1
  <2>2. p \in hits /\ \A r \in hits : p >= r
    BY <2>1 DEF Max
  <2> HIDE DEF p
  <2>3. PICK i \in covering : fl[i].prefix = p /\ ix.codes[hit(p)] = fl[i].code
    BY <1>2, <1>3, <2>2
  <2>4. i \in longest
    BY <1>1, <1>2, <1>3, <1>5, <2>2, <2>3
  <2>5. c = fl[i].code /\ fl[i].code \in Countries
    BY <1>1, <1>4, <1>7, <2>3 DEF p
  <2>6. covering # {} /\ c \in {fl[j].code : j \in longest}
    BY <2>3, <2>4, <2>5
  <2>7. IsAnswer(fl, f, a, c)
    BY <2>6 DEF IsAnswer, covering, V
  <2> QED BY <2>5, <2>7 DEF c
<1> QED BY <1>6, <1>7

-----------------------------------------------------------------------------
(* The inductive invariant.                                                *)

\* A loaded index is that of its file; only then questions are answered.
DatInv ==
  /\ file \in Files /\ phase \in {"file", "rejected", "ready"}
  /\ phase # "ready" => query = Unknown
  /\ phase = "ready" => Accepted(file) /\ IsIndex(file, index)
  /\ country \in Countries \cup {Unknown}
  /\ LongestPrefixWins

\* Nothing is loaded at first,
LEMMA DatStart ==
  ASSUME DatInit PROVE DatInv
BY DEF DatInit, DatInv, LongestPrefixWins

\* and every step keeps the invariant.
LEMMA DatStep ==
  ASSUME DatInv, [DatNext]_datVars
  PROVE  DatInv'
<1>1. CASE Reject
  <2>1. query = Unknown /\ UNCHANGED <<file, query, country>> /\ phase' = "rejected"
    BY <1>1 DEF Reject, DatInv
  <2> QED BY <2>1 DEF DatInv, LongestPrefixWins
<1>2. CASE LoadDatIndex
  <2>1. PICK rank \in Bijection(DOMAIN file, DOMAIN file) :
          index' = IF mmap THEN MapCompactIndex(BuildIndex(file, rank))
                              ELSE BuildIndex(file, rank)
    BY <1>2 DEF LoadDatIndex
  <2>2. /\ Accepted(file) /\ query = Unknown /\ phase' = "ready"
        /\ UNCHANGED <<file, query, country>>
    BY <1>2 DEF LoadDatIndex, DatInv
  <2>3. IsIndex(file, index')
    BY <2>1, <2>2, IndexBuilt DEF DatInv
  <2> QED BY <2>2, <2>3 DEF DatInv, LongestPrefixWins
<1>3. ASSUME NEW f \in Families, NEW a \in Address(f), Ask(f, a) PROVE DatInv'
  <2>1. /\ phase = "ready" /\ query' = [family |-> f, ip |-> a]
        /\ country' = Lookup(index, f, a)
        /\ UNCHANGED <<file, phase, index>>
    BY <1>3 DEF Ask
  <2>2. /\ IsAnswer(file, f, a, country') /\ country' \in Countries \cup {Unknown}
    BY <2>1, LookupAnswers DEF DatInv
  <2>3. query'.family = f /\ query'.ip = a
    BY <2>1
  <2>4. LongestPrefixWins'
    BY <2>1, <2>2, <2>3 DEF LongestPrefixWins, IsAnswer
  <2> QED BY <2>1, <2>2, <2>4 DEF DatInv
<1>4. CASE UNCHANGED datVars
  BY <1>4 DEF datVars, DatInv, LongestPrefixWins
<1> QED BY <1>1, <1>2, <1>3, <1>4 DEF DatNext

\* Of geoip.dat, whatever is in it, packed or not: the answer to an address is
\* the country of a longest CIDR that covers it, and there is none only if no
\* CIDR does.  Masks, the sorted tables, the search, the order in which the
\* lengths are tried and the offsets of the mapped file fit together.
THEOREM LongestPrefixWinsAlways == DatSpec => []LongestPrefixWins
<1>1. DatInit => DatInv
  BY DatStart
<1>2. DatInv /\ [DatNext]_datVars => DatInv'
  BY DatStep
<1>3. DatInv => LongestPrefixWins
  BY DEF DatInv
<1> QED BY <1>1, <1>2, <1>3, PTL DEF DatSpec

\* A loaded index is well formed: codes are different, records point at them,
\* and every answer is a country or none.
THEOREM DatTypeCorrect == DatSpec => []DatTypeOK
<1>1. DatInit => DatInv
  BY DatStart
<1>2. DatInv /\ [DatNext]_datVars => DatInv'
  BY DatStep
<1>3. DatInv => DatTypeOK
  <2> SUFFICES ASSUME DatInv PROVE DatTypeOK
    OBVIOUS
  <2>1. phase = "ready" =>
          /\ index.codes \in Seq(Countries)
          /\ \A c, d \in DOMAIN index.codes : index.codes[c] = index.codes[d] => c = d
          /\ \A f \in Families : \A p \in 0..Width(f) :
               index.table[f][p]
                 \in Seq([address : Address(f), code : DOMAIN index.codes])
    BY DEF DatInv, IsIndex, AreCodes, IsTable
  <2> QED BY <2>1 DEF DatInv, DatTypeOK
<1> QED BY <1>1, <1>2, <1>3, PTL DEF DatSpec
=============================================================================
