-------------------------------- MODULE GeoCache --------------------------------
(***************************************************************************)
(* The GeoIP lookup path (src/src/geo/geo.go): an in-memory cache in front *)
(* of a SQLite table of IPv4 /24 networks, the local country database, and *)
(* an external provider whose concurrent calls for one key are coalesced.  *)
(* IPv6 addresses have a cache in memory only.                             *)
(*                                                                         *)
(* Lookups run on the goroutines of DNS queries and of the recorder.  A    *)
(* map access under l.mu, a statement of SQLite, a section under flightMu  *)
(* is one step.  A key is a /24 network or an IPv6 address; a result of    *)
(* the provider is named by the number of the call that produced it.       *)
(***************************************************************************)
EXTENDS Naturals, FiniteSets

CONSTANTS
  V4, V6,      \* keys: IPv4 /24 networks, IPv6 addresses
  InLocal,     \* keys geoip.dat has a country for
  Lookups,     \* goroutines that call Lookup
  Deleters,    \* API handlers that call DeleteCache
  HasProvider, \* whether an external provider is configured
  TTL,         \* life of an entry (7 days in the code), in ticks
  MaxClock,    \* bound of the model: ticks
  MaxCalls,    \* bound of the model: answers of the provider
  None

Keys == V4 \cup V6

ASSUME GeoCacheAssumption ==
  /\ V4 \cap V6 = {} /\ InLocal \subseteq Keys /\ None \notin Keys \cup Lookups
  /\ HasProvider \in BOOLEAN
  /\ TTL \in Nat \ {0} /\ MaxClock \in Nat /\ MaxCalls \in Nat

VARIABLES
  clock,     \* time
  memory,    \* l.cache and l.v6Cache: key |-> entry or None
  table,     \* table geo_cache: IPv4 key |-> entry or None
  flights,   \* l.flights: key |-> the leader of the flight, or None
  calls,     \* number of calls the provider has answered
  lpc,       \* program point of each lookup
  key,       \* the key it looks up
  now,       \* the time it has read
  found,     \* what it has found: an entry, a result, or None
  answer,    \* what it returns: an entry, or None for no country or an error
  dpc,       \* program point of each deletion
  filter,    \* the keys it deletes
  doomed,    \* history: entries stored when the deletion began
  carried,   \* history: those a lookup had in hand at that time
  ppc,       \* program point of the purge loop
  purgeNow   \* the time it has read

store  == <<memory, table>>
lookup == <<lpc, key, now, found, answer>>
delete == <<dpc, filter, doomed, carried>>
purge  == <<ppc, purgeNow>>
vars   == <<clock, store, flights, calls, lookup, delete, purge>>

\* A cacheEntry: the key and the call its values come from (0: geoip.dat), and
\* ExpiresAt.
Entry(k, c, e) == [key |-> k, call |-> c, expires |-> e]
Fresh(e, t)    == e # None /\ t < e.expires

Reply(l, e) ==
  /\ answer' = [answer EXCEPT ![l] = e]
  /\ lpc' = [lpc EXCEPT ![l] = "reply"]

Goto(l, p) == lpc' = [lpc EXCEPT ![l] = p]

Init ==
  /\ clock = 0 /\ calls = 0
  /\ memory = [k \in Keys |-> None]
  /\ table = [k \in V4 |-> None]
  /\ flights = [k \in Keys |-> None]
  /\ lpc = [l \in Lookups |-> "idle"]
  /\ key = [l \in Lookups |-> None]
  /\ now = [l \in Lookups |-> 0]
  /\ found = [l \in Lookups |-> None]
  /\ answer = [l \in Lookups |-> None]
  /\ dpc = [d \in Deleters |-> "idle"]
  /\ filter = [d \in Deleters |-> {}]
  /\ doomed = [d \in Deleters |-> {}]
  /\ carried = [d \in Deleters |-> {}]
  /\ ppc = "wait" /\ purgeNow = 0

-----------------------------------------------------------------------------
(* Lookup.                                                                 *)

\* Time is read, then the memory cache: a fresh entry answers.
Begin(l, k) ==
  /\ lpc[l] = "idle"
  /\ key' = [key EXCEPT ![l] = k]
  /\ now' = [now EXCEPT ![l] = clock]
  /\ IF Fresh(memory[k], clock)
     THEN Reply(l, memory[k])
     ELSE Goto(l, IF k \in V4 THEN "row" ELSE "local") /\ UNCHANGED answer
  /\ UNCHANGED <<clock, store, flights, calls, found, delete, purge>>

\* Faulty variant: the expiry of the row is not looked at.
ReadAnyRow(l) ==
  LET row == table[key[l]] IN
  /\ lpc[l] = "row"
  /\ now' = [now EXCEPT ![l] = clock]
  /\ found' = [found EXCEPT ![l] = row]
  /\ Goto(l, IF row # None THEN "fill" ELSE "local")
  /\ UNCHANGED <<clock, store, flights, calls, key, answer, delete, purge>>

\* SELECT of the row: fresh, expired, or missing; a statement that fails passes
\* for a missing row, fresh as the row may be.
ReadRow(l) ==
  LET row == table[key[l]] IN
  /\ lpc[l] = "row"
  /\ now' = [now EXCEPT ![l] = clock]
  /\ \/ /\ Fresh(row, clock)
        /\ found' = [found EXCEPT ![l] = row]
        /\ Goto(l, "fill")
     \/ /\ row # None /\ ~Fresh(row, clock)
        /\ Goto(l, "expired") /\ UNCHANGED found
     \/ Goto(l, "local") /\ UNCHANGED found
  /\ UNCHANGED <<clock, store, flights, calls, key, answer, delete, purge>>

\* The row read goes to memory and answers.
FillMemory(l) ==
  /\ lpc[l] = "fill"
  /\ memory' = [memory EXCEPT ![key[l]] = found[l]]
  /\ Reply(l, found[l])
  /\ UNCHANGED <<clock, table, flights, calls, key, now, found, delete, purge>>

\* DELETE of the row, whatever it holds by now; an error is only logged.
DeleteExpired(l) ==
  /\ lpc[l] = "expired"
  /\ table' \in {table, [table EXCEPT ![key[l]] = None]}
  /\ Goto(l, "local")
  /\ UNCHANGED <<clock, memory, flights, calls, key, now, found, answer, delete, purge>>

\* geoip.dat answers without being cached; else the provider is asked.
AskLocal(l) ==
  /\ lpc[l] = "local"
  /\ IF key[l] \in InLocal THEN Reply(l, Entry(key[l], 0, 0))
     ELSE IF ~HasProvider THEN Reply(l, None)
     ELSE Goto(l, "flight") /\ UNCHANGED answer
  /\ UNCHANGED <<clock, store, flights, calls, key, now, found, delete, purge>>

\* Faulty variant: one flight for all keys.
JoinAnyFlight(l) ==
  /\ lpc[l] = "flight"
  /\ IF \E k \in Keys : flights[k] # None
     THEN Goto(l, "wait") /\ UNCHANGED flights
     ELSE /\ flights' = [k \in Keys |-> l]
          /\ Goto(l, "call")
  /\ UNCHANGED <<clock, store, calls, key, now, found, answer, delete, purge>>

\* Faulty variant: the flights are looked up but never registered.
JoinUnregistered(l) ==
  /\ lpc[l] = "flight"
  /\ Goto(l, IF flights[key[l]] # None THEN "wait" ELSE "call")
  /\ UNCHANGED <<clock, store, flights, calls, key, now, found, answer, delete, purge>>

\* lookupProvider: join the flight of the key, or lead a new one.
Join(l) ==
  /\ lpc[l] = "flight"
  /\ IF flights[key[l]] # None
     THEN Goto(l, "wait") /\ UNCHANGED flights
     ELSE /\ flights' = [flights EXCEPT ![key[l]] = l]
          /\ Goto(l, "call")
  /\ UNCHANGED <<clock, store, calls, key, now, found, answer, delete, purge>>

\* The provider answers, or fails (None), within its timeout.
Call(l) ==
  /\ lpc[l] = "call"
  /\ \/ /\ calls < MaxCalls
        /\ calls' = calls + 1
        /\ found' = [found EXCEPT ![l] = Entry(key[l], calls + 1, now[l] + TTL)]
     \/ /\ found' = [found EXCEPT ![l] = None]
        /\ UNCHANGED calls
  /\ Goto(l, "land")
  /\ UNCHANGED <<clock, store, flights, key, now, answer, delete, purge>>

\* Where a lookup goes with the result of a flight.
AfterFlight(l, r) == IF r = None THEN "reply" ELSE IF key[l] \in V4 THEN "insert" ELSE "keep"

\* Faulty variant: a failed call does not close the flight's channel.
LandOnSuccess(l) ==
  LET r == found[l] IN
  /\ lpc[l] = "land"
  /\ flights' = [flights EXCEPT ![key[l]] = None]
  /\ LET landed == {l} \cup (IF r = None THEN {}
                             ELSE {w \in Lookups : lpc[w] = "wait" /\ key[w] = key[l]}) IN
       /\ found' = [w \in Lookups |->
            IF w \in landed /\ r # None THEN Entry(r.key, r.call, now[w] + TTL)
            ELSE IF w \in landed THEN None ELSE found[w]]
       /\ lpc' = [w \in Lookups |-> IF w \in landed THEN AfterFlight(w, r) ELSE lpc[w]]
       /\ answer' = [w \in Lookups |->
            IF w \in landed THEN None ELSE answer[w]]
  /\ UNCHANGED <<clock, store, calls, key, now, delete, purge>>

\* The flight ends: it is removed, its channel closed, and the leader and
\* every waiter have its result, each with an expiry of its own.
Land(l) ==
  LET r == found[l] IN
  /\ lpc[l] = "land"
  /\ flights' = [flights EXCEPT ![key[l]] = None]
  /\ LET landed == {l} \cup {w \in Lookups : lpc[w] = "wait" /\ flights[key[w]] = l} IN
       /\ found' = [w \in Lookups |->
            IF w \in landed /\ r # None THEN Entry(r.key, r.call, now[w] + TTL)
            ELSE IF w \in landed THEN None ELSE found[w]]
       /\ lpc' = [w \in Lookups |-> IF w \in landed THEN AfterFlight(w, r) ELSE lpc[w]]
       /\ answer' = [w \in Lookups |->
            IF w \in landed THEN None ELSE answer[w]]
  /\ UNCHANGED <<clock, store, calls, key, now, delete, purge>>

\* INSERT OR REPLACE of the row; an error fails the lookup.
InsertRow(l) ==
  /\ lpc[l] = "insert"
  /\ \/ /\ table' = [table EXCEPT ![key[l]] = found[l]]
        /\ Goto(l, "keep") /\ UNCHANGED answer
     \/ /\ Reply(l, None) /\ UNCHANGED table
  /\ UNCHANGED <<clock, memory, flights, calls, key, now, found, delete, purge>>

\* The result goes to memory and answers.
Keep(l) ==
  /\ lpc[l] = "keep"
  /\ memory' = [memory EXCEPT ![key[l]] = found[l]]
  /\ Reply(l, found[l])
  /\ UNCHANGED <<clock, table, flights, calls, key, now, found, delete, purge>>

Return(l) ==
  /\ lpc[l] = "reply"
  /\ Goto(l, "idle")
  /\ key' = [key EXCEPT ![l] = None]
  /\ now' = [now EXCEPT ![l] = 0]
  /\ found' = [found EXCEPT ![l] = None]
  /\ answer' = [answer EXCEPT ![l] = None]
  /\ UNCHANGED <<clock, store, flights, calls, delete, purge>>

Steps(l) ==
  \/ ReadRow(l) \/ FillMemory(l) \/ DeleteExpired(l) \/ AskLocal(l)
  \/ Join(l) \/ Call(l) \/ Land(l) \/ InsertRow(l) \/ Keep(l) \/ Return(l)

-----------------------------------------------------------------------------
(* DeleteCache: the rows, then the memory.  The filters of the API select  *)
(* one network, or those of a country, or everything (Keys); v6Cache is    *)
(* not touched in any case.                                                *)

StoredIn(ks) ==
  ({memory[k] : k \in ks} \cup {table[k] : k \in ks \cap V4}) \ {None}

\* A statement that fails ends the deletion: it reports the error, and neither
\* the table nor the memory has changed.
DeleteRows(d, ks) ==
  /\ dpc[d] = "idle"
  /\ \/ /\ filter' = [filter EXCEPT ![d] = ks]
        /\ doomed' = [doomed EXCEPT ![d] = StoredIn(ks)]
        /\ carried' = [carried EXCEPT ![d] = StoredIn(ks) \cap {found[l] : l \in Lookups}]
        /\ table' = [k \in V4 |-> IF k \in ks THEN None ELSE table[k]]
        /\ dpc' = [dpc EXCEPT ![d] = "memory"]
     \/ /\ dpc' = [dpc EXCEPT ![d] = "failed"]
        /\ UNCHANGED <<table, filter, doomed, carried>>
  /\ UNCHANGED <<clock, memory, flights, calls, lookup, purge>>

\* Faulty variant: a filter selects rows only, the memory goes with the whole.
DeleteMemoryUnfiltered(d) ==
  /\ dpc[d] = "memory"
  /\ memory' = [k \in Keys |-> IF filter[d] = Keys /\ k \in V4 THEN None ELSE memory[k]]
  /\ dpc' = [dpc EXCEPT ![d] = "done"]
  /\ UNCHANGED <<clock, table, flights, calls, lookup, filter, doomed, carried, purge>>

DeleteMemory(d) ==
  /\ dpc[d] = "memory"
  /\ memory' = [k \in Keys |-> IF k \in filter[d] \cap V4 THEN None ELSE memory[k]]
  /\ dpc' = [dpc EXCEPT ![d] = "done"]
  /\ UNCHANGED <<clock, table, flights, calls, lookup, filter, doomed, carried, purge>>

-----------------------------------------------------------------------------
(* purgeLoop, once an hour: the expired rows, then the expired entries of  *)
(* l.cache.                                                                *)

\* An error is ignored.
PurgeRows ==
  /\ ppc = "wait"
  /\ purgeNow' = clock
  /\ \/ UNCHANGED table
     \/ table' = [k \in V4 |->
          IF table[k] # None /\ table[k].expires < clock THEN None ELSE table[k]]
  /\ ppc' = "memory"
  /\ UNCHANGED <<clock, memory, flights, calls, lookup, delete>>

\* Faulty variant: the comparison is the wrong way round.
PurgeFresh ==
  /\ ppc = "memory"
  /\ memory' = [k \in Keys |-> IF k \in V4 /\ Fresh(memory[k], purgeNow) THEN None ELSE memory[k]]
  /\ ppc' = "wait" /\ purgeNow' = 0
  /\ UNCHANGED <<clock, table, flights, calls, lookup, delete>>

PurgeMemory ==
  /\ ppc = "memory"
  /\ memory' = [k \in Keys |-> IF k \in V4 /\ ~Fresh(memory[k], purgeNow) THEN None ELSE memory[k]]
  /\ ppc' = "wait" /\ purgeNow' = 0
  /\ UNCHANGED <<clock, table, flights, calls, lookup, delete>>

Tick ==
  /\ clock < MaxClock
  /\ clock' = clock + 1
  /\ UNCHANGED <<store, flights, calls, lookup, delete, purge>>

Next ==
  \/ \E l \in Lookups : (\E k \in Keys : Begin(l, k)) \/ Steps(l)
  \/ \E d \in Deleters : (\E ks \in (SUBSET V4 \ {{}}) \cup {Keys} : DeleteRows(d, ks)) \/ DeleteMemory(d)
  \/ PurgeRows \/ PurgeMemory
  \/ Tick

\* Goroutines run, SQLite and the provider return (or time out), and the
\* ticker of the purge loop fires every hour.
Fairness ==
  /\ \A l \in Lookups : WF_vars(Steps(l))
  /\ WF_vars(PurgeRows) /\ WF_vars(PurgeMemory)

Spec == Init /\ [][Next]_vars
FairSpec == Spec /\ Fairness

-----------------------------------------------------------------------------
(* What the lookup path promises.                                          *)

Stored  == [key : Keys, call : 0 .. MaxCalls, expires : Nat]
Entries == Stored \cup {None}

TypeOK ==
  /\ clock \in 0 .. MaxClock /\ calls \in 0 .. MaxCalls
  /\ memory \in [Keys -> Entries] /\ table \in [V4 -> Entries]
  /\ flights \in [Keys -> Lookups \cup {None}]
  /\ lpc \in [Lookups -> {"idle", "row", "fill", "expired", "local", "flight", "wait",
                         "call", "land", "insert", "keep", "reply"}]
  /\ key \in [Lookups -> Keys \cup {None}] /\ now \in [Lookups -> Nat]
  /\ \A l \in Lookups : lpc[l] \in {"row", "fill", "expired", "insert"} => key[l] \in V4
  /\ found \in [Lookups -> Entries] /\ answer \in [Lookups -> Entries]
  /\ dpc \in [Deleters -> {"idle", "memory", "done", "failed"}]
  /\ filter \in [Deleters -> SUBSET Keys]
  /\ doomed \in [Deleters -> SUBSET Stored] /\ carried \in [Deleters -> SUBSET Stored]
  /\ ppc \in {"wait", "memory"} /\ purgeNow \in Nat

\* A lookup never answers, and a cache never holds, the result for another
\* address, however flights and fills interleave (the keys "v4:" and "v6:"
\* of the flights, geo.go:249, 308, 339-358; the fills, geo.go:277-289, 325-336).
AnswerForKey ==
  /\ \A l \in Lookups :
       answer[l] # None => answer[l].key = key[l]
  /\ \A k \in Keys : memory[k] # None => memory[k].key = k
  /\ \A k \in V4 : table[k] # None => table[k].key = k

\* At most one call of the provider is under way for a key, and every lookup
\* that waits waits for a flight that is still in the air.
SingleFlight ==
  /\ \A l, m \in Lookups :
       lpc[l] \in {"call", "land"} /\ lpc[m] \in {"call", "land"} /\ key[l] = key[m] => l = m
  /\ \A w \in Lookups :
       lpc[w] = "wait" => \E l \in Lookups : lpc[l] \in {"call", "land"} /\ key[l] = key[w]

\* Every lookup returns: no waiter is left behind by a flight that failed.
Answered == \A l \in Lookups : lpc[l] # "idle" ~> lpc[l] = "idle"

\* No lookup answers with a provider's result that had expired when it read
\* the time, whatever was purged, deleted or stored in between.
NoStaleAnswer ==
  \A l \in Lookups :
    answer[l] # None /\ answer[l].call # 0 => Fresh(answer[l], now[l])

\* An expired entry does not stay in memory, "so the in-memory cache cannot
\* grow indefinitely as subnets expire" (geo.go:526-527).
MemoryReclaimed ==
  \A k \in Keys :
    memory[k] # None /\ ~Fresh(memory[k], clock) ~> memory[k] = None \/ Fresh(memory[k], clock)

\* A deletion done has removed from the table and the memory every IPv4 entry
\* that was stored when it began, but for one a lookup had in its hand then and
\* may store again (DeleteCache and Lookup share l.mu for single accesses only).
DeletedV4Gone ==
  \A d \in Deleters :
    dpc[d] = "done" => (doomed[d] \ carried[d]) \cap StoredIn(filter[d] \cap V4) = {}

\* DELETE /api/geo-cache "clears matching SQLite and in-memory entries"
\* (API_EN.md:186): what was stored when the deletion began is gone when it
\* is done, from both.
DeletedIsGone ==
  \A d \in Deleters : dpc[d] = "done" => doomed[d] \cap StoredIn(filter[d]) = {}

\* Concurrent misses are coalesced ("want one coalesced lookup",
\* dat_test.go:67): the provider is not called for a key that a flight has
\* just answered.
Coalesced == [][\A l \in Lookups : Call(l) => ~Fresh(memory[key[l]], clock)]_vars

=============================================================================
