-------------------------------- MODULE History --------------------------------
(***************************************************************************)
(* The readers of the recorder database (src/src/recorder/recorder.go:     *)
(* QueryHistory, QueryEDNS, GetStats) and the API requests that call them  *)
(* (src/src/api/server.go).  A reader counts in one statement and fetches  *)
(* a page, or counts the hits, in another; rows arrive, change and go in   *)
(* between and between the pages.                                          *)
(*                                                                         *)
(* A row is its created_at, its country, its geo_cached and what its retry *)
(* has yet to update; an edns row is its country.  created_at is taken by  *)
(* the handler of the query and the workers insert in any order, so a row  *)
(* may arrive below rows that are there already.  Deletions and updates    *)
(* are steps as RecorderDB.tla shows them to a reader: committed at once.  *)
(* The client that walks the pages is not part of the program; it goes on  *)
(* behind the last item it received, until a page is empty.                *)
(***************************************************************************)
EXTENDS Integers, Sequences, FiniteSets, Functions

CONSTANTS
  Arriving,     \* bound of the model: the rows the workers insert, by id, each
                \* [at, country, hit, ecs, failed]; ecs is the country of its edns row,
                \* Null without one; failed is GeoFailed
  Countries,    \* country codes, "" for no country
  DefaultLimit, \* page size without a limit (50 in the code)
  MaxLimit,     \* largest page (1000 in the code)
  Limits,       \* values of the limit parameter
  MaxPages,     \* bound of the model: pages of one walk
  Null

Ids == DOMAIN Arriving

\* A row of queries; retry is what the retry goroutine has yet to update.
Rows == [at : Int, country : Countries, hit : BOOLEAN, retry : {"query", "edns", "none"}]

Requests ==
  [kind : {"queries", "edns"}, country : (Countries \ {""}) \cup {Null}, limit : Limits]
    \cup {[kind |-> "stats", country |-> Null, limit |-> 0]}

ASSUME HistoryAssumption ==
  /\ IsFiniteSet(Ids)
  /\ \A i \in Ids :
       /\ Arriving[i].at \in Int /\ Arriving[i].country \in Countries
       /\ Arriving[i].ecs \in Countries \cup {Null}
       /\ Arriving[i].hit \in BOOLEAN /\ Arriving[i].failed \in BOOLEAN
  /\ Null \notin Rows /\ Null \notin Requests
  /\ DefaultLimit \in Nat \ {0} /\ MaxLimit \in Nat \ {0} /\ Limits \subseteq Int

VARIABLES
  queries,  \* table queries: id |-> row or Null
  edns,     \* table edns: id |-> country of the row, or Null
  arrived,  \* ids that were inserted, and may have been deleted since
  pc,       \* program point of the reader
  request,  \* [kind, country, limit]: the table and the filter it asks for
  offset,   \* the offset parameter of its next page
  pages,    \* pages it has received
  total,    \* result of its COUNT(*)
  items,    \* the page, or for GetStats the number of hits
  seen,     \* history: ids the walk has received
  present,  \* history: ids that have matched ever since the walk began
  left,     \* history: a matching row has left during the walk
  came, went \* history: rows that began, ceased to match since the last count

tables     == <<queries, edns, arrived>>
reader     == <<pc, request, offset, pages, total, items, seen>>
ghosts     == <<present, left, came, went>>
readerVars == <<tables, reader, ghosts>>

ReaderInit ==
  /\ queries = [i \in Ids |-> Null] /\ edns = [i \in Ids |-> Null] /\ arrived = {}
  /\ pc = "idle" /\ request = Null /\ offset = 0 /\ pages = 0
  /\ total = 0 /\ items = <<>> /\ seen = {}
  /\ present = {} /\ left = FALSE /\ came = 0 /\ went = 0

-----------------------------------------------------------------------------
(* What a request selects.                                                 *)

Stored     == {i \in Ids : queries[i] # Null}
StoredEdns == {i \in Ids : edns[i] # Null}

Passes(r, country) == r.country = Null \/ r.country = country

\* QueryHistory filters queries, GetStats reads all of it; QueryEDNS joins edns
\* to it and filters by the country of the edns row.
Matching(r) ==
  IF r = Null THEN {}
  ELSE IF r.kind = "edns" THEN {i \in Stored \cap StoredEdns : Passes(r, edns[i])}
  ELSE {i \in Stored : Passes(r, queries[i].country)}

\* No limit is 50, more than 1000 is 1000.
Limit(n) == IF n <= 0 THEN DefaultLimit ELSE IF n > MaxLimit THEN MaxLimit ELSE n

\* ORDER BY created_at DESC: rows of the same time come in any order.
Sorted(S) ==
  {s \in [1 .. Cardinality(S) -> S] :
     /\ Range(s) = S
     /\ \A i, j \in DOMAIN s : i < j => queries[s[i]].at >= queries[s[j]].at}

\* Faulty variant: the first row behind the offset is left out.
PageSkipping(s, n, o) ==
  IF o + 1 < Len(s) THEN SubSeq(s, o + 2, IF o + n < Len(s) THEN o + n ELSE Len(s)) ELSE <<>>

\* LIMIT n OFFSET o.
Page(s, n, o) == SubSeq(s, o + 1, IF o + n < Len(s) THEN o + n ELSE Len(s))

-----------------------------------------------------------------------------
(* The tables change.                                                      *)

\* What the change means to the reader.
Observe ==
  LET old == Matching(request)  new == Matching(request)' IN
  /\ present' = present \cap new
  /\ left' = (left \/ ~(old \subseteq new))
  /\ came' = came + Cardinality(new \ old)
  /\ went' = went + Cardinality(old \ new)

\* insertOne: in any order of created_at; a retry is queued if a lookup failed.
Insert(i) ==
  LET e == Arriving[i] IN
  /\ i \notin arrived
  /\ arrived' = arrived \cup {i}
  /\ queries' = [queries EXCEPT ![i] =
       [at |-> e.at, country |-> e.country, hit |-> e.hit,
        retry |-> IF e.failed THEN "query" ELSE "none"]]
  /\ edns' = [edns EXCEPT ![i] = e.ecs]
  /\ UNCHANGED reader
  /\ Observe

\* retryGeo: the country of the query's row, then that of its edns row, which
\* may have been deleted.
Enrich(i, c) ==
  /\ queries[i] # Null /\ queries[i].retry = "query"
  /\ queries' = [queries EXCEPT ![i].country = c,
                   ![i].retry = IF Arriving[i].ecs # Null THEN "edns" ELSE "none"]
  /\ UNCHANGED <<edns, arrived, reader>>
  /\ Observe

EnrichEdns(i, c) ==
  /\ queries[i] # Null /\ queries[i].retry = "edns"
  /\ queries' = [queries EXCEPT ![i].retry = "none"]
  /\ edns' = IF edns[i] = Null THEN edns ELSE [edns EXCEPT ![i] = c]
  /\ UNCHANGED <<arrived, reader>>
  /\ Observe

\* DeleteQueries; on PostgreSQL an edns row may stay behind (RecorderDB.tla).
DeleteQueries(i) ==
  /\ queries[i] # Null
  /\ queries' = [queries EXCEPT ![i] = Null]
  /\ edns' \in {edns, [edns EXCEPT ![i] = Null]}
  /\ UNCHANGED <<arrived, reader>>
  /\ Observe

DeleteEDNS(i) ==
  /\ edns[i] # Null
  /\ edns' = [edns EXCEPT ![i] = Null]
  /\ UNCHANGED <<queries, arrived, reader>>
  /\ Observe

-----------------------------------------------------------------------------
(* The reader.                                                             *)

Counted == came' = 0 /\ went' = 0

Ask(r) ==
  /\ pc = "idle"
  /\ request' = r
  /\ pc' = "count"
  /\ present' = Matching(r)
  /\ UNCHANGED <<tables, offset, pages, total, items, seen, left, came, went>>

\* Faulty variant: the COUNT of QueryEDNS without the join.
CountUnjoined(r) == Cardinality(IF r.kind = "edns" THEN StoredEdns ELSE Matching(r))

CountOf(r) == Cardinality(Matching(r))

\* SELECT COUNT(*).
Count ==
  /\ pc = "count"
  /\ total' = CountOf(request)
  /\ pc' = IF request.kind = "stats" THEN "hits" ELSE "page"
  /\ Counted
  /\ UNCHANGED <<tables, request, offset, pages, items, seen, present, left>>

\* SELECT ... LIMIT OFFSET.
Fetch ==
  /\ pc = "page"
  /\ \E s \in Sorted(Matching(request)) :
       items' = Page(s, Limit(request.limit), offset)
  /\ seen' = seen \cup Range(items')
  /\ pages' = pages + 1
  /\ pc' = "answer"
  /\ UNCHANGED <<tables, request, offset, total, ghosts>>

Hits == {i \in Stored : queries[i].hit}

\* GetStats: SELECT COUNT(*) ... WHERE geo_cached = TRUE.
CountHits ==
  /\ pc = "hits"
  /\ items' = Cardinality(Hits)
  /\ pc' = "stats"
  /\ UNCHANGED <<tables, request, offset, pages, total, seen, ghosts>>

\* The client asks for the page behind the items it has received.
NextPage ==
  /\ pc = "answer" /\ items # <<>> /\ pages < MaxPages
  /\ offset' = offset + Len(items)
  /\ pc' = "count"
  /\ items' = <<>>
  /\ UNCHANGED <<tables, request, pages, total, seen, ghosts>>

\* An empty page ends the walk; an error or the client's patience may too.
Done ==
  /\ pc \notin {"idle", "count"}
  /\ pc' = "idle" /\ request' = Null /\ offset' = 0 /\ pages' = 0
  /\ total' = 0 /\ items' = <<>> /\ seen' = {}
  /\ present' = {} /\ left' = FALSE /\ came' = 0 /\ went' = 0
  /\ UNCHANGED tables

ReaderNext ==
  \/ \E i \in Ids :
       \/ Insert(i) \/ DeleteQueries(i) \/ DeleteEDNS(i)
       \/ \E c \in Countries : Enrich(i, c) \/ EnrichEdns(i, c)
  \/ \E r \in Requests : Ask(r)
  \/ Count \/ Fetch \/ CountHits \/ NextPage \/ Done

ReaderSpec == ReaderInit /\ [][ReaderNext]_readerVars

-----------------------------------------------------------------------------
(* What a reader may rely on.                                              *)

ReaderTypeOK ==
  /\ queries \in [Ids -> Rows \cup {Null}] /\ edns \in [Ids -> Countries \cup {Null}]
  /\ arrived \subseteq Ids
  /\ pc \in {"idle", "count", "page", "answer", "hits", "stats"}
  /\ request \in Requests \cup {Null}
  /\ pc = "idle" <=> request = Null
  /\ offset \in Nat /\ pages \in Nat /\ total \in Nat
  /\ items \in IF pc = "stats" THEN Nat ELSE Seq(Ids)
  /\ seen \subseteq Ids /\ present \subseteq Ids
  /\ left \in BOOLEAN /\ came \in Nat /\ went \in Nat

\* A client that walks the pages to the empty one has seen every row that
\* matched all the time, as long as no matching row has left: rows that
\* arrive, in whatever order, push others to later pages only (QueryHistory,
\* QueryEDNS: ORDER BY created_at DESC LIMIT OFFSET).  Rows of one created_at are
\* excluded: two pages may order them differently, and History_ties.cfg, where two
\* rows have one time, violates it.
WalkMissesNothing ==
  pc = "answer" /\ items = <<>> /\ ~left => present \subseteq seen

\* The two numbers of one answer, the total and the page of QueryHistory and
\* QueryEDNS or the queries and the hits of GetStats, disagree only by rows that
\* began or ceased to match between the two statements.
TotalFits ==
  /\ pc = "answer" /\ items # <<>> => offset + Len(items) <= total + came
  /\ pc = "answer" /\ Len(items) < Limit(request.limit) =>
       total <= offset + Len(items) + went
  /\ pc = "stats" => items <= total + came

\* Without the exception: "cache_hited" is a part of "total_queries".
HitsArePart == pc = "stats" => items <= total

\* A walk misses nothing although matching rows have left.
WalkMissesNothingAtAll == pc = "answer" /\ items = <<>> => present \subseteq seen

=============================================================================
