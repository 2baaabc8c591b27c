------------------------------ MODULE RecorderDB ------------------------------
(***************************************************************************)
(* The two tables of the recorder, queries and edns, and the transactions  *)
(* on them: the inserts of the workers, the deletions of the API and the   *)
(* updates of the retry goroutine (src/src/recorder/recorder.go,           *)
(* sqlite.go).  An edns row has the id of its query row; no foreign key    *)
(* ties them.                                                              *)
(*                                                                         *)
(* SQLite is opened with one connection: a transaction keeps everyone else *)
(* out (conn).  PostgreSQL runs READ COMMITTED: each statement sees what   *)
(* was committed before it, a deleted row stays visible and locked until   *)
(* its transaction commits (doomed).                                       *)
(*                                                                         *)
(* The geo columns of a row are named by what was looked up for them: the  *)
(* client of the entry, its EDNS subnet (EcsGeo), or nothing yet (None).   *)
(***************************************************************************)
EXTENDS Naturals, FiniteSetsExt

CONSTANTS
  DbTypes,   \* values of recorder.database.type: "sqlite", "postgres"
  Clients,   \* an entry is known by its client
  WithEcs,   \* clients whose entry has an EDNS subnet
  Workers,   \* inserting goroutines
  Deleters,  \* API handlers that call DeleteQueries
  MaxId,     \* bound of the model: row ids
  MaxDeletes,\* bound of the model: deletions
  EcsGeo,
  None

ASSUME RecorderDBAssumption ==
  /\ DbTypes \subseteq {"sqlite", "postgres"}
  /\ WithEcs \subseteq Clients
  /\ None \notin Clients \cup Workers \cup Deleters /\ EcsGeo \notin Clients \cup {None}
  /\ None \notin [client : Clients, geo : Clients \cup {EcsGeo, None}]
  /\ Workers \cap Deleters = {}
  /\ MaxId \in Nat /\ MaxDeletes \in Nat

Ids == 1 .. MaxId

VARIABLES
  dbType,   \* Recorder.dbType, from the configuration
  queries,  \* table queries: id |-> [client, geo] or None
  edns,     \* table edns: id |-> [client, geo] or None
  last,     \* the AUTOINCREMENT counter, or the sequence of the BIGSERIAL
  conn,     \* SQLite: the owner of the connection, or None
  entry,    \* the entry each worker is inserting, or None
  jobs,     \* retry jobs queued: [id, client]
  job,      \* the job in progress, or None
  rpc,      \* program point of the retry goroutine
  dpc,      \* program point of each deletion
  filter,   \* its filter
  doomed,   \* the rows it has deleted and not yet committed: [queries, edns]
  deletes,  \* number of deletions so far
  cleared   \* history: ids whose edns row DeleteEDNS deleted

tables   == <<queries, edns, last>>
retry    == <<jobs, job, rpc>>
deletion == <<dpc, filter, doomed, deletes>>
vars     == <<dbType, tables, conn, entry, retry, deletion, cleared>>

Init ==
  /\ dbType \in DbTypes
  /\ queries = [i \in Ids |-> None]
  /\ edns = [i \in Ids |-> None]
  /\ last = 0
  /\ conn = None
  /\ entry = [w \in Workers |-> None]
  /\ jobs = {} /\ job = None /\ rpc = "select"
  /\ dpc = [d \in Deleters |-> "idle"]
  /\ filter = [d \in Deleters |-> None]
  /\ doomed = [d \in Deleters |-> [queries |-> {}, edns |-> {}]]
  /\ deletes = 0
  /\ cleared = {}

\* A statement outside a transaction, or a Begin, gets a connection.
Free    == conn = None
Take(p) == conn' = IF dbType = "sqlite" THEN p ELSE None

Stored(t) == {i \in Ids : t[i] # None}

\* Filters: everything, one id, the client, or the country of the geo columns.
Filters == [by : {"all"}, value : {None}] \cup [by : {"id"}, value : Ids]
             \cup [by : {"client"}, value : Clients]
             \cup [by : {"country"}, value : Clients \cup {EcsGeo}]

Matches(f, i, row) ==
  \/ f.by = "all"
  \/ f.by = "id" /\ f.value = i
  \/ f.by = "client" /\ f.value = row.client
  \/ f.by = "country" /\ f.value = row.geo

-----------------------------------------------------------------------------
(* insertOne.                                                              *)

\* Faulty variant: INTEGER PRIMARY KEY without AUTOINCREMENT reuses an id.
NextIdReused == IF Stored(queries) = {} THEN 1 ELSE Max(Stored(queries)) + 1

NextId == last + 1

\* SQLite: Begin.
BeginInsert(w, c) ==
  /\ dbType = "sqlite" /\ Free /\ entry[w] = None
  /\ entry' = [entry EXCEPT ![w] = c]
  /\ conn' = w
  /\ UNCHANGED <<dbType, tables, retry, deletion, cleared>>

\* Both rows, or only the query's, under one new id; then the retry job, if
\* a lookup had failed and there is room for it.  A subnet that was looked up
\* gives the query its country (dns.go:103).
Insert(c) ==
  /\ NextId \in Ids
  /\ \E g \in {None, c} \cup (IF c \in WithEcs THEN {EcsGeo} ELSE {}) :
       /\ queries' = [queries EXCEPT ![NextId] = [client |-> c, geo |-> g]]
       /\ edns' = IF c \in WithEcs
                  THEN [edns EXCEPT ![NextId] = [client |-> c, geo |-> IF g = EcsGeo THEN c ELSE None]]
                  ELSE edns
  /\ last' = NextId
  /\ jobs' = jobs \/ jobs' = jobs \cup {[id |-> NextId, client |-> c]}

\* SQLite: the statements of the transaction and its Commit, or its Rollback.
EndInsert(w) ==
  /\ conn = w
  /\ Insert(entry[w]) \/ UNCHANGED <<tables, jobs>>
  /\ entry' = [entry EXCEPT ![w] = None]
  /\ conn' = None
  /\ UNCHANGED <<dbType, job, rpc, deletion, cleared>>

\* PostgreSQL: one statement (a CTE for both rows); a failed one uses up an id.
InsertStatement(c) ==
  /\ dbType = "postgres"
  /\ \/ Insert(c)
     \/ /\ NextId \in Ids
        /\ last' = NextId
        /\ UNCHANGED <<queries, edns, jobs>>
  /\ UNCHANGED <<dbType, conn, entry, job, rpc, deletion, cleared>>

-----------------------------------------------------------------------------
(* DeleteQueries.                                                          *)

\* Rows another transaction has deleted: a statement that meets one waits.
LockedEdns(d)    == UNION {doomed[o].edns : o \in Deleters \ {d}}
LockedQueries(d) == UNION {doomed[o].queries : o \in Deleters \ {d}}

BeginDelete(d, f) ==
  /\ dpc[d] = "idle" /\ deletes < MaxDeletes /\ Free
  /\ deletes' = deletes + 1
  /\ Take(d)
  /\ filter' = [filter EXCEPT ![d] = f]
  /\ dpc' = [dpc EXCEPT ![d] = "edns"]
  /\ UNCHANGED <<dbType, tables, entry, retry, doomed, cleared>>

\* Faulty variant: the filter is applied to the columns of edns itself.
EdnsByOwnColumns(d) == {i \in Stored(edns) : Matches(filter[d], i, edns[i])}

\* WHERE id IN (SELECT id FROM queries WHERE ...).
EdnsOfMatching(d) ==
  {i \in Stored(edns) : queries[i] # None /\ Matches(filter[d], i, queries[i])}

DeleteEdnsRows(d) ==
  /\ dpc[d] = "edns" /\ EdnsOfMatching(d) \cap LockedEdns(d) = {}
  /\ doomed' = [doomed EXCEPT ![d].edns = EdnsOfMatching(d)]
  /\ dpc' = [dpc EXCEPT ![d] = "queries"]
  /\ UNCHANGED <<dbType, tables, conn, entry, retry, filter, deletes, cleared>>

MatchingQueries(d) == {i \in Stored(queries) : Matches(filter[d], i, queries[i])}

DeleteQueryRows(d) ==
  /\ dpc[d] = "queries" /\ MatchingQueries(d) \cap LockedQueries(d) = {}
  /\ doomed' = [doomed EXCEPT ![d].queries = MatchingQueries(d)]
  /\ dpc' = [dpc EXCEPT ![d] = "commit"]
  /\ UNCHANGED <<dbType, tables, conn, entry, retry, filter, deletes, cleared>>

EndDelete(d) ==
  /\ dpc' = [dpc EXCEPT ![d] = "idle"]
  /\ filter' = [filter EXCEPT ![d] = None]
  /\ doomed' = [doomed EXCEPT ![d] = [queries |-> {}, edns |-> {}]]
  /\ conn' = None
  /\ UNCHANGED <<dbType, last, entry, retry, deletes, cleared>>

CommitDelete(d) ==
  /\ dpc[d] = "commit"
  /\ queries' = [i \in Ids |-> IF i \in doomed[d].queries THEN None ELSE queries[i]]
  /\ edns' = [i \in Ids |-> IF i \in doomed[d].edns THEN None ELSE edns[i]]
  /\ EndDelete(d)

\* Faulty variant: no transaction, the first statement stays done.
RollbackKeepsEdnsDeleted(d) ==
  /\ dpc[d] # "idle"
  /\ edns' = [i \in Ids |-> IF i \in doomed[d].edns THEN None ELSE edns[i]]
  /\ EndDelete(d)
  /\ UNCHANGED queries

\* A statement failed: the deferred Rollback.
RollbackDelete(d) ==
  /\ dpc[d] # "idle"
  /\ EndDelete(d)
  /\ UNCHANGED <<queries, edns>>

\* DeleteEDNS: one statement on edns alone.
DeleteEDNS(f) ==
  /\ deletes < MaxDeletes /\ Free
  /\ LET hit == {i \in Stored(edns) : Matches(f, i, edns[i])}
     IN  /\ hit \cap UNION {doomed[o].edns : o \in Deleters} = {}
         /\ edns' = [i \in Ids |-> IF i \in hit THEN None ELSE edns[i]]
         /\ cleared' = cleared \cup hit
  /\ deletes' = deletes + 1
  /\ UNCHANGED <<dbType, queries, last, conn, entry, retry, dpc, filter, doomed>>

-----------------------------------------------------------------------------
(* retryGeo: two updates by id, each its own transaction.                  *)

Enrich(t, i, c) == IF t[i] = None THEN t ELSE [t EXCEPT ![i].geo = c]

TakeJob(j) ==
  /\ rpc = "select" /\ j \in jobs
  /\ jobs' = jobs \ {j}
  /\ job' = j
  /\ rpc' = "queries"
  /\ UNCHANGED <<dbType, tables, conn, entry, deletion, cleared>>

\* The lookups fail three times: the job is given up.
GiveUpJob ==
  /\ rpc = "queries"
  /\ rpc' = "select" /\ job' = None
  /\ UNCHANGED <<dbType, tables, conn, entry, jobs, deletion, cleared>>

UpdateQueries ==
  /\ rpc = "queries" /\ Free
  /\ \A d \in Deleters : job.id \notin doomed[d].queries
  /\ queries' = Enrich(queries, job.id, job.client)
  /\ IF job.client \in WithEcs
     THEN rpc' = "edns" /\ UNCHANGED job
     ELSE rpc' = "select" /\ job' = None
  /\ UNCHANGED <<dbType, edns, last, conn, entry, jobs, deletion, cleared>>

\* An error of the lookup or of the statement is ignored.
UpdateEdns ==
  /\ rpc = "edns"
  /\ \/ /\ Free /\ \A d \in Deleters : job.id \notin doomed[d].edns
        /\ edns' = Enrich(edns, job.id, job.client)
     \/ UNCHANGED edns
  /\ rpc' = "select" /\ job' = None
  /\ UNCHANGED <<dbType, queries, last, conn, entry, jobs, deletion, cleared>>

Next ==
  \/ \E c \in Clients : InsertStatement(c) \/ \E w \in Workers : BeginInsert(w, c)
  \/ \E w \in Workers : EndInsert(w)
  \/ \E f \in Filters : DeleteEDNS(f) \/ \E d \in Deleters : BeginDelete(d, f)
  \/ \E d \in Deleters :
       DeleteEdnsRows(d) \/ DeleteQueryRows(d) \/ CommitDelete(d) \/ RollbackDelete(d)
  \/ \E j \in jobs : TakeJob(j)
  \/ GiveUpJob \/ UpdateQueries \/ UpdateEdns

Spec == Init /\ [][Next]_vars

-----------------------------------------------------------------------------
(* What the tables promise.                                                *)

Rows == [client : Clients, geo : Clients \cup {EcsGeo, None}] \cup {None}
Jobs == [id : 1 .. last, client : Clients]

TypeOK ==
  /\ dbType \in DbTypes
  /\ queries \in [Ids -> Rows] /\ edns \in [Ids -> Rows]
  /\ last \in 0 .. MaxId
  /\ conn \in Workers \cup Deleters \cup {None}
  /\ entry \in [Workers -> Clients \cup {None}]
  /\ jobs \subseteq Jobs
  /\ rpc \in {"select", "queries", "edns"} /\ job \in Jobs \cup {None}
  /\ dpc \in [Deleters -> {"idle", "edns", "queries", "commit"}]
  /\ filter \in [Deleters -> Filters \cup {None}]
  /\ doomed \in [Deleters -> [queries : SUBSET Ids, edns : SUBSET Ids]]
  /\ deletes \in 0 .. MaxDeletes /\ cleared \subseteq Ids

\* DeleteQueries "deletes query history (and associated edns records)"
\* (recorder.go:540): no edns row outlives its query row, whatever is
\* inserted or enriched between the two statements.
AssociatedEdnsDeleted == Stored(edns) \subseteq Stored(queries)

\* On SQLite the transaction keeps that promise.
NoOrphanEdns == dbType = "sqlite" => AssociatedEdnsDeleted

\* On SQLite a query row that stays keeps its edns row, unless DeleteEDNS
\* removed it: insertOneSQLite writes both or none, and a DeleteQueries that
\* is rolled back or races a retry removes both or none.
EdnsKept ==
  \A i \in Stored(queries) :
    dbType = "sqlite" /\ queries[i].client \in WithEcs => edns[i] # None \/ i \in cleared

\* The geo columns of a row are its own entry's: a late retry never writes
\* to a row that took the id of a deleted one (AUTOINCREMENT, sqlite.go:17).
UpdatesOwnRow ==
  /\ \A i \in Stored(queries) : queries[i].geo \in {None, EcsGeo, queries[i].client}
  /\ \A i \in Stored(edns) : edns[i].geo \in {None, edns[i].client}

=============================================================================
