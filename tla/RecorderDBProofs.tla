--------------------------- MODULE RecorderDBProofs ---------------------------
(***************************************************************************)
(* Proofs about the recorder's tables: any number of workers, deletions,   *)
(* clients and row ids.                                                    *)
(***************************************************************************)
EXTENDS RecorderDB, TLAPS, FiniteSetTheorems, SequenceTheorems

-----------------------------------------------------------------------------
(* The inductive invariant.                                                *)

\* SQLite's one connection: a transaction under way has it.
OneConnection ==
  /\ \A w \in Workers : entry[w] # None => conn = w
  /\ conn \in Workers => dbType = "sqlite" /\ entry[conn] \in Clients
  /\ \A d \in Deleters : dbType = "sqlite" /\ dpc[d] # "idle" => conn = d

\* What a deletion has deleted so far; on SQLite it is still what its filter
\* selects, since nobody else wrote in between.
Deleting ==
  \A d \in Deleters :
    /\ dpc[d] # "idle" => filter[d] \in Filters
    /\ dbType = "sqlite" /\ dpc[d] \in {"queries", "commit"} =>
         doomed[d].edns = EdnsOfMatching(d)
    /\ dbType = "sqlite" /\ dpc[d] = "commit" => doomed[d].queries = MatchingQueries(d)

\* An id is given out once.
Fresh == \A i \in Ids : i > last => queries[i] = None /\ edns[i] = None

\* The rows under the id of a retry job are its own entry's.
OwnRows(j) ==
  /\ queries[j.id] # None => queries[j.id].client = j.client
  /\ edns[j.id] # None => edns[j.id].client = j.client

Retrying ==
  /\ \A j \in jobs : OwnRows(j)
  /\ rpc # "select" => job \in Jobs /\ OwnRows(job)

IInv ==
  /\ TypeOK /\ OneConnection /\ Deleting /\ Fresh /\ Retrying
  /\ NoOrphanEdns /\ EdnsKept /\ UpdatesOwnRow

-----------------------------------------------------------------------------
(* Constants and rows.                                                     *)

\* The names are distinct.
LEMMA Distinct ==
  /\ None \notin Clients /\ None \notin Workers /\ None \notin Deleters
  /\ Workers \cap Deleters = {} /\ WithEcs \subseteq Clients
  /\ EcsGeo \notin Clients /\ EcsGeo # None
  /\ MaxId \in Nat /\ MaxDeletes \in Nat
BY RecorderDBAssumption

\* What may be read from a row.
LEMMA RowFields ==
  ASSUME NEW r \in Rows, r # None
  PROVE  r.client \in Clients /\ r.geo \in Clients \cup {EcsGeo, None}
BY DEF Rows

\* A row inserted.
LEMMA NewRow ==
  ASSUME NEW c \in Clients, NEW g \in Clients \cup {EcsGeo, None}
  PROVE  LET r == [client |-> c, geo |-> g]
         IN  r \in Rows /\ r # None /\ r.client = c /\ r.geo = g
BY RecorderDBAssumption DEF Rows

\* An update by id changes the geo columns of the row, if it is there.
LEMMA Enriched ==
  ASSUME NEW t \in [Ids -> Rows], NEW i \in Ids, NEW c \in Clients
  PROVE  /\ Enrich(t, i, c) \in [Ids -> Rows]
         /\ \A k \in Ids : Enrich(t, i, c)[k] = None <=> t[k] = None
         /\ \A k \in Ids : k # i => Enrich(t, i, c)[k] = t[k]
         /\ t[i] # None => /\ Enrich(t, i, c)[i].client = t[i].client
                           /\ Enrich(t, i, c)[i].geo = c
<1>1. CASE t[i] = None
  BY <1>1 DEF Enrich
<1>2. CASE t[i] # None
  <2>1. t[i].client \in Clients /\ t[i] \in [client : Clients, geo : Clients \cup {EcsGeo, None}]
    BY <1>2 DEF Rows
  <2> DEFINE r == [client |-> t[i].client, geo |-> c]
  <2>2. r \in Rows /\ r # None /\ r.client = t[i].client /\ r.geo = c
    BY <2>1, NewRow
  <2>3. [t[i] EXCEPT !.geo = c] = r
    BY <2>1
  <2>4. Enrich(t, i, c) = [t EXCEPT ![i] = [t[i] EXCEPT !.geo = c]]
    BY <1>2 DEF Enrich
  <2> HIDE DEF r
  <2>5. Enrich(t, i, c) = [t EXCEPT ![i] = r]
    BY <2>3, <2>4
  <2> QED BY <1>2, <2>2, <2>5
<1> QED BY <1>1, <1>2

\* The rows of one insert, all under an id that no row has had.
LEMMA Inserted ==
  ASSUME TypeOK, Fresh, NEW c \in Clients, Insert(c)
  PROVE  /\ last' = last + 1 /\ last + 1 \in Ids
         /\ queries' \in [Ids -> Rows] /\ edns' \in [Ids -> Rows]
         /\ queries'[last + 1] # None /\ queries'[last + 1].client = c
         /\ queries'[last + 1].geo \in {None, EcsGeo, c}
         /\ c \in WithEcs => edns'[last + 1] # None
         /\ c \notin WithEcs => edns'[last + 1] = None
         /\ edns'[last + 1] # None => /\ edns'[last + 1].client = c
                                      /\ edns'[last + 1].geo \in {None, c}
         /\ \A k \in Ids : k # last + 1 => queries'[k] = queries[k] /\ edns'[k] = edns[k]
         /\ jobs' \subseteq jobs \cup {[id |-> last + 1, client |-> c]}
<1> DEFINE i == last + 1
<1>1. i \in Ids /\ last' = i /\ i > last /\ jobs' \subseteq jobs \cup {[id |-> i, client |-> c]}
  BY Distinct DEF Insert, NextId, TypeOK, Ids
<1>2. PICK g \in {None, c} \cup (IF c \in WithEcs THEN {EcsGeo} ELSE {}) :
        /\ queries' = [queries EXCEPT ![i] = [client |-> c, geo |-> g]]
        /\ edns' = IF c \in WithEcs
                   THEN [edns EXCEPT ![i] = [client |-> c, geo |-> IF g = EcsGeo THEN c ELSE None]]
                   ELSE edns
  BY DEF Insert, NextId
<1>3. g \in Clients \cup {EcsGeo, None} /\ g \in {None, EcsGeo, c}
  OBVIOUS
<1> DEFINE q == [client |-> c, geo |-> g]
           e == [client |-> c, geo |-> IF g = EcsGeo THEN c ELSE None]
<1>4. q \in Rows /\ q # None /\ q.client = c /\ q.geo = g
  BY <1>3, NewRow
<1>5. e \in Rows /\ e # None /\ e.client = c /\ e.geo \in {None, c}
  <2>1. (IF g = EcsGeo THEN c ELSE None) \in Clients \cup {EcsGeo, None}
    OBVIOUS
  <2> QED BY <2>1, NewRow
<1>6. edns[i] = None /\ queries \in [Ids -> Rows] /\ edns \in [Ids -> Rows]
  BY <1>1 DEF Fresh, TypeOK
<1> HIDE DEF q, e
<1>7. queries' = [queries EXCEPT ![i] = q]
      /\ edns' = IF c \in WithEcs THEN [edns EXCEPT ![i] = e] ELSE edns
  BY <1>2 DEF q, e
<1> HIDE DEF i
<1>8. /\ queries' \in [Ids -> Rows] /\ edns' \in [Ids -> Rows]
      /\ queries'[i] = q /\ edns'[i] = IF c \in WithEcs THEN e ELSE None
      /\ \A k \in Ids : k # i => queries'[k] = queries[k] /\ edns'[k] = edns[k]
  BY <1>1, <1>4, <1>5, <1>6, <1>7
<1>9. /\ queries'[i] # None /\ queries'[i].client = c
      /\ queries'[i].geo \in {None, EcsGeo, c}
      /\ c \in WithEcs => edns'[i] # None
      /\ c \notin WithEcs => edns'[i] = None
      /\ edns'[i] # None => /\ edns'[i].client = c
                                   /\ edns'[i].geo \in {None, c}
  BY <1>3, <1>4, <1>5, <1>8
<1> QED BY <1>1, <1>8, <1>9 DEF i

-----------------------------------------------------------------------------
(* Each action keeps the invariant.                                        *)

\* An insert disturbs nothing, if on SQLite no deletion is under way.
LEMMA InsertKeeps ==
  ASSUME IInv, NEW c \in Clients, Insert(c), UNCHANGED <<dbType, job, rpc, dpc, filter, doomed>>,
         UNCHANGED cleared, \A d \in Deleters : dbType = "sqlite" => dpc[d] = "idle"
  PROVE  /\ Deleting' /\ Fresh' /\ Retrying' /\ NoOrphanEdns' /\ EdnsKept' /\ UpdatesOwnRow'
         /\ queries' \in [Ids -> Rows] /\ edns' \in [Ids -> Rows] /\ last' \in 0 .. MaxId
         /\ jobs' \subseteq Jobs' /\ job' \in Jobs' \cup {None}
<1> USE Distinct DEF IInv
<1> DEFINE i == last + 1
<1>1. /\ last' = i /\ i \in Ids /\ i \in 1 .. i /\ i > last
      /\ queries' \in [Ids -> Rows] /\ edns' \in [Ids -> Rows]
      /\ queries'[i] # None /\ queries'[i].client = c
      /\ queries'[i].geo \in {None, EcsGeo, c}
      /\ c \in WithEcs => edns'[i] # None
      /\ c \notin WithEcs => edns'[i] = None
      /\ edns'[i] # None => edns'[i].client = c /\ edns'[i].geo \in {None, c}
      /\ \A k \in Ids : k # i => queries'[k] = queries[k] /\ edns'[k] = edns[k]
      /\ jobs' \subseteq jobs \cup {[id |-> i, client |-> c]}
  BY Inserted DEF Ids, TypeOK
<1>2. last \in 0 .. MaxId /\ last \in Nat /\ 1 .. last \subseteq 1 .. i /\ \A k \in 1 .. last : k # i /\ k \in Ids
  BY <1>1 DEF TypeOK, Ids
<1>3. [id |-> i, client |-> c] \in Jobs' /\ Jobs \subseteq Jobs'
  BY <1>1, <1>2 DEF Jobs
<1> HIDE DEF i
<1>4. Deleting'
  BY DEF Deleting
<1>5. Fresh'
  BY <1>1, <1>2 DEF Fresh, Ids
<1>6. Retrying'
  <2>1. \A j \in Jobs : OwnRows(j) => OwnRows(j)'
    BY <1>1, <1>2 DEF Jobs, OwnRows
  <2>2. \A j \in Jobs' : j.id = i /\ j.client = c => OwnRows(j)'
    BY <1>1 DEF OwnRows
  <2>3. \A j \in jobs' : OwnRows(j)'
    <3> SUFFICES ASSUME NEW j \in jobs' PROVE OwnRows(j)'
      OBVIOUS
    <3>1. CASE j \in jobs
      BY <2>1, <3>1 DEF Retrying, TypeOK
    <3>2. CASE j = [id |-> i, client |-> c]
      BY <1>3, <2>2, <3>2
    <3> QED BY <1>1, <3>1, <3>2
  <2>4. (rpc # "select" => job \in Jobs /\ OwnRows(job))'
    BY <1>3, <2>1 DEF Retrying
  <2> QED BY <2>3, <2>4 DEF Retrying
<1>7. NoOrphanEdns'
  BY <1>1 DEF NoOrphanEdns, AssociatedEdnsDeleted, Stored
<1>8. EdnsKept'
  BY <1>1 DEF EdnsKept, Stored
<1>9. UpdatesOwnRow'
  BY <1>1 DEF UpdatesOwnRow, Stored
<1>10. last' \in 0 .. MaxId /\ jobs' \subseteq Jobs' /\ job' \in Jobs' \cup {None}
  BY <1>1, <1>2, <1>3 DEF TypeOK, Ids
<1> QED BY <1>1, <1>4, <1>5, <1>6, <1>7, <1>8, <1>9, <1>10

\* The transaction takes the connection.
LEMMA BeginInsertIInv ==
  ASSUME IInv, NEW w \in Workers, NEW c \in Clients, BeginInsert(w, c)
  PROVE  IInv'
<1> USE Distinct DEF IInv, tables, retry, deletion, BeginInsert, Free
<1>1. TypeOK'
  BY DEF TypeOK, Jobs
<1>2. OneConnection'
  BY DEF TypeOK, OneConnection
<1>3. Deleting'
  BY DEF TypeOK, Deleting, EdnsOfMatching, MatchingQueries, Stored
<1>4. Fresh'
  BY DEF TypeOK, Fresh
<1>5. Retrying'
  BY DEF TypeOK, Retrying, OwnRows, Jobs
<1>6. NoOrphanEdns'
  BY DEF TypeOK, NoOrphanEdns, AssociatedEdnsDeleted, Stored
<1>7. EdnsKept'
  BY DEF TypeOK, EdnsKept, Stored
<1>8. UpdatesOwnRow'
  BY DEF TypeOK, UpdatesOwnRow, Stored
<1> QED BY <1>1, <1>2, <1>3, <1>4, <1>5, <1>6, <1>7, <1>8

\* Both rows or none.
LEMMA EndInsertIInv ==
  ASSUME IInv, NEW w \in Workers, EndInsert(w)
  PROVE  IInv'
<1> USE Distinct DEF IInv, tables, deletion
<1>1. /\ dbType = "sqlite" /\ conn = w /\ entry[w] \in Clients
      /\ \A v \in Workers : v # w => entry[v] = None
      /\ \A d \in Deleters : dpc[d] = "idle"
  BY DEF EndInsert, OneConnection, TypeOK
<1>2. /\ UNCHANGED <<dbType, job, rpc, dpc, filter, doomed, deletes, cleared>>
      /\ entry' = [entry EXCEPT ![w] = None] /\ conn' = None
  BY DEF EndInsert
<1>3. OneConnection'
  BY <1>1, <1>2 DEF OneConnection, TypeOK
<1>4. CASE Insert(entry[w])
  <2>1. /\ Deleting' /\ Fresh' /\ Retrying' /\ NoOrphanEdns' /\ EdnsKept' /\ UpdatesOwnRow'
        /\ queries' \in [Ids -> Rows] /\ edns' \in [Ids -> Rows] /\ last' \in 0 .. MaxId
        /\ jobs' \subseteq Jobs' /\ job' \in Jobs' \cup {None}
    BY <1>1, <1>2, <1>4, InsertKeeps
  <2>2. TypeOK'
    BY <1>1, <1>2, <2>1 DEF TypeOK
  <2> QED BY <1>3, <2>1, <2>2
<1>5. CASE UNCHANGED <<tables, jobs>>
  <2>1. TypeOK'
    BY <1>1, <1>2, <1>5 DEF TypeOK, Jobs
  <2>2. Deleting' /\ Fresh' /\ Retrying' /\ NoOrphanEdns' /\ EdnsKept' /\ UpdatesOwnRow'
    BY <1>1, <1>2, <1>5 DEF Deleting, Fresh, Retrying, OwnRows, Jobs, NoOrphanEdns,
       AssociatedEdnsDeleted, EdnsKept, UpdatesOwnRow, Stored
  <2> QED BY <1>3, <2>1, <2>2
<1> QED BY <1>4, <1>5 DEF EndInsert

\* On PostgreSQL a failed insert uses up its id.
LEMMA InsertStatementIInv ==
  ASSUME IInv, NEW c \in Clients, InsertStatement(c)
  PROVE  IInv'
<1> USE Distinct DEF IInv
<1>1. /\ dbType = "postgres" /\ dbType # "sqlite"
      /\ UNCHANGED <<dbType, conn, entry, job, rpc, dpc, filter, doomed, deletes, cleared>>
  BY DEF InsertStatement, deletion
<1>2. OneConnection'
  BY <1>1 DEF OneConnection
<1>3. CASE Insert(c)
  <2>1. /\ Deleting' /\ Fresh' /\ Retrying' /\ NoOrphanEdns' /\ EdnsKept' /\ UpdatesOwnRow'
        /\ queries' \in [Ids -> Rows] /\ edns' \in [Ids -> Rows] /\ last' \in 0 .. MaxId
        /\ jobs' \subseteq Jobs' /\ job' \in Jobs' \cup {None}
    BY <1>1, <1>3, InsertKeeps
  <2>2. TypeOK'
    BY <1>1, <2>1 DEF TypeOK
  <2> QED BY <1>2, <2>1, <2>2
<1>4. CASE NextId \in Ids /\ last' = NextId /\ UNCHANGED <<queries, edns, jobs>>
  <2>1. last' \in 0 .. MaxId /\ last \in Nat /\ last' = last + 1 /\ Jobs \subseteq Jobs'
    BY <1>4 DEF TypeOK, Ids, NextId, Jobs
  <2>2. TypeOK'
    BY <1>1, <1>4, <2>1 DEF TypeOK
  <2>3. Fresh'
    BY <1>4, <2>1 DEF Fresh, Ids
  <2>4. Retrying'
    BY <1>1, <1>4, <2>1 DEF Retrying, OwnRows
  <2>5. Deleting' /\ NoOrphanEdns' /\ EdnsKept' /\ UpdatesOwnRow'
    BY <1>1, <1>4 DEF Deleting, NoOrphanEdns, AssociatedEdnsDeleted, EdnsKept, UpdatesOwnRow,
       Stored
  <2> QED BY <1>2, <2>2, <2>3, <2>4, <2>5
<1> QED BY <1>3, <1>4 DEF InsertStatement

\* Nothing is deleted yet.
LEMMA BeginDeleteIInv ==
  ASSUME IInv, NEW d \in Deleters, NEW f \in Filters, BeginDelete(d, f)
  PROVE  IInv'
<1> USE Distinct DEF IInv, tables, retry, deletion, BeginDelete, Free, Take
<1>1. TypeOK'
  BY DEF TypeOK, Jobs
<1>2. OneConnection'
  BY DEF TypeOK, OneConnection
<1>3. Deleting'
  BY DEF TypeOK, Deleting, EdnsOfMatching, MatchingQueries, Stored
<1>4. Fresh'
  BY DEF TypeOK, Fresh
<1>5. Retrying'
  BY DEF TypeOK, Retrying, OwnRows, Jobs
<1>6. NoOrphanEdns'
  BY DEF TypeOK, NoOrphanEdns, AssociatedEdnsDeleted, Stored
<1>7. EdnsKept'
  BY DEF TypeOK, EdnsKept, Stored
<1>8. UpdatesOwnRow'
  BY DEF TypeOK, UpdatesOwnRow, Stored
<1> QED BY <1>1, <1>2, <1>3, <1>4, <1>5, <1>6, <1>7, <1>8

\* The first statement marks the edns rows of the matching queries.
LEMMA DeleteEdnsRowsIInv ==
  ASSUME IInv, NEW d \in Deleters, DeleteEdnsRows(d)
  PROVE  IInv'
<1> USE Distinct DEF IInv, tables, retry, deletion, DeleteEdnsRows
<1>1. TypeOK'
  <2>1. EdnsOfMatching(d) \in SUBSET Ids
    BY DEF EdnsOfMatching, MatchingQueries, Stored
  <2> DEFINE D == EdnsOfMatching(d)
  <2> HIDE DEF D
  <2>2. [doomed EXCEPT ![d].edns = D] \in [Deleters -> [queries : SUBSET Ids, edns : SUBSET Ids]]
    BY <2>1 DEF TypeOK, D
  <2>3. doomed' \in [Deleters -> [queries : SUBSET Ids, edns : SUBSET Ids]]
    BY <2>2 DEF D
  <2> QED BY <2>3 DEF TypeOK, Jobs
<1>2. OneConnection'
  BY DEF TypeOK, OneConnection
<1>3. Deleting'
  BY DEF TypeOK, Deleting, EdnsOfMatching, MatchingQueries, Stored
<1>4. Fresh'
  BY DEF TypeOK, Fresh
<1>5. Retrying'
  BY DEF TypeOK, Retrying, OwnRows, Jobs
<1>6. NoOrphanEdns'
  BY DEF TypeOK, NoOrphanEdns, AssociatedEdnsDeleted, Stored
<1>7. EdnsKept'
  BY DEF TypeOK, EdnsKept, Stored
<1>8. UpdatesOwnRow'
  BY DEF TypeOK, UpdatesOwnRow, Stored
<1> QED BY <1>1, <1>2, <1>3, <1>4, <1>5, <1>6, <1>7, <1>8

\* The second marks the matching queries.
LEMMA DeleteQueryRowsIInv ==
  ASSUME IInv, NEW d \in Deleters, DeleteQueryRows(d)
  PROVE  IInv'
<1> USE Distinct DEF IInv, tables, retry, deletion, DeleteQueryRows
<1>1. TypeOK'
  <2>1. MatchingQueries(d) \in SUBSET Ids
    BY DEF EdnsOfMatching, MatchingQueries, Stored
  <2> DEFINE D == MatchingQueries(d)
  <2> HIDE DEF D
  <2>2. [doomed EXCEPT ![d].queries = D] \in [Deleters -> [queries : SUBSET Ids, edns : SUBSET Ids]]
    BY <2>1 DEF TypeOK, D
  <2>3. doomed' \in [Deleters -> [queries : SUBSET Ids, edns : SUBSET Ids]]
    BY <2>2 DEF D
  <2> QED BY <2>3 DEF TypeOK, Jobs
<1>2. OneConnection'
  BY DEF TypeOK, OneConnection
<1>3. Deleting'
  BY DEF TypeOK, Deleting, EdnsOfMatching, MatchingQueries, Stored
<1>4. Fresh'
  BY DEF TypeOK, Fresh
<1>5. Retrying'
  BY DEF TypeOK, Retrying, OwnRows, Jobs
<1>6. NoOrphanEdns'
  BY DEF TypeOK, NoOrphanEdns, AssociatedEdnsDeleted, Stored
<1>7. EdnsKept'
  BY DEF TypeOK, EdnsKept, Stored
<1>8. UpdatesOwnRow'
  BY DEF TypeOK, UpdatesOwnRow, Stored
<1> QED BY <1>1, <1>2, <1>3, <1>4, <1>5, <1>6, <1>7, <1>8

\* On SQLite the rows that go are the matching ones of both tables.
LEMMA CommitDeleteIInv ==
  ASSUME IInv, NEW d \in Deleters, CommitDelete(d)
  PROVE  IInv'
<1> USE Distinct DEF IInv
<1> DEFINE dq == doomed[d].queries
           de == doomed[d].edns
<1>1. /\ UNCHANGED <<dbType, last, entry, jobs, job, rpc, deletes, cleared>>
      /\ dpc' = [dpc EXCEPT ![d] = "idle"] /\ filter' = [filter EXCEPT ![d] = None]
      /\ doomed' = [doomed EXCEPT ![d] = [queries |-> {}, edns |-> {}]] /\ conn' = None
      /\ dpc[d] = "commit"
  BY DEF CommitDelete, EndDelete, retry
<1>2. /\ queries' = [i \in Ids |-> IF i \in dq THEN None ELSE queries[i]]
      /\ edns' = [i \in Ids |-> IF i \in de THEN None ELSE edns[i]]
  BY DEF CommitDelete
<1>3. dbType = "sqlite" => /\ dq = MatchingQueries(d) /\ de = EdnsOfMatching(d)
                           /\ conn = d /\ \A o \in Deleters : o # d => dpc[o] = "idle"
  BY <1>1 DEF Deleting, OneConnection, TypeOK
<1> HIDE DEF dq, de
<1>4. /\ queries' \in [Ids -> Rows] /\ edns' \in [Ids -> Rows]
      /\ \A i \in Ids : queries'[i] = (IF i \in dq THEN None ELSE queries[i])
      /\ \A i \in Ids : edns'[i] = (IF i \in de THEN None ELSE edns[i])
  BY <1>2 DEF TypeOK, Rows
<1>5. TypeOK'
  <2>1. doomed' \in [Deleters -> [queries : SUBSET Ids, edns : SUBSET Ids]]
    <3>1. [queries |-> {}, edns |-> {}] \in [queries : SUBSET Ids, edns : SUBSET Ids]
      OBVIOUS
    <3> QED BY <1>1, <3>1 DEF TypeOK
  <2> QED BY <1>1, <1>4, <2>1 DEF TypeOK, Jobs
<1>6. OneConnection'
  BY <1>1, <1>3 DEF OneConnection, TypeOK
<1>7. Deleting'
  BY <1>1, <1>3 DEF Deleting, TypeOK
<1>8. Fresh'
  BY <1>1, <1>4 DEF Fresh
<1>9. Retrying'
  <2>1. \A j \in Jobs : j.id \in Ids
    BY DEF Jobs, TypeOK, Ids
  <2>2. Jobs' = Jobs
    BY <1>1 DEF Jobs
  <2>3. \A j \in Jobs : OwnRows(j) => OwnRows(j)'
    BY <1>4, <2>1 DEF OwnRows
  <2> QED BY <1>1, <2>2, <2>3 DEF Retrying, TypeOK
<1>10. NoOrphanEdns'
  <2> SUFFICES ASSUME dbType = "sqlite", NEW i \in Ids, edns'[i] # None PROVE queries'[i] # None
    BY <1>1 DEF NoOrphanEdns, AssociatedEdnsDeleted, Stored
  <2>1. i \notin de /\ edns[i] # None
    BY <1>4
  <2>2. queries[i] # None
    BY <2>1 DEF NoOrphanEdns, AssociatedEdnsDeleted, Stored
  <2>3. i \notin dq
    BY <1>3, <2>1, <2>2 DEF EdnsOfMatching, MatchingQueries, Stored
  <2> QED BY <1>4, <2>2, <2>3
<1>11. EdnsKept'
  <2> SUFFICES ASSUME dbType = "sqlite", NEW i \in Ids, queries'[i] # None,
                      queries'[i].client \in WithEcs, i \notin cleared
               PROVE  edns'[i] # None
    BY <1>1 DEF EdnsKept, Stored
  <2>1. i \notin dq /\ queries'[i] = queries[i]
    BY <1>4
  <2>2. edns[i] # None
    BY <2>1 DEF EdnsKept, Stored
  <2>3. i \notin de
    BY <1>3, <2>1 DEF EdnsOfMatching, MatchingQueries, Stored
  <2> QED BY <1>4, <2>2, <2>3
<1>12. UpdatesOwnRow'
  BY <1>4 DEF UpdatesOwnRow, Stored
<1> QED BY <1>5, <1>6, <1>7, <1>8, <1>9, <1>10, <1>11, <1>12

\* The tables stay as they are.
LEMMA RollbackDeleteIInv ==
  ASSUME IInv, NEW d \in Deleters, RollbackDelete(d)
  PROVE  IInv'
<1> USE Distinct DEF IInv, tables, retry, deletion, RollbackDelete, EndDelete
<1>1. TypeOK'
  BY DEF TypeOK, Jobs
<1>2. OneConnection'
  BY DEF TypeOK, OneConnection
<1>3. Deleting'
  BY DEF TypeOK, Deleting, EdnsOfMatching, MatchingQueries, Stored
<1>4. Fresh'
  BY DEF TypeOK, Fresh
<1>5. Retrying'
  BY DEF TypeOK, Retrying, OwnRows, Jobs
<1>6. NoOrphanEdns'
  BY DEF TypeOK, NoOrphanEdns, AssociatedEdnsDeleted, Stored
<1>7. EdnsKept'
  BY DEF TypeOK, EdnsKept, Stored
<1>8. UpdatesOwnRow'
  BY DEF TypeOK, UpdatesOwnRow, Stored
<1> QED BY <1>1, <1>2, <1>3, <1>4, <1>5, <1>6, <1>7, <1>8

\* The ids it clears are remembered.
LEMMA DeleteEDNSIInv ==
  ASSUME IInv, NEW f \in Filters, DeleteEDNS(f)
  PROVE  IInv'
<1> USE Distinct DEF IInv
<1> DEFINE hit == {i \in Stored(edns) : Matches(f, i, edns[i])}
<1>1. /\ UNCHANGED <<dbType, queries, last, conn, entry, jobs, job, rpc, dpc, filter, doomed>>
      /\ conn = None /\ deletes' = deletes + 1 /\ deletes < MaxDeletes
      /\ edns' = [i \in Ids |-> IF i \in hit THEN None ELSE edns[i]]
      /\ cleared' = cleared \cup hit /\ hit \subseteq Ids
  BY DEF DeleteEDNS, Free, retry, Stored
<1> HIDE DEF hit
<1>2. /\ edns' \in [Ids -> Rows]
      /\ \A i \in Ids : edns'[i] = (IF i \in hit THEN None ELSE edns[i])
  BY <1>1 DEF TypeOK, Rows
<1>3. dbType = "sqlite" => \A d \in Deleters : dpc[d] = "idle"
  BY <1>1 DEF OneConnection
<1>4. TypeOK'
  BY <1>1, <1>2 DEF TypeOK, Jobs
<1>5. OneConnection'
  BY <1>1 DEF OneConnection
<1>6. Deleting'
  BY <1>1, <1>3 DEF Deleting
<1>7. Fresh'
  BY <1>1, <1>2 DEF Fresh
<1>8. Retrying'
  <2>1. \A j \in Jobs : j.id \in Ids
    BY DEF Jobs, TypeOK, Ids
  <2>2. Jobs' = Jobs
    BY <1>1 DEF Jobs
  <2>3. \A j \in Jobs : OwnRows(j) => OwnRows(j)'
    BY <1>1, <1>2, <2>1 DEF OwnRows
  <2> QED BY <1>1, <2>2, <2>3 DEF Retrying, TypeOK
<1>9. NoOrphanEdns'
  BY <1>1, <1>2 DEF NoOrphanEdns, AssociatedEdnsDeleted, Stored
<1>10. EdnsKept'
  BY <1>1, <1>2 DEF EdnsKept, Stored
<1>11. UpdatesOwnRow'
  BY <1>1, <1>2 DEF UpdatesOwnRow, Stored
<1> QED BY <1>4, <1>5, <1>6, <1>7, <1>8, <1>9, <1>10, <1>11

\* The job keeps its rows.
LEMMA TakeJobIInv ==
  ASSUME IInv, NEW j \in jobs, TakeJob(j)
  PROVE  IInv'
<1> USE Distinct DEF IInv, tables, retry, deletion, TakeJob
<1>1. TypeOK'
  BY DEF TypeOK, Jobs
<1>2. OneConnection'
  BY DEF TypeOK, OneConnection
<1>3. Deleting'
  BY DEF TypeOK, Deleting, EdnsOfMatching, MatchingQueries, Stored
<1>4. Fresh'
  BY DEF TypeOK, Fresh
<1>5. Retrying'
  BY DEF TypeOK, Retrying, OwnRows, Jobs
<1>6. NoOrphanEdns'
  BY DEF TypeOK, NoOrphanEdns, AssociatedEdnsDeleted, Stored
<1>7. EdnsKept'
  BY DEF TypeOK, EdnsKept, Stored
<1>8. UpdatesOwnRow'
  BY DEF TypeOK, UpdatesOwnRow, Stored
<1> QED BY <1>1, <1>2, <1>3, <1>4, <1>5, <1>6, <1>7, <1>8

\* Nothing is written.
LEMMA GiveUpJobIInv ==
  ASSUME IInv, GiveUpJob
  PROVE  IInv'
<1> USE Distinct DEF IInv, tables, retry, deletion, GiveUpJob
<1>1. TypeOK'
  BY DEF TypeOK, Jobs
<1>2. OneConnection'
  BY DEF TypeOK, OneConnection
<1>3. Deleting'
  BY DEF TypeOK, Deleting, EdnsOfMatching, MatchingQueries, Stored
<1>4. Fresh'
  BY DEF TypeOK, Fresh
<1>5. Retrying'
  BY DEF TypeOK, Retrying, OwnRows, Jobs
<1>6. NoOrphanEdns'
  BY DEF TypeOK, NoOrphanEdns, AssociatedEdnsDeleted, Stored
<1>7. EdnsKept'
  BY DEF TypeOK, EdnsKept, Stored
<1>8. UpdatesOwnRow'
  BY DEF TypeOK, UpdatesOwnRow, Stored
<1> QED BY <1>1, <1>2, <1>3, <1>4, <1>5, <1>6, <1>7, <1>8

\* The row, if it is still there, is that of the job.
LEMMA UpdateQueriesIInv ==
  ASSUME IInv, UpdateQueries
  PROVE  IInv'
<1> USE Distinct DEF IInv
<1> DEFINE i == job.id
           c == job.client
<1>1. /\ UNCHANGED <<dbType, edns, last, conn, entry, jobs, dpc, filter, doomed, deletes, cleared>>
      /\ (rpc' = "select" /\ job' = None) \/ (rpc' = "edns" /\ UNCHANGED job)
      /\ conn = None /\ queries' = Enrich(queries, i, c) /\ rpc = "queries"
  <2>1. CASE job.client \in WithEcs
    BY <2>1 DEF UpdateQueries, Free, deletion
  <2>2. CASE job.client \notin WithEcs
    BY <2>2 DEF UpdateQueries, Free, deletion
  <2> QED BY <2>1, <2>2
<1>2. /\ i \in Ids /\ c \in Clients /\ job \in Jobs /\ OwnRows(job)
      /\ queries[i] # None => queries[i].client = c
  BY <1>1 DEF Retrying, TypeOK, Jobs, OwnRows, Ids
<1>3. dbType = "sqlite" => \A d \in Deleters : dpc[d] = "idle"
  BY <1>1 DEF OneConnection
<1> HIDE DEF i, c
<1>4. /\ queries' \in [Ids -> Rows]
      /\ \A k \in Ids : queries'[k] = None <=> queries[k] = None
      /\ \A k \in Ids : k # i => queries'[k] = queries[k]
      /\ queries[i] # None => queries'[i].client = queries[i].client
                        /\ queries'[i].geo \in {queries[i].geo, c}
  BY <1>1, <1>2, <1>3, Enriched DEF TypeOK
<1>5. TypeOK'
  BY <1>1, <1>4 DEF TypeOK, Jobs
<1>6. OneConnection'
  BY <1>1 DEF OneConnection
<1>7. Deleting'
  BY <1>1, <1>3 DEF Deleting, EdnsOfMatching, MatchingQueries, Stored
<1>8. Fresh'
  BY <1>1, <1>4 DEF Fresh
<1>9. Retrying'
  <2>1. \A j \in Jobs : j.id \in Ids
    BY DEF Jobs, TypeOK, Ids
  <2>2. Jobs' = Jobs
    BY <1>1 DEF Jobs
  <2>3. \A j \in Jobs : OwnRows(j) => OwnRows(j)'
    BY <1>1, <1>2, <1>4, <2>1 DEF OwnRows
  <2> QED BY <1>1, <2>2, <2>3 DEF Retrying, TypeOK
<1>10. NoOrphanEdns'
  BY <1>1, <1>4 DEF NoOrphanEdns, AssociatedEdnsDeleted, Stored
<1>11. EdnsKept'
  BY <1>1, <1>2, <1>4 DEF EdnsKept, Stored
<1>12. UpdatesOwnRow'
  BY <1>1, <1>2, <1>4 DEF UpdatesOwnRow, Stored
<1> QED BY <1>5, <1>6, <1>7, <1>8, <1>9, <1>10, <1>11, <1>12

\* So is the edns row.
LEMMA UpdateEdnsIInv ==
  ASSUME IInv, UpdateEdns
  PROVE  IInv'
<1> USE Distinct DEF IInv
<1> DEFINE i == job.id
           c == job.client
<1>1. /\ UNCHANGED <<dbType, queries, last, conn, entry, jobs, dpc, filter, doomed, deletes, cleared>>
      /\ rpc' = "select" /\ job' = None /\ rpc = "edns"
      /\ edns' = edns \/ (conn = None /\ edns' = Enrich(edns, i, c))
  BY DEF UpdateEdns, Free, deletion
<1>2. /\ i \in Ids /\ c \in Clients /\ job \in Jobs /\ OwnRows(job)
      /\ edns[i] # None => edns[i].client = c
  BY <1>1 DEF Retrying, TypeOK, Jobs, OwnRows, Ids
<1>3. dbType = "sqlite" /\ conn = None => \A d \in Deleters : dpc[d] = "idle"
  BY DEF OneConnection
<1> HIDE DEF i, c
<1>4. /\ edns' \in [Ids -> Rows]
      /\ \A k \in Ids : edns'[k] = None <=> edns[k] = None
      /\ \A k \in Ids : k # i => edns'[k] = edns[k]
      /\ edns[i] # None => edns'[i].client = edns[i].client
                        /\ edns'[i].geo \in {edns[i].geo, c}
  BY <1>1, <1>2, <1>3, Enriched DEF TypeOK
<1>5. TypeOK'
  BY <1>1, <1>4 DEF TypeOK, Jobs
<1>6. OneConnection'
  BY <1>1 DEF OneConnection
<1>7. Deleting'
  BY <1>1, <1>3 DEF Deleting, EdnsOfMatching, MatchingQueries, Stored
<1>8. Fresh'
  BY <1>1, <1>4 DEF Fresh
<1>9. Retrying'
  <2>1. \A j \in Jobs : j.id \in Ids
    BY DEF Jobs, TypeOK, Ids
  <2>2. Jobs' = Jobs
    BY <1>1 DEF Jobs
  <2>3. \A j \in Jobs : OwnRows(j) => OwnRows(j)'
    BY <1>1, <1>2, <1>4, <2>1 DEF OwnRows
  <2> QED BY <1>1, <2>2, <2>3 DEF Retrying, TypeOK
<1>10. NoOrphanEdns'
  BY <1>1, <1>4 DEF NoOrphanEdns, AssociatedEdnsDeleted, Stored
<1>11. EdnsKept'
  BY <1>1, <1>2, <1>4 DEF EdnsKept, Stored
<1>12. UpdatesOwnRow'
  BY <1>1, <1>2, <1>4 DEF UpdatesOwnRow, Stored
<1> QED BY <1>5, <1>6, <1>7, <1>8, <1>9, <1>10, <1>11, <1>12

-----------------------------------------------------------------------------
(* What follows.                                                           *)

\* The inductive invariant holds in every state: initially, and each action
\* keeps it.
THEOREM Inductive == Spec => []IInv
<1>1. Init => IInv
  <2> SUFFICES ASSUME Init PROVE IInv
    OBVIOUS
  <2>1. \A i \in Ids : queries[i] = None /\ edns[i] = None
    BY DEF Init
  <2>2. TypeOK
    BY Distinct DEF Init, TypeOK, Jobs, Rows
  <2>3. OneConnection /\ Deleting /\ Retrying
    BY Distinct DEF Init, OneConnection, Deleting, Retrying
  <2>4. Fresh /\ NoOrphanEdns /\ EdnsKept /\ UpdatesOwnRow
    BY <2>1 DEF Fresh, NoOrphanEdns, AssociatedEdnsDeleted, EdnsKept, UpdatesOwnRow, Stored
  <2> QED BY <2>2, <2>3, <2>4 DEF IInv
<1>2. IInv /\ [Next]_vars => IInv'
  <2> SUFFICES ASSUME IInv, [Next]_vars PROVE IInv'
    OBVIOUS
  <2>1. ASSUME NEW c \in Clients, InsertStatement(c) \/ \E w \in Workers : BeginInsert(w, c)
        PROVE  IInv'
    BY <2>1, InsertStatementIInv, BeginInsertIInv
  <2>2. ASSUME NEW w \in Workers, EndInsert(w) PROVE IInv'
    BY <2>2, EndInsertIInv
  <2>3. ASSUME NEW f \in Filters, DeleteEDNS(f) \/ \E d \in Deleters : BeginDelete(d, f)
        PROVE  IInv'
    BY <2>3, DeleteEDNSIInv, BeginDeleteIInv
  <2>4. ASSUME NEW d \in Deleters,
               DeleteEdnsRows(d) \/ DeleteQueryRows(d) \/ CommitDelete(d) \/ RollbackDelete(d)
        PROVE  IInv'
    BY <2>4, DeleteEdnsRowsIInv, DeleteQueryRowsIInv, CommitDeleteIInv, RollbackDeleteIInv
  <2>5. ASSUME NEW j \in jobs, TakeJob(j) PROVE IInv'
    BY <2>5, TakeJobIInv
  <2>6. CASE GiveUpJob \/ UpdateQueries \/ UpdateEdns
    BY <2>6, GiveUpJobIInv, UpdateQueriesIInv, UpdateEdnsIInv
  <2>7. CASE UNCHANGED vars
    BY <2>7 DEF vars, tables, retry, deletion, IInv, TypeOK, Jobs, OneConnection, Deleting,
       EdnsOfMatching, MatchingQueries, Fresh, Retrying, OwnRows, NoOrphanEdns,
       AssociatedEdnsDeleted, EdnsKept, UpdatesOwnRow, Stored
  <2> QED BY <2>1, <2>2, <2>3, <2>4, <2>5, <2>6, <2>7 DEF Next
<1> QED BY <1>1, <1>2, PTL DEF Spec

\* The tables, jobs and transactions keep their types; ids stay within the
\* counter.
THEOREM TypeCorrect == Spec => []TypeOK
<1>1. IInv => TypeOK
  BY DEF IInv
<1> QED BY <1>1, Inductive, PTL

\* For any number of inserts, deletions and retries at once: on SQLite no edns
\* row is without its query row (DeleteQueries in one transaction, SetMaxOpenConns(1)).
THEOREM DeletionTakesEdns == Spec => []NoOrphanEdns
<1>1. IInv => NoOrphanEdns
  BY DEF IInv
<1> QED BY <1>1, Inductive, PTL

\* On SQLite no query row loses its edns row but to DeleteEDNS
\* (insertOneSQLite and DeleteQueries write both or none).
THEOREM DeletionTakesNoMore == Spec => []EdnsKept
<1>1. IInv => EdnsKept
  BY DEF IInv
<1> QED BY <1>1, Inductive, PTL

\* On both databases a late retry writes to its own entry's rows or to none
\* (AUTOINCREMENT, BIGSERIAL: no id is given out twice).
THEOREM RetryHitsItsOwnRow == Spec => []UpdatesOwnRow
<1>1. IInv => UpdatesOwnRow
  BY DEF IInv
<1> QED BY <1>1, Inductive, PTL
=============================================================================
