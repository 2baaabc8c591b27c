-------------------------- MODULE QueryHandlerProofs --------------------------
(***************************************************************************)
(* Proofs about the DNS handler: whatever the zones, the questions and the *)
(* API's edits, a reply is the answer of one table for one country, and a  *)
(* recorded query has its country or is left to the recorder.  What        *)
(* Resolve and Message compute plays no part, so they stay unexpanded.     *)
(***************************************************************************)
EXTENDS QueryHandler, TLAPS

-----------------------------------------------------------------------------
(* The inductive invariant.                                                *)

\* Every query under way has seen the tables in force; it has no country
\* before a lookup, and a message only when it is done.
Underway ==
  \A h \in Handlers :
    /\ pc[h] # "idle" => [zones |-> zones, defaults |-> defaults] \in seen[h]
    /\ pc[h] \in {"idle", "resolve", "defer"} => country[h] = ""
    /\ pc[h] # "done" => reply[h] = None
    /\ pc[h] \notin {"write", "done"} => record[h] = None
    /\ pc[h] \in {"resolve", "client", "ecs", "reresolve", "defer", "record"} => query[h].kind = "in"

\* The answer in hand for the country in hand, from one table seen.
Answers(h, t) ==
  answer[h] = Resolve(t.zones, t.defaults, query[h].name, query[h].qtype, country[h])

Consistent ==
  \A h \in Handlers :
    /\ pc[h] \in {"defer", "record", "write", "done"} /\ query[h].kind = "in" =>
         \E t \in seen[h] : Answers(h, t)
    /\ reply[h] # None => reply[h] = Message(query[h], rcode[h], answer[h])

\* What marks a query: a lookup that failed, or that no lookup was made and the
\* first look said it would be recorded.
MarkedAt(h) ==
  /\ pc[h] \in {"ecs", "reresolve"} => client[h] # None
  /\ client[h] = None => ~failed[h]
  /\ client[h] # None => (geoFailed[h] <=> failed[h])
  /\ pc[h] \in {"idle", "resolve", "client", "defer"} => client[h] = None
  /\ pc[h] = "record" /\ client[h] = None /\ Recorded(h) =>
       geoFailed[h] \/ (answer[h] = None /\ switched[h])
  /\ record[h] # None => record[h].geoFailed = geoFailed[h]
  /\ record[h] # None /\ client[h] = None =>
       geoFailed[h] \/ (answer[h] = None /\ switched[h])

Marked == \A h \in Handlers : MarkedAt(h)

\* AnswerConsistent is Consistent at the end of a query, EnrichedOrDeferred is
\* Marked.
IInv == TypeOK /\ Underway /\ Consistent /\ Marked

\* What the proofs use of the assumption.
LEMMA Nils ==
  /\ None \notin Queries /\ None \notin Countries /\ None # ""
  /\ MaxEdits \in Nat /\ MaxQueries \in Nat
BY QueryHandlerAssumption, Zenon

\* The bounded counters stay within their bounds.
LEMMA Counting ==
  ASSUME NEW m \in Nat
  PROVE  0 \in 0 .. m /\ \A n \in 0 .. m : n < m => n + 1 \in 0 .. m
OBVIOUS

-----------------------------------------------------------------------------
(* Each action keeps the invariant.                                        *)

\* The tables in force when the query comes are seen.
LEMMA ReceiveIInv ==
  ASSUME IInv, NEW h \in Handlers, NEW q \in Queries, Receive(h, q)
  PROVE  IInv'
<1> USE Nils DEF IInv, tables, geo, past, output
<1> DEFINE now == [zones |-> zones, defaults |-> defaults]
           code == IF q.kind = "other" THEN "notimp" ELSE cfg.response
           next == IF q.kind = "in" THEN "resolve" ELSE "write"
<1>0. /\ pc[h] = "idle" /\ q # None
      /\ query' = [query EXCEPT ![h] = q] /\ rcode' = [rcode EXCEPT ![h] = code]
      /\ seen' = [seen EXCEPT ![h] = {now}] /\ pc' = [pc EXCEPT ![h] = next]
      /\ UNCHANGED <<zones, defaults, cfg, answer, country, geoFailed, client, failed, switched>>
      /\ UNCHANGED <<reply, record, edits>>
  BY DEF Receive, Goto
<1>b. asked' \in 0 .. MaxQueries
  BY Counting, Zenon DEF Receive, TypeOK
<1>c. next \in {"resolve", "write"} /\ (next = "resolve" <=> q.kind = "in")
  OBVIOUS
<1>a. code \in Responses \cup {"notimp"}
  <2>1. cfg \in [ttl : Nat, record : BOOLEAN, response : Responses]
    BY QueryHandlerAssumption, Zenon DEF TypeOK
  <2>2. cfg.response \in Responses
    BY <2>1, Zenon
  <2> QED BY <2>2
<1> HIDE DEF code, next
<1>1. TypeOK'
  BY <1>0, <1>a, <1>b, <1>c DEF TypeOK
<1>2. Underway'
  BY <1>0, <1>c DEF TypeOK, Underway
<1>3. Consistent'
  BY ZenonT(40), <1>0, <1>c DEF TypeOK, Underway, Consistent, Answers
<1>4. Marked'
  <2>1. SUFFICES ASSUME NEW g \in Handlers PROVE MarkedAt(g)'
    BY DEF Marked
  <2>2. CASE g = h
    <3>1. /\ pc'[h] \in {"resolve", "write"} /\ record'[h] = None
          /\ client'[h] = None /\ ~failed'[h]
      BY <1>0, <1>c DEF TypeOK, Underway, Marked, MarkedAt
    <3> QED BY <2>2, <3>1 DEF MarkedAt
  <2>3. CASE g # h
    <3>1. /\ pc'[g] = pc[g] /\ client'[g] = client[g] /\ failed'[g] = failed[g]
          /\ geoFailed'[g] = geoFailed[g] /\ record'[g] = record[g]
          /\ UNCHANGED <<cfg, answer, switched>>
      BY <1>0, <2>3 DEF TypeOK
    <3> QED BY <3>1 DEF Marked, MarkedAt, Recorded
  <2> QED BY <2>2, <2>3
<1> QED BY <1>1, <1>2, <1>3, <1>4

\* The answer is that of the tables in force, which are seen.
LEMMA FirstResolveIInv ==
  ASSUME IInv, NEW h \in Handlers, FirstResolve(h)
  PROVE  IInv'
<1> USE Nils DEF IInv, tables, geo, past, output, FirstResolve, Goto
<1>1. TypeOK'
  BY DEF TypeOK
<1>2. Underway'
  BY DEF TypeOK, Underway
<1>3. Consistent'
  <2>1. \A g \in Handlers \ {h} : \A t : Answers(g, t)' <=> Answers(g, t)
    BY DEF Answers, TypeOK
  <2>2. pc'[h] \in {"client", "defer"} /\ reply'[h] = None
    BY DEF TypeOK, Underway
  <2>3. pc'[h] = "defer" => \E t \in seen'[h] : Answers(h, t)'
    BY DEF TypeOK, Underway, Answers, ResolveNow
  <2>4. \A g \in Handlers \ {h} :
          /\ pc'[g] = pc[g] /\ answer'[g] = answer[g]
          /\ UNCHANGED <<query, rcode, reply, seen>>
    BY DEF TypeOK
  <2> QED BY <2>1, <2>2, <2>3, <2>4 DEF Consistent
<1>4. Marked'
  BY DEF TypeOK, Underway, Marked, MarkedAt, Recorded
<1> QED BY <1>1, <1>2, <1>3, <1>4

\* The country is known; the answer will be resolved again.
LEMMA LookupClientIInv ==
  ASSUME IInv, NEW h \in Handlers, LookupClient(h)
  PROVE  IInv'
<1> USE Nils DEF IInv, tables, geo, past, output
<1> DEFINE next == IF query[h].ecs THEN "ecs" ELSE "reresolve"
<1>0. /\ pc[h] = "client" /\ pc' = [pc EXCEPT ![h] = next] /\ next \in {"ecs", "reresolve"}
      /\ UNCHANGED <<zones, defaults, cfg, query, rcode, answer, seen, switched>>
      /\ UNCHANGED <<reply, record, edits, asked>>
  BY DEF LookupClient, Goto
<1>a. PICK cc \in Countries \cup {""}, f \in BOOLEAN :
        /\ country' = [country EXCEPT ![h] = cc] /\ client' = [client EXCEPT ![h] = cc]
        /\ geoFailed' = [geoFailed EXCEPT ![h] = f] /\ failed' = [failed EXCEPT ![h] = f]
  <2>1. PICK cc \in Countries \cup {""} :
          /\ country' = [country EXCEPT ![h] = cc] /\ client' = [client EXCEPT ![h] = cc]
          /\ \E f \in {FALSE} \cup {cc = ""} :
               /\ geoFailed' = [geoFailed EXCEPT ![h] = f]
               /\ failed' = [failed EXCEPT ![h] = f]
    BY Zenon DEF LookupClient
  <2>2. PICK f \in {FALSE} \cup {cc = ""} :
          geoFailed' = [geoFailed EXCEPT ![h] = f] /\ failed' = [failed EXCEPT ![h] = f]
    BY <2>1
  <2>3. f \in BOOLEAN
    OBVIOUS
  <2> QED BY <2>1, <2>2, <2>3
<1> HIDE DEF next
<1>1. TypeOK'
  BY <1>0, <1>a DEF TypeOK
<1>2. Underway'
  BY <1>0, <1>a DEF TypeOK, Underway
<1>3. Consistent'
  <2>1. \A g \in Handlers \ {h} : \A t : Answers(g, t)' <=> Answers(g, t)
    BY <1>0, <1>a DEF Answers, TypeOK
  <2> QED BY <1>0, <2>1 DEF TypeOK, Consistent
<1>4. Marked'
  <2>1. SUFFICES ASSUME NEW g \in Handlers PROVE MarkedAt(g)'
    BY DEF Marked
  <2>2. CASE g = h
    <3>1. pc'[h] \in {"ecs", "reresolve"} /\ record'[h] = None
      BY <1>0 DEF TypeOK, Underway
    <3>2. client'[h] # None /\ geoFailed'[h] = failed'[h]
      BY <1>a DEF TypeOK
    <3> QED BY <2>2, <3>1, <3>2 DEF MarkedAt
  <2>3. CASE g # h
    <3>1. /\ pc'[g] = pc[g] /\ client'[g] = client[g] /\ failed'[g] = failed[g]
          /\ geoFailed'[g] = geoFailed[g]
          /\ UNCHANGED <<cfg, answer, record, switched>>
      BY <1>0, <1>a, <2>3 DEF TypeOK
    <3> QED BY <3>1 DEF Marked, MarkedAt, Recorded
  <2> QED BY <2>2, <2>3
<1> QED BY <1>1, <1>2, <1>3, <1>4

\* Likewise with the country of the subnet.
LEMMA LookupEcsIInv ==
  ASSUME IInv, NEW h \in Handlers, LookupEcs(h)
  PROVE  IInv'
<1> USE Nils DEF IInv, tables, geo, past, output
<1>0. /\ pc[h] = "ecs" /\ pc' = [pc EXCEPT ![h] = "reresolve"]
      /\ \/ UNCHANGED <<geoFailed, failed>>
         \/ /\ geoFailed' = [geoFailed EXCEPT ![h] = TRUE]
            /\ failed' = [failed EXCEPT ![h] = TRUE]
      /\ UNCHANGED <<zones, defaults, cfg, query, rcode, answer, client, seen, switched>>
      /\ UNCHANGED <<reply, record, edits, asked>>
  BY DEF LookupEcs, Goto
<1>a. PICK cc \in Countries \cup {""} : country' = [country EXCEPT ![h] = cc]
  <2>1. country = [country EXCEPT ![h] = country[h]] /\ country[h] \in Countries \cup {""}
    BY DEF TypeOK
  <2> QED BY <2>1, Zenon DEF LookupEcs
<1>1. TypeOK'
  BY <1>0, <1>a DEF TypeOK
<1>2. Underway'
  BY <1>0, <1>a DEF TypeOK, Underway
<1>3. Consistent'
  <2>1. \A g \in Handlers \ {h} : \A t : Answers(g, t)' <=> Answers(g, t)
    BY <1>0, <1>a DEF Answers, TypeOK
  <2> QED BY <1>0, <2>1 DEF TypeOK, Consistent
<1>4. Marked'
  <2>1. SUFFICES ASSUME NEW g \in Handlers PROVE MarkedAt(g)'
    BY DEF Marked
  <2>2. CASE g = h
    <3>1. pc'[h] \in {"ecs", "reresolve"} /\ record'[h] = None
      BY <1>0 DEF TypeOK, Underway
    <3>2. MarkedAt(h) /\ client[h] # None
      BY <1>0 DEF Marked, MarkedAt
    <3>3. client'[h] # None /\ (geoFailed[h] <=> failed[h])
      BY <1>0, <3>2 DEF MarkedAt
    <3>4. \/ geoFailed' = geoFailed /\ failed' = failed
          \/ geoFailed'[h] = TRUE /\ failed'[h] = TRUE
      BY <1>0 DEF TypeOK
    <3>5. client'[h] # None /\ (geoFailed'[h] <=> failed'[h])
      BY <3>3, <3>4, Zenon
    <3> QED BY <2>2, <3>1, <3>5 DEF MarkedAt
  <2>3. CASE g # h
    <3>1. /\ pc'[g] = pc[g] /\ client'[g] = client[g] /\ failed'[g] = failed[g]
          /\ geoFailed'[g] = geoFailed[g]
          /\ UNCHANGED <<cfg, answer, record, switched>>
      BY <1>0, <1>a, <2>3 DEF TypeOK
    <3> QED BY <3>1 DEF Marked, MarkedAt, Recorded
  <2> QED BY <2>2, <2>3
<1> QED BY <1>1, <1>2, <1>3, <1>4

\* The answer is that of the tables in force, for the country looked up.
LEMMA ReresolveIInv ==
  ASSUME IInv, NEW h \in Handlers, Reresolve(h)
  PROVE  IInv'
<1> USE Nils DEF IInv, tables, geo, past, output, Reresolve, Goto
<1>1. TypeOK'
  BY DEF TypeOK
<1>2. Underway'
  BY DEF TypeOK, Underway
<1>3. Consistent'
  BY DEF TypeOK, Underway, Consistent, Answers, ResolveNow
<1>4. Marked'
  BY DEF TypeOK, Underway, Marked, MarkedAt, Recorded
<1> QED BY <1>1, <1>2, <1>3, <1>4

\* The answer stays.
LEMMA DeferIInv ==
  ASSUME IInv, NEW h \in Handlers, Defer(h)
  PROVE  IInv'
<1> USE Nils DEF IInv, tables, geo, past, output, Defer, Goto
<1>1. TypeOK'
  BY DEF TypeOK
<1>2. Underway'
  BY DEF TypeOK, Underway
<1>3. Consistent'
  BY ZenonT(40) DEF TypeOK, Underway, Consistent, Answers, ResolveNow
<1>4. Marked'
  <2>1. SUFFICES ASSUME NEW g \in Handlers PROVE MarkedAt(g)'
    BY DEF Marked
  <2>2. CASE g = h
    <3>1. MarkedAt(h) /\ client[h] = None /\ ~failed[h] /\ record[h] = None
      BY DEF TypeOK, Underway, Marked, MarkedAt
    <3>2. pc'[h] = "record" /\ UNCHANGED <<client, failed, record, cfg, answer>>
      BY DEF TypeOK
    <3>3. Recorded(h) => geoFailed'[h]
      BY DEF TypeOK
    <3> QED BY <2>2, <3>1, <3>2, <3>3 DEF MarkedAt, Recorded
  <2>3. CASE g # h
    <3>1. /\ pc'[g] = pc[g] /\ client'[g] = client[g] /\ failed'[g] = failed[g]
          /\ geoFailed'[g] = geoFailed[g] /\ record'[g] = record[g]
          /\ UNCHANGED <<cfg, answer, switched>>
      BY <2>3 DEF TypeOK
    <3> QED BY <3>1 DEF Marked, MarkedAt, Recorded
  <2> QED BY <2>2, <2>3
<1> QED BY <1>1, <1>2, <1>3, <1>4

\* The answer stays.
LEMMA RecordIInv ==
  ASSUME IInv, NEW h \in Handlers, Record(h)
  PROVE  IInv'
<1> USE Nils DEF IInv, tables, geo, past, output, Record, Goto
<1>1. TypeOK'
  BY DEF TypeOK
<1>2. Underway'
  <2>1. DOMAIN record' = Handlers /\ \A g \in Handlers \ {h} : record'[g] = record[g]
    BY ZenonT(40) DEF TypeOK
  <2> QED BY <2>1 DEF TypeOK, Underway
<1>3. Consistent'
  BY ZenonT(40) DEF TypeOK, Underway, Consistent, Answers, ResolveNow
<1>4. Marked'
  <2>1. SUFFICES ASSUME NEW g \in Handlers PROVE MarkedAt(g)'
    BY DEF Marked
  <2>2. CASE g = h
    <3>1. MarkedAt(h) /\ pc[h] = "record" /\ record[h] = None
      BY DEF TypeOK, Underway, Marked
    <3>2. pc'[h] = "write" /\ UNCHANGED <<client, failed, geoFailed, answer, switched>>
      BY DEF TypeOK
    <3>3. record'[h] # None => Recorded(h) /\ record'[h].geoFailed = geoFailed[h]
      BY <3>1 DEF TypeOK
    <3> QED BY <2>2, <3>1, <3>2, <3>3 DEF MarkedAt
  <2>3. CASE g # h
    <3>1. /\ pc'[g] = pc[g] /\ client'[g] = client[g] /\ failed'[g] = failed[g]
          /\ geoFailed'[g] = geoFailed[g] /\ record'[g] = record[g]
          /\ UNCHANGED <<cfg, answer, switched>>
      BY <2>3 DEF TypeOK
    <3> QED BY <3>1 DEF Marked, MarkedAt, Recorded
  <2> QED BY <2>2, <2>3
<1> QED BY <1>1, <1>2, <1>3, <1>4

\* The reply is made of the answer.
LEMMA WriteIInv ==
  ASSUME IInv, NEW h \in Handlers, Write(h)
  PROVE  IInv'
<1> USE Nils DEF IInv, tables, geo, past, output, Write, Goto
<1>1. TypeOK'
  BY DEF TypeOK
<1>2. Underway'
  BY DEF TypeOK, Underway
<1>3. Consistent'
  BY ZenonT(40) DEF TypeOK, Underway, Consistent, Answers, ResolveNow
<1>4. Marked'
  BY DEF TypeOK, Underway, Marked, MarkedAt, Recorded
<1> QED BY <1>1, <1>2, <1>3, <1>4

\* The handler is free again.
LEMMA FinishIInv ==
  ASSUME IInv, NEW h \in Handlers, Finish(h)
  PROVE  IInv'
<1> USE Nils DEF IInv, tables, geo, past, output, Finish, Goto
<1>1. TypeOK'
  BY DEF TypeOK
<1>2. Underway'
  BY DEF TypeOK, Underway
<1>3. Consistent'
  BY DEF TypeOK, Underway, Consistent, Answers, ResolveNow
<1>4. Marked'
  BY DEF TypeOK, Underway, Marked, MarkedAt, Recorded
<1> QED BY <1>1, <1>2, <1>3, <1>4

\* The new table is seen by all queries under way.
LEMMA EditZonesIInv ==
  ASSUME IInv, EditZones
  PROVE  IInv'
<1> USE Nils DEF IInv, tables, geo, past, output, EditZones, Witness
<1>1. TypeOK'
  <2>1. edits' \in 0 .. MaxEdits
    BY Counting, Zenon DEF TypeOK
  <2>2. cfg' \in ServerConfigs \cup {StartConfig} /\ DOMAIN seen' = Handlers
    BY Zenon DEF TypeOK
  <2> QED BY <2>1, <2>2 DEF TypeOK
<1>2. Underway'
  BY DEF TypeOK, Underway
<1>3. Consistent'
  <2>1. /\ UNCHANGED <<pc, query, rcode, answer, country, reply>>
        /\ \A h \in Handlers : pc[h] # "idle" => seen[h] \subseteq seen'[h]
    BY DEF TypeOK
  <2>2. \A h \in Handlers : \A t : Answers(h, t)' <=> Answers(h, t)
    BY <2>1 DEF Answers
  <2> QED BY <2>1, <2>2 DEF Consistent
<1>4. Marked'
  BY DEF TypeOK, Underway, Marked, MarkedAt, Recorded
<1> QED BY <1>1, <1>2, <1>3, <1>4

\* The tables stay.
LEMMA EditConfigIInv ==
  ASSUME IInv, EditConfig
  PROVE  IInv'
<1> USE Nils DEF IInv, tables, geo, past, output, EditConfig, Witness
<1>1. TypeOK'
  <2>1. edits' \in 0 .. MaxEdits
    BY Counting, Zenon DEF TypeOK
  <2>2. cfg' \in ServerConfigs \cup {StartConfig} /\ DOMAIN seen' = Handlers
    BY Zenon DEF TypeOK
  <2> QED BY <2>1, <2>2 DEF TypeOK
<1>2. Underway'
  BY DEF TypeOK, Underway
<1>3. Consistent'
  <2>1. /\ UNCHANGED <<pc, query, rcode, answer, country, reply>>
        /\ \A h \in Handlers : pc[h] # "idle" => seen[h] \subseteq seen'[h]
    BY DEF TypeOK
  <2>2. \A h \in Handlers : \A t : Answers(h, t)' <=> Answers(h, t)
    BY <2>1 DEF Answers
  <2> QED BY <2>1, <2>2 DEF Consistent
<1>4. Marked'
  BY DEF TypeOK, Underway, Marked, MarkedAt, Recorded
<1> QED BY <1>1, <1>2, <1>3, <1>4

\* The new defaults are seen by all queries under way.
LEMMA EditDefaultsIInv ==
  ASSUME IInv, EditDefaults
  PROVE  IInv'
<1> USE Nils DEF IInv, tables, geo, past, output, EditDefaults, Witness
<1>1. TypeOK'
  BY DEF TypeOK
<1>2. Underway'
  BY DEF TypeOK, Underway
<1>3. Consistent'
  <2>1. /\ UNCHANGED <<pc, query, rcode, answer, country, reply>>
        /\ \A h \in Handlers : pc[h] # "idle" => seen[h] \subseteq seen'[h]
    BY DEF TypeOK
  <2>2. \A h \in Handlers : \A t : Answers(h, t)' <=> Answers(h, t)
    BY <2>1 DEF Answers
  <2> QED BY <2>1, <2>2 DEF Consistent
<1>4. Marked'
  BY DEF TypeOK, Underway, Marked, MarkedAt, Recorded
<1> QED BY <1>1, <1>2, <1>3, <1>4

\* No query is under way at the start.
LEMMA InitIInv == Init => IInv
<1> SUFFICES ASSUME Init PROVE IInv
  OBVIOUS
<1> USE Nils DEF Init
<1>1. TypeOK
  <2>1. edits \in 0 .. MaxEdits /\ asked \in 0 .. MaxQueries
    BY Counting, Zenon
  <2>2. cfg \in ServerConfigs \cup {StartConfig}
    BY Zenon
  <2> QED BY <2>1, <2>2 DEF TypeOK
<1>2. Underway /\ Consistent /\ Marked
  BY DEF Underway, Consistent, Marked, MarkedAt
<1> QED BY <1>1, <1>2 DEF IInv

\* A step that changes no variable.
LEMMA StutterIInv ==
  ASSUME IInv, UNCHANGED vars
  PROVE  IInv'
<1> USE DEF IInv, vars, tables, geo, past, output
<1>1. TypeOK' /\ Underway'
  BY DEF TypeOK, Underway
<1>2. Consistent'
  BY DEF Consistent, Answers
<1>3. Marked'
  BY DEF Marked, MarkedAt, Recorded
<1> QED BY <1>1, <1>2, <1>3

-----------------------------------------------------------------------------
(* The theorems.                                                           *)

\* The invariant holds in every reachable state.
THEOREM Inductive == Spec => []IInv
<1>1. IInv /\ [Next]_vars => IInv'
  BY ReceiveIInv, FirstResolveIInv, LookupClientIInv, LookupEcsIInv, ReresolveIInv, DeferIInv,
     RecordIInv, WriteIInv, FinishIInv, EditZonesIInv, EditConfigIInv, EditDefaultsIInv,
     StutterIInv DEF Next, Serve
<1> QED BY InitIInv, <1>1, PTL DEF Spec

\* Every variable keeps its type.
THEOREM TypeCorrect == Spec => []TypeOK
<1>1. IInv => TypeOK
  BY DEF IInv
<1> QED BY Inductive, <1>1, PTL

\* A reply is the answer of one table in force while the query ran, for one
\* country (ServeDNS, which resolves twice and holds the lock for each alone).
THEOREM RepliesAreConsistent == Spec => []AnswerConsistent
<1>1. IInv => AnswerConsistent
  <2>1. SUFFICES ASSUME IInv, NEW h \in Handlers, reply[h] # None, query[h].kind = "in"
                 PROVE  \E t \in seen[h] :
                          Answers(h, t) /\ reply[h] = Message(query[h], rcode[h], answer[h])
    BY DEF AnswerConsistent, Answers
  <2>2. pc[h] = "done"
    BY <2>1 DEF IInv, Underway
  <2> QED BY <2>1, <2>2 DEF IInv, Consistent
<1> QED BY Inductive, <1>1, PTL

\* A recorded query has been looked up without failure or is left to the recorder,
\* and not both, whatever the API switches: but for one recorded by default that
\* was switched on between the two looks (ServeDNS).
THEOREM RecordedIsEnriched == Spec => []EnrichedOrDeferred
<1>1. IInv => EnrichedOrDeferred
  BY DEF IInv, TypeOK, Marked, MarkedAt, EnrichedOrDeferred, Excused
<1> QED BY Inductive, <1>1, PTL
=============================================================================
