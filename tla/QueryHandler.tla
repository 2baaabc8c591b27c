----------------------------- MODULE QueryHandler -----------------------------
(***************************************************************************)
(* The DNS handler (src/src/handler/dns.go): ServeDNS resolves a question  *)
(* without a country, asks GeoIP only when the zone it found routes by     *)
(* country, resolves again, records the query and replies.  Queries run    *)
(* concurrently, and the API edits the zone table and the defaults between *)
(* any two of their steps; only a call of Resolve holds the read lock.     *)
(*                                                                         *)
(* GeoIP answers any country, no country (""), or an error (GeoCache.tla); *)
(* what happens to a recorded entry is in Recorder.tla.                    *)
(***************************************************************************)
EXTENDS Zones

CONSTANTS
  Handlers,     \* goroutines serving a query
  Queries,      \* messages: [kind, name, qtype, ecs]; kind "in", "other" for another
                \* class, or "empty" for no question; ecs: carries a valid subnet
  Countries,    \* country codes of GeoIP
  HasGeo,       \* h.geo # nil
  HasRecorder,  \* h.recorder # nil
  StartZones,   \* the zone table at first
  StartConfig,  \* Config.Server at first: [ttl, record, response]
  ZoneConfigs,  \* zone configurations the API may store
  ServerConfigs,\* server configurations the API may set
  MaxEdits,     \* bound of the model: edits of the API
  MaxQueries    \* bound of the model: queries

\* The default responses that updateServerConfig and the store accept.
Responses == {"refuse", "nxdomain", "servfail"}

ASSUME QueryHandlerAssumption ==
  /\ None \notin Queries /\ None \notin Countries /\ None # ""
  /\ HasGeo \in BOOLEAN /\ HasRecorder \in BOOLEAN
  /\ ServerConfigs \cup {StartConfig} \subseteq
       [ttl : Nat, record : BOOLEAN, response : Responses]
  /\ MaxEdits \in Nat /\ MaxQueries \in Nat

VARIABLES
  zones,     \* Resolver.zones
  defaults,  \* Resolver.defaults
  cfg,       \* Config.Server, read without a lock
  pc,        \* program point of each query
  query,     \* the question, or None
  rcode,     \* the response code prepared for it
  answer,    \* answer: what the last Resolve returned
  country,   \* countryCode
  geoFailed, \* geoFailed || ednsGeoFailed
  client,    \* history: what GeoIP said of the client's address; None if not asked
  failed,    \* history: a lookup for it returned an error
  seen,      \* history: the tables in force while the query ran
  switched,  \* history: default_record was switched on between its two reads
  reply,     \* the message written, or None
  record,    \* the entry handed to Enqueue, or None
  edits, asked \* numbers of edits and queries so far

tables == <<zones, defaults, cfg>>
geo    == <<country, geoFailed, client, failed>>
past   == <<seen, switched>>
output == <<reply, record>>
vars   == <<tables, pc, query, rcode, answer, geo, past, output, edits, asked>>

ResolverDefaults(c) == [ttl |-> c.ttl, record |-> c.record]

Init ==
  /\ zones = StartZones /\ cfg = StartConfig /\ defaults = ResolverDefaults(StartConfig)
  /\ pc = [h \in Handlers |-> "idle"]
  /\ query = [h \in Handlers |-> None]
  /\ rcode = [h \in Handlers |-> None]
  /\ answer = [h \in Handlers |-> None]
  /\ country = [h \in Handlers |-> ""]
  /\ geoFailed = [h \in Handlers |-> FALSE]
  /\ client = [h \in Handlers |-> None]
  /\ failed = [h \in Handlers |-> FALSE]
  /\ seen = [h \in Handlers |-> {}]
  /\ switched = [h \in Handlers |-> FALSE]
  /\ reply = [h \in Handlers |-> None]
  /\ record = [h \in Handlers |-> None]
  /\ edits = 0 /\ asked = 0

Goto(h, p) == pc' = [pc EXCEPT ![h] = p]

-----------------------------------------------------------------------------
(* ServeDNS.                                                               *)

\* defaultRcode is read first; no question, or another class than IN, ends it.
Receive(h, q) ==
  /\ pc[h] = "idle" /\ asked < MaxQueries
  /\ asked' = asked + 1
  /\ query' = [query EXCEPT ![h] = q]
  /\ rcode' = [rcode EXCEPT ![h] = IF q.kind = "other" THEN "notimp" ELSE cfg.response]
  /\ seen' = [seen EXCEPT ![h] = {[zones |-> zones, defaults |-> defaults]}]
  /\ Goto(h, IF q.kind = "in" THEN "resolve" ELSE "write")
  /\ UNCHANGED <<tables, answer, geo, switched, output, edits>>

ResolveNow(h, cc) == Resolve(zones, defaults, query[h].name, query[h].qtype, cc)

\* Resolve with no country: is a lookup needed before the answer is known?
FirstResolve(h) ==
  /\ pc[h] = "resolve"
  /\ answer' = [answer EXCEPT ![h] = ResolveNow(h, "")]
  /\ Goto(h, IF answer'[h] # None /\ ~answer'[h].fastOpen /\ HasGeo THEN "client" ELSE "defer")
  /\ UNCHANGED <<tables, query, rcode, geo, past, output, edits, asked>>

\* Lookup of the client's address.
LookupClient(h) ==
  /\ pc[h] = "client"
  /\ \E cc \in Countries \cup {""} :
       /\ country' = [country EXCEPT ![h] = cc]
       /\ client' = [client EXCEPT ![h] = cc]
       /\ \E f \in {FALSE} \cup {cc = ""} :
            /\ geoFailed' = [geoFailed EXCEPT ![h] = f]
            /\ failed' = [failed EXCEPT ![h] = f]
  /\ Goto(h, IF query[h].ecs THEN "ecs" ELSE "reresolve")
  /\ UNCHANGED <<tables, query, rcode, answer, past, output, edits, asked>>

\* Faulty variant: the second lookup overwrites the mark of the first.
LookupEcsOverwrites(h) ==
  /\ pc[h] = "ecs"
  /\ \/ /\ \E cc \in Countries \cup {""} : country' = [country EXCEPT ![h] = cc]
        /\ geoFailed' = [geoFailed EXCEPT ![h] = FALSE]
        /\ UNCHANGED failed
     \/ /\ geoFailed' = [geoFailed EXCEPT ![h] = TRUE]
        /\ failed' = [failed EXCEPT ![h] = TRUE]
        /\ UNCHANGED country
  /\ Goto(h, "reresolve")
  /\ UNCHANGED <<tables, query, rcode, answer, client, past, output, edits, asked>>

\* Lookup of the EDNS subnet: a success replaces the client's country, even
\* by no country, and leaves the mark of a lookup that failed.
LookupEcs(h) ==
  /\ pc[h] = "ecs"
  /\ \/ /\ \E cc \in Countries \cup {""} : country' = [country EXCEPT ![h] = cc]
        /\ UNCHANGED <<geoFailed, failed>>
     \/ /\ geoFailed' = [geoFailed EXCEPT ![h] = TRUE]
        /\ failed' = [failed EXCEPT ![h] = TRUE]
        /\ UNCHANGED country
  /\ Goto(h, "reresolve")
  /\ UNCHANGED <<tables, query, rcode, answer, client, past, output, edits, asked>>

\* Faulty variant: the answer of the first Resolve is kept.
KeepFirstAnswer(h) ==
  /\ pc[h] = "reresolve"
  /\ Goto(h, "record")
  /\ UNCHANGED <<tables, query, rcode, answer, geo, past, output, edits, asked>>

\* Resolve with the country.
Reresolve(h) ==
  /\ pc[h] = "reresolve"
  /\ answer' = [answer EXCEPT ![h] = ResolveNow(h, country[h])]
  /\ Goto(h, "record")
  /\ UNCHANGED <<tables, query, rcode, geo, past, output, edits, asked>>

\* The zone, or with no zone the configuration, wants the query recorded.
Recorded(h) == IF answer[h] # None THEN answer[h].record ELSE cfg.record

\* No lookup for the answer: one that is to be recorded is left to the recorder.
Defer(h) ==
  /\ pc[h] = "defer"
  /\ geoFailed' = IF Recorded(h) THEN [geoFailed EXCEPT ![h] = TRUE] ELSE geoFailed
  /\ Goto(h, "record")
  /\ UNCHANGED <<tables, query, rcode, answer, country, client, failed, past, output, edits, asked>>

\* Enqueue, by a second look at the configuration if no zone answers.
Record(h) ==
  /\ pc[h] = "record"
  /\ record' = IF HasRecorder /\ Recorded(h)
               THEN [record EXCEPT ![h] = [country |-> country[h], geoFailed |-> geoFailed[h]]]
               ELSE record
  /\ Goto(h, "write")
  /\ UNCHANGED <<tables, query, rcode, answer, geo, past, reply, edits, asked>>

\* The message for an answer: records, or NODATA with the zone's SOA; with
\* no zone, the default response.
Message(q, code, a) ==
  IF a = None THEN [rcode |-> code, records |-> {}, soa |-> "none", ttl |-> 0]
  ELSE [rcode |-> "success", records |-> a.records, ttl |-> a.ttl,
        soa |-> IF a.records # {} THEN "none"
                ELSE IF q.qtype = "SOA" THEN "answer" ELSE "authority"]

Write(h) ==
  /\ pc[h] = "write"
  /\ reply' = [reply EXCEPT ![h] = Message(query[h], rcode[h], answer[h])]
  /\ Goto(h, "done")
  /\ UNCHANGED <<tables, query, rcode, answer, geo, past, record, edits, asked>>

Finish(h) ==
  /\ pc[h] = "done"
  /\ Goto(h, "idle")
  /\ query' = [query EXCEPT ![h] = None]
  /\ rcode' = [rcode EXCEPT ![h] = None]
  /\ answer' = [answer EXCEPT ![h] = None]
  /\ country' = [country EXCEPT ![h] = ""]
  /\ geoFailed' = [geoFailed EXCEPT ![h] = FALSE]
  /\ client' = [client EXCEPT ![h] = None]
  /\ failed' = [failed EXCEPT ![h] = FALSE]
  /\ seen' = [seen EXCEPT ![h] = {}]
  /\ switched' = [switched EXCEPT ![h] = FALSE]
  /\ reply' = [reply EXCEPT ![h] = None]
  /\ record' = [record EXCEPT ![h] = None]
  /\ UNCHANGED <<tables, edits, asked>>

Serve(h) ==
  \/ \E q \in Queries : Receive(h, q)
  \/ FirstResolve(h) \/ LookupClient(h) \/ LookupEcs(h) \/ Reresolve(h)
  \/ Defer(h) \/ Record(h) \/ Write(h) \/ Finish(h)

-----------------------------------------------------------------------------
(* The API: an edit of the table, a field of the configuration, and the    *)
(* defaults of the resolver after it (ApiServer.tla has the handlers).     *)

Witness ==
  /\ seen' = [h \in Handlers |->
       IF query[h] = None THEN {} ELSE seen[h] \cup {[zones |-> zones', defaults |-> defaults']}]
  /\ switched' = [h \in Handlers |->
       switched[h] \/ (pc[h] = "record" /\ cfg'.record /\ ~cfg.record)]

EditZones ==
  /\ edits < MaxEdits
  /\ edits' = edits + 1
  /\ \E p \in Patterns :
       \/ \E c \in ZoneConfigs : zones' = UpsertZone(zones, p, c)
       \/ zones' = RemoveZone(zones, p)
  /\ UNCHANGED <<defaults, cfg, pc, query, rcode, answer, geo, output, asked>>
  /\ Witness

EditConfig ==
  /\ edits < MaxEdits
  /\ edits' = edits + 1
  /\ cfg' \in ServerConfigs
  /\ UNCHANGED <<zones, defaults, pc, query, rcode, answer, geo, output, asked>>
  /\ Witness

EditDefaults ==
  /\ defaults # ResolverDefaults(cfg)
  /\ defaults' = ResolverDefaults(cfg)
  /\ UNCHANGED <<zones, cfg, pc, query, rcode, answer, geo, output, edits, asked>>
  /\ Witness

Next == (\E h \in Handlers : Serve(h)) \/ EditZones \/ EditConfig \/ EditDefaults

Spec == Init /\ [][Next]_vars

-----------------------------------------------------------------------------
(* What the handler promises.                                              *)

TypeOK ==
  /\ edits \in 0 .. MaxEdits /\ asked \in 0 .. MaxQueries
  /\ cfg \in ServerConfigs \cup {StartConfig}
  /\ pc \in [Handlers -> {"idle", "resolve", "client", "ecs", "reresolve", "defer",
                          "record", "write", "done"}]
  /\ query \in [Handlers -> Queries \cup {None}]
  /\ \A h \in Handlers : query[h] = None <=> pc[h] = "idle"
  /\ rcode \in [Handlers -> Responses \cup {"notimp", None}]
  /\ country \in [Handlers -> Countries \cup {""}]
  /\ client \in [Handlers -> Countries \cup {"", None}]
  /\ geoFailed \in [Handlers -> BOOLEAN] /\ failed \in [Handlers -> BOOLEAN]
  /\ switched \in [Handlers -> BOOLEAN]
  /\ DOMAIN answer = Handlers /\ DOMAIN seen = Handlers
  /\ DOMAIN reply = Handlers /\ DOMAIN record = Handlers

\* A reply is the answer of one table that was in force while the query ran,
\* for the country that was looked up: never the zone of one table with the
\* section of another, however the API edits between the two Resolves.
AnswerConsistent ==
  \A h \in Handlers :
    reply[h] # None /\ query[h].kind = "in" =>
      \E t \in seen[h] :
        reply[h] = Message(query[h], rcode[h],
                     Resolve(t.zones, t.defaults, query[h].name, query[h].qtype, country[h]))

\* ServeDNS looks at default_record twice for a name with no zone, to mark the
\* query and to record it: what was switched on in between is not marked.
Excused(h) == client[h] = None /\ answer[h] = None /\ switched[h]

\* A query is recorded with the mark for the recorder to look it up exactly if it
\* was not looked up here, or a lookup failed, the client's or the EDNS subnet's:
\* none is enriched for nothing, and none is left without its country, but for
\* what Excused says (ServeDNS, dns.go:91-141).
EnrichedOrDeferred ==
  \A h \in Handlers :
    record[h] # None /\ ~Excused(h) =>
      (record[h].geoFailed <=> client[h] = None \/ failed[h])

\* "The recorder enriches this entry asynchronously after it has been persisted"
\* (dns.go:116): every recorded query that was not looked up is marked.
AlwaysDeferred ==
  \A h \in Handlers :
    record[h] # None => client[h] # None \/ record[h].geoFailed

\* "country_code: Client-IP country code" (API_EN.md:144): the recorded
\* country is the client's, not the EDNS subnet's.
RecordsClientCountry ==
  \A h \in Handlers :
    record[h] # None /\ client[h] # None => record[h].country = client[h]

\* "CNAME cannot coexist with other record types" (resolver.go:577): a
\* section the API accepted answers an alias alone.
AliasAlone ==
  \A i \in DOMAIN zones : \A cc \in DOMAIN zones[i].config.countries :
    LET rs == zones[i].config.countries[cc] IN
    BuildRRs("CNAME", rs) # {} => BuildRRs("A", rs) \subseteq BuildRRs("CNAME", rs)

=============================================================================
