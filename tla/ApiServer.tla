------------------------------- MODULE ApiServer -------------------------------
(***************************************************************************)
(* The control plane: the handlers of the HTTP API that change zones and   *)
(* defaults (src/src/api/server.go), the resolver they edit                *)
(* (resolver.go), the shared *config.Config, and dns_data.db               *)
(* (src/src/dnsdata/store.go), from which a restarted process loads        *)
(* everything (src/src/main.go).                                           *)
(*                                                                         *)
(* net/http runs each request on its own goroutine; no lock spans a        *)
(* request.  One call that locks the resolver, one field write of the      *)
(* configuration, one transaction of the store is one step; the fields a   *)
(* call takes as its arguments are read in one.  A request that is refused *)
(* before it touches shared state (bad JSON, bad records, a pattern that   *)
(* does not compile) is not modelled as a step.                            *)
(***************************************************************************)
EXTENDS Zones

CONSTANTS
  Configs,       \* the values of a ZoneConfig
  Handlers,      \* goroutines serving requests; more than one may run at once
  Requests,      \* the requests clients may send (see Zone and Defaults requests)
  BootZones,     \* what dns_data.db holds at first: a map of zones
  BootDefaults,  \* and the defaults: [ttl, record, response]
  SaveMayFail,   \* whether a SaveSnapshot may return an error
  MaxRequests,   \* bound of the model: requests served in all
  MaxRestarts    \* bound of the model: restarts of the process

(* A zone request is [op, pattern, config] with op "upsert", [op, pattern]  *)
(* with op "delete", or [op, pattern, country] with op "country"; a         *)
(* defaults request is [op, ttl, response, record] with op "defaults", an   *)
(* absent field being None, and response "bad" for a value that is none of  *)
(* the three.                                                               *)
ZoneRequest(r) ==
  /\ r.op \in {"upsert", "delete", "country"}
  /\ r.pattern \in Patterns
  /\ r.op = "upsert" => r.config \in Configs

Responses == {"refuse", "nxdomain", "servfail"}

DefaultsRequest(r) ==
  /\ r.op = "defaults"
  /\ r.ttl \in (Nat \ {0}) \cup {None}
  /\ r.response \in Responses \cup {"bad", None}
  /\ r.record \in BOOLEAN \cup {None}

ServerDefaults == [ttl : Nat \ {0}, record : BOOLEAN, response : Responses]

\* What DumpZones returns and the zones bucket holds; the arguments of
\* SaveSnapshot, which the store holds; those of UpdateDefaults.
ZoneMaps  == UNION {[S -> Configs] : S \in SUBSET Patterns}
Snapshots == [defaults : ServerDefaults, zones : ZoneMaps]
Fallbacks == [ttl : Nat \ {0}, record : BOOLEAN]
Tables    == Seq([pattern : Patterns, config : Configs])
States    == [zones : Tables, defaults : Fallbacks, cfg : ServerDefaults, store : Snapshots]

ASSUME ApiServerAssumption ==
  /\ \A c \in Configs : \A cc \in DOMAIN c.countries \ {"default"} :
       WithoutCountry(c, cc) \in Configs
  /\ \A r \in Requests : ZoneRequest(r) \/ DefaultsRequest(r)
  /\ None \notin Configs \cup Requests \cup ServerDefaults
  /\ BootZones \in ZoneMaps /\ BootDefaults \in ServerDefaults
  /\ MaxRequests \in Nat /\ MaxRestarts \in Nat

VARIABLES
  zones,     \* Resolver.zones
  defaults,  \* Resolver.defaults
  cfg,       \* Config.Server: DefaultTTL, DefaultRecord, DefaultResponse
  cfgZones,  \* Config.Zones
  store,     \* dns_data.db: the committed defaults and zones
  pc,        \* program point of each handler
  req,       \* its request
  previous,  \* its copy of the zone, or of the defaults, before the change
  applied,   \* history: what its edit made of the zone; None for no zone
  dumped,    \* the map DumpZones returned to it
  snap,      \* the arguments of its SaveSnapshot, or of UpdateDefaults
  status,    \* the status code it will answer
  before,    \* history: what was in force when its request began, while alone
  alone,     \* history: no other request has run beside it
  mixed,     \* history: two requests of this process have overlapped
  halfway,   \* history: a PUT of this process was refused, its TTL assigned
  promised,  \* history: acknowledged values of zones, not overwritten since
  served,    \* number of requests so far
  restarts   \* number of restarts so far

resolver == <<zones, defaults>>
config   == <<cfg, cfgZones>>
locals   == <<req, previous, applied, dumped, snap, status>>
overlap  == <<alone, mixed>>
bounds   == <<before, halfway, overlap, served, restarts>>
vars     == <<resolver, config, store, pc, locals, promised, bounds>>

ResolverDefaults(d) == [ttl |-> d.ttl, record |-> d.record]

Init ==
  /\ zones = LoadZones(BootZones)
  /\ defaults = ResolverDefaults(BootDefaults)
  /\ cfg = BootDefaults
  /\ cfgZones = BootZones
  /\ store = [defaults |-> BootDefaults, zones |-> BootZones]
  /\ pc = [h \in Handlers |-> "idle"]
  /\ req = [h \in Handlers |-> None]
  /\ previous = [h \in Handlers |-> None]
  /\ applied = [h \in Handlers |-> None]
  /\ dumped = [h \in Handlers |-> None]
  /\ snap = [h \in Handlers |-> None]
  /\ status = [h \in Handlers |-> None]
  /\ before = [h \in Handlers |-> None]
  /\ alone = [h \in Handlers |-> TRUE] /\ mixed = FALSE /\ halfway = FALSE
  /\ promised = {}
  /\ served = 0 /\ restarts = 0

AllIdle == \A h \in Handlers : pc[h] = "idle"

Goto(h, l) == pc' = [pc EXCEPT ![h] = l]

Answer(h, code) ==
  /\ status' = [status EXCEPT ![h] = code]
  /\ Goto(h, "reply")

-----------------------------------------------------------------------------
(* upsertZone, deleteZone, deleteCountry.                                  *)

\* What a client can read, now or after a restart: by queries, GET /api/zones,
\* GET /api/server and GET /api/config.
InForce == [zones |-> zones, defaults |-> defaults, cfg |-> cfg, store |-> store]

\* A request begins: it and those in progress are no longer alone.
Begin(h, r) ==
  /\ served' = served + 1
  /\ req' = [req EXCEPT ![h] = r]
  /\ IF AllIdle
     THEN /\ before' = [before EXCEPT ![h] = InForce]
          /\ UNCHANGED overlap
     ELSE /\ before' = [g \in Handlers |-> None]
          /\ alone' = [g \in Handlers |-> g # h /\ pc[g] = "idle"]
          /\ mixed' = TRUE

\* The request is decoded and the current zone copied: previous := GetZone.
StartZone(h, r) ==
  /\ pc[h] = "idle" /\ served < MaxRequests
  /\ r.op \in {"upsert", "delete", "country"}
  /\ Begin(h, r)
  /\ previous' = [previous EXCEPT ![h] = GetZone(zones, r.pattern)]
  /\ Goto(h, "apply")
  /\ UNCHANGED <<resolver, config, store, applied, dumped, snap, status, promised, halfway, restarts>>

\* The edit of the table; an edit that finds nothing is answered 404.
Edit(h) ==
  LET r == req[h] IN
  \/ /\ r.op = "upsert"
     /\ zones' = UpsertZone(zones, r.pattern, r.config)
  \/ /\ r.op = "delete" /\ At(zones, r.pattern) # {}
     /\ zones' = RemoveZone(zones, r.pattern)
  \/ /\ r.op = "country" /\ CanRemoveCountry(zones, r.pattern, r.country)
     /\ zones' = RemoveCountry(zones, r.pattern, r.country)

FindsNothing(h) ==
  LET r == req[h] IN
  \/ r.op = "delete" /\ At(zones, r.pattern) = {}
  \/ r.op = "country" /\ ~CanRemoveCountry(zones, r.pattern, r.country)

ApplyZone(h) ==
  /\ pc[h] = "apply"
  /\ \/ /\ Edit(h)
        /\ promised' = {v \in promised : v.pattern # req[h].pattern}
        /\ applied' = [applied EXCEPT ![h] = GetZone(zones', req[h].pattern)]
        /\ Goto(h, "dump")
        /\ UNCHANGED status
     \/ /\ FindsNothing(h)
        /\ Answer(h, 404)
        /\ UNCHANGED <<zones, promised, applied>>
  /\ UNCHANGED <<defaults, config, store, req, previous, dumped, snap, bounds>>

-----------------------------------------------------------------------------
(* persistDNSData.                                                         *)

\* DumpZones copies the table under the read lock.
Dump(h) ==
  /\ pc[h] = "dump"
  /\ dumped' = [dumped EXCEPT ![h] = DumpZones(zones)]
  /\ Goto(h, "assign")
  /\ UNCHANGED <<resolver, config, store, req, previous, applied, snap, status, promised, bounds>>

\* The copy becomes cfg.Zones.
Assign(h) ==
  /\ pc[h] = "assign"
  /\ cfgZones' = dumped[h]
  /\ Goto(h, "args")
  /\ UNCHANGED <<resolver, cfg, store, locals, promised, bounds>>

\* The arguments of SaveSnapshot are read from the shared configuration.
ReadArguments(h) ==
  /\ pc[h] = "args"
  /\ snap' = [snap EXCEPT ![h] = [defaults |-> cfg, zones |-> cfgZones]]
  /\ Goto(h, "save")
  /\ UNCHANGED <<resolver, config, store, req, previous, applied, dumped, status, promised, bounds>>

\* Faulty variant: defaults and zones are not written in one transaction.
SaveSnapshotTorn(h) ==
  /\ pc[h] = "save"
  /\ \/ /\ store' = snap[h]
        /\ Answer(h, 200)
     \/ /\ SaveMayFail
        /\ store' = [store EXCEPT !.zones = snap[h].zones]
        /\ Goto(h, "undo")
        /\ UNCHANGED status
  /\ UNCHANGED <<resolver, config, req, previous, applied, dumped, snap, promised, bounds>>

\* SaveSnapshot: one transaction, which commits or changes nothing.
SaveSnapshot(h) ==
  /\ pc[h] = "save"
  /\ \/ /\ store' = snap[h]
        /\ Answer(h, 200)
     \/ /\ SaveMayFail
        /\ Goto(h, "undo")
        /\ UNCHANGED <<store, status>>
  /\ UNCHANGED <<resolver, config, req, previous, applied, dumped, snap, promised, bounds>>

-----------------------------------------------------------------------------
(* restoreZone.                                                            *)

\* The copy put back may be older than the acknowledged change of a request
\* that ran meanwhile; the promise made for that zone is not kept.
Spoiled(h) ==
  IF alone[h] THEN promised ELSE {v \in promised : v.pattern # req[h].pattern}

UndoZone(h) ==
  LET p == req[h].pattern IN
  /\ pc[h] = "undo" /\ req[h].op # "defaults"
  /\ zones' = IF previous[h] = None THEN RemoveZone(zones, p)
              ELSE UpsertZone(zones, p, previous[h])
  /\ promised' = Spoiled(h)
  /\ Goto(h, "dumpUndone")
  /\ UNCHANGED <<defaults, config, store, locals, bounds>>

DumpUndone(h) ==
  /\ pc[h] = "dumpUndone"
  /\ dumped' = [dumped EXCEPT ![h] = DumpZones(zones)]
  /\ Goto(h, "assignUndone")
  /\ UNCHANGED <<resolver, config, store, req, previous, applied, snap, status, promised, bounds>>

AssignUndone(h) ==
  /\ pc[h] = "assignUndone"
  /\ cfgZones' = dumped[h]
  /\ Answer(h, 500)
  /\ UNCHANGED <<resolver, cfg, store, req, previous, applied, dumped, snap, promised, bounds>>

-----------------------------------------------------------------------------
(* updateServerConfig: fields are validated and assigned one after another.*)

StartDefaults(h, r) ==
  /\ pc[h] = "idle" /\ served < MaxRequests
  /\ r.op = "defaults"
  /\ Begin(h, r)
  /\ previous' = [previous EXCEPT ![h] = cfg]
  /\ Goto(h, "ttl")
  /\ UNCHANGED <<resolver, config, store, applied, dumped, snap, status, promised, halfway, restarts>>

SetTTL(h) ==
  /\ pc[h] = "ttl"
  /\ cfg' = IF req[h].ttl = None THEN cfg ELSE [cfg EXCEPT !.ttl = req[h].ttl]
  /\ Goto(h, "response")
  /\ UNCHANGED <<resolver, cfgZones, store, locals, promised, bounds>>

\* A response that is none of the three is answered 400, here: the TTL stays.
SetResponse(h) ==
  /\ pc[h] = "response"
  /\ IF req[h].response = "bad"
     THEN /\ Answer(h, 400)
          /\ halfway' = (halfway \/ req[h].ttl # None)
          /\ UNCHANGED cfg
     ELSE /\ cfg' = IF req[h].response = None THEN cfg
                    ELSE [cfg EXCEPT !.response = req[h].response]
          /\ Goto(h, "record")
          /\ UNCHANGED <<status, halfway>>
  /\ UNCHANGED <<resolver, cfgZones, store, req, previous, applied, dumped, snap, promised>>
  /\ UNCHANGED <<before, overlap, served, restarts>>

\* An empty body is answered 400.
SetRecord(h) ==
  LET r == req[h] IN
  /\ pc[h] = "record"
  /\ cfg' = IF r.record = None THEN cfg ELSE [cfg EXCEPT !.record = r.record]
  /\ IF r.ttl = None /\ r.response = None /\ r.record = None
     THEN Answer(h, 400)
     ELSE Goto(h, "reread") /\ UNCHANGED status
  /\ UNCHANGED <<resolver, cfgZones, store, req, previous, applied, dumped, snap, promised, bounds>>

\* The arguments of Resolver.UpdateDefaults are read from the configuration;
\* it installs them under the write lock, and persistDNSData follows.
ReadDefaults(h) ==
  /\ pc[h] = "reread"
  /\ snap' = [snap EXCEPT ![h] = ResolverDefaults(cfg)]
  /\ Goto(h, "update")
  /\ UNCHANGED <<resolver, config, store, req, previous, applied, dumped, status, promised, bounds>>

UpdateDefaults(h) ==
  /\ pc[h] = "update"
  /\ defaults' = snap[h]
  /\ Goto(h, "dump")
  /\ UNCHANGED <<zones, config, store, locals, promised, bounds>>

\* The save failed: the old values are put back, field by field ...
UndoTTL(h) ==
  /\ pc[h] = "undo" /\ req[h].op = "defaults"
  /\ cfg' = [cfg EXCEPT !.ttl = previous[h].ttl]
  /\ Goto(h, "undoResponse")
  /\ UNCHANGED <<resolver, cfgZones, store, locals, promised, bounds>>

UndoResponse(h) ==
  /\ pc[h] = "undoResponse"
  /\ cfg' = [cfg EXCEPT !.response = previous[h].response]
  /\ Goto(h, "undoRecord")
  /\ UNCHANGED <<resolver, cfgZones, store, locals, promised, bounds>>

UndoRecord(h) ==
  /\ pc[h] = "undoRecord"
  /\ cfg' = [cfg EXCEPT !.record = previous[h].record]
  /\ Goto(h, "undoUpdate")
  /\ UNCHANGED <<resolver, cfgZones, store, locals, promised, bounds>>

\* Faulty variant: the resolver keeps the defaults that were not saved.
UndoUpdateForgotten(h) ==
  /\ pc[h] = "undoUpdate"
  /\ Answer(h, 500)
  /\ UNCHANGED <<resolver, config, store, req, previous, applied, dumped, snap, promised, bounds>>

\* ... and last in the resolver.
UndoUpdate(h) ==
  /\ pc[h] = "undoUpdate"
  /\ defaults' = ResolverDefaults(previous[h])
  /\ Answer(h, 500)
  /\ UNCHANGED <<zones, config, store, req, previous, applied, dumped, snap, promised, bounds>>

-----------------------------------------------------------------------------
(* Replies and restarts.                                                   *)

\* The client sees the status: 200 promises that the change is in force.
Reply(h) ==
  /\ pc[h] = "reply"
  /\ promised' =
       IF status[h] = 200 /\ req[h].op # "defaults"
          /\ GetZone(zones, req[h].pattern) = applied[h]
       THEN promised \cup {[pattern |-> req[h].pattern, config |-> applied[h]]}
       ELSE promised
  /\ req' = [req EXCEPT ![h] = None]
  /\ previous' = [previous EXCEPT ![h] = None]
  /\ applied' = [applied EXCEPT ![h] = None]
  /\ dumped' = [dumped EXCEPT ![h] = None]
  /\ snap' = [snap EXCEPT ![h] = None]
  /\ status' = [status EXCEPT ![h] = None]
  /\ before' = [before EXCEPT ![h] = None]
  /\ alone' = [alone EXCEPT ![h] = TRUE]
  /\ Goto(h, "idle")
  /\ UNCHANGED <<resolver, config, store, mixed, halfway, served, restarts>>

\* The process stops or is killed, and is started on what the store holds.
Restart ==
  /\ restarts < MaxRestarts
  /\ restarts' = restarts + 1
  /\ zones' = LoadZones(store.zones)
  /\ defaults' = ResolverDefaults(store.defaults)
  /\ cfg' = store.defaults
  /\ cfgZones' = store.zones
  /\ pc' = [h \in Handlers |-> "idle"]
  /\ req' = [h \in Handlers |-> None]
  /\ previous' = [h \in Handlers |-> None]
  /\ applied' = [h \in Handlers |-> None]
  /\ dumped' = [h \in Handlers |-> None]
  /\ snap' = [h \in Handlers |-> None]
  /\ status' = [h \in Handlers |-> None]
  /\ before' = [h \in Handlers |-> None]
  /\ alone' = [h \in Handlers |-> TRUE] /\ mixed' = FALSE /\ halfway' = FALSE
  /\ promised' = IF mixed THEN {} ELSE promised
  /\ UNCHANGED <<store, served>>

Handle(h) ==
  \/ \E r \in Requests : StartZone(h, r) \/ StartDefaults(h, r)
  \/ ApplyZone(h)
  \/ Dump(h) \/ Assign(h) \/ ReadArguments(h) \/ SaveSnapshot(h)
  \/ UndoZone(h) \/ DumpUndone(h) \/ AssignUndone(h)
  \/ SetTTL(h) \/ SetResponse(h) \/ SetRecord(h)
  \/ ReadDefaults(h) \/ UpdateDefaults(h)
  \/ UndoTTL(h) \/ UndoResponse(h) \/ UndoRecord(h) \/ UndoUpdate(h)
  \/ Reply(h)

Next == (\E h \in Handlers : Handle(h)) \/ Restart

Spec == Init /\ [][Next]_vars

-----------------------------------------------------------------------------
(* What the control plane promises.                                        *)

Points ==
  {"idle", "apply", "dump", "assign", "args", "save", "undo", "dumpUndone", "assignUndone",
   "ttl", "response", "record", "reread", "update",
   "undoResponse", "undoRecord", "undoUpdate", "reply"}

TypeOK ==
  /\ zones \in Tables
  /\ defaults \in Fallbacks
  /\ cfg \in ServerDefaults /\ cfgZones \in ZoneMaps
  /\ store \in Snapshots
  /\ pc \in [Handlers -> Points]
  /\ req \in [Handlers -> Requests \cup {None}]
  /\ previous \in [Handlers -> Configs \cup ServerDefaults \cup {None}]
  /\ applied \in [Handlers -> Configs \cup {None}]
  /\ dumped \in [Handlers -> ZoneMaps \cup {None}]
  /\ snap \in [Handlers -> Snapshots \cup Fallbacks \cup {None}]
  /\ status \in [Handlers -> {200, 400, 404, 500, None}]
  /\ before \in [Handlers -> States \cup {None}]
  /\ alone \in [Handlers -> BOOLEAN] /\ mixed \in BOOLEAN /\ halfway \in BOOLEAN
  /\ promised \subseteq [pattern : Patterns, config : Configs \cup {None}]
  /\ served \in 0 .. MaxRequests /\ restarts \in 0 .. MaxRestarts

\* The table never holds a pattern twice, whatever handlers run together
\* (UpsertZone replaces in place, RemoveZone and DumpZones rely on it).
NoDuplicatePatterns ==
  \A i, j \in DOMAIN zones : zones[i].pattern = zones[j].pattern => i = j

\* An acknowledged change of a zone is what the resolver answers from, until
\* another request changes the zone: "Changes take effect immediately"
\* (API_EN.md:81).  No failing request takes it back, unless it ran beside the
\* one acknowledged and undoes its own change of the same zone; no restart
\* does, unless requests have overlapped (restoreZone, persistDNSData).
PromisedInForce == \A v \in promised : GetZone(zones, v.pattern) = v.config

\* What a restart would make of an acknowledged change.
Saved(v) == IF v.pattern \in DOMAIN store.zones THEN store.zones[v.pattern] ELSE None

\* "Changes take effect immediately and are saved" (API_EN.md:81), whatever
\* requests overlapped: persistDNSData does not keep this.
AcknowledgedSaved == AllIdle => \A v \in promised : Saved(v) = v.config

\* With no request running, the table, the configuration and the store have the
\* same zones, and the resolver, the configuration and the store the same
\* defaults, whatever failed, was undone or was cut off by a kill: the zones unless
\* two requests have overlapped, the defaults unless they have or a PUT was refused
\* with its TTL assigned (persistDNSData, restoreZone, updateServerConfig).
Agreed ==
  AllIdle /\ ~mixed =>
    /\ DumpZones(zones) = store.zones /\ cfgZones = store.zones
    /\ ~halfway => cfg = store.defaults /\ defaults = ResolverDefaults(cfg)

\* The table in which the zone of a pattern is the last one that is matched.
MovedLast(zs, p) == Append(RemoveZone(zs, p), Entry(p, GetZone(zs, p)))

\* The table, row by row, after an error: what it was, but for a DELETE that could
\* not be saved, whose zone is back at the end (restoreZone appends it).
TableKept(h) ==
  \/ zones = before[h].zones
  \/ /\ status[h] = 500 /\ req[h].op = "delete"
     /\ zones = MovedLast(before[h].zones, req[h].pattern)

\* The configured defaults after an error: what they were, but for a PUT that is
\* refused for its response after its TTL was assigned.
DefaultsKept(h) ==
  \/ cfg = before[h].cfg
  \/ /\ status[h] = 400 /\ req[h].ttl # None /\ req[h].response = "bad"
     /\ cfg = [before[h].cfg EXCEPT !.ttl = req[h].ttl]

\* A request that is answered 400, 404 or 500, and had no other beside it, leaves
\* everything in force as it was when it began: every row of the table and their
\* order, the defaults, what a restart would load.  TableKept and DefaultsKept name
\* the two traces that restoreZone and updateServerConfig do leave.  The resolver's
\* defaults are put back from the configuration's, so if the two agreed.
FailureLeavesNoTrace ==
  \A h \in Handlers :
    alone[h] /\ pc[h] = "reply" /\ status[h] # 200 =>
      /\ TableKept(h) /\ DefaultsKept(h)
      /\ store = before[h].store
      /\ before[h].defaults = ResolverDefaults(before[h].cfg) => defaults = before[h].defaults

\* "Invalid values ... return 400. Accepted changes are saved"
\* (API_EN.md:75): a request that is refused changes no default.
RefusedChangesNothing ==
  \A h \in Handlers :
    pc[h] = "reply" /\ status[h] = 400 => cfg = previous[h]

=============================================================================
