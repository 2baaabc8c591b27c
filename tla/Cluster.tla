-------------------------------- MODULE Cluster --------------------------------
(***************************************************************************)
(* Master and slaves: the forwarding of API changes (forwardToSlaves,      *)
(* src/src/api/server.go) and the synchronisation of a slave at startup    *)
(* (syncFromMaster, src/src/main.go).                                      *)
(*                                                                         *)
(* A node's zones are a map from patterns to configurations.  What a node  *)
(* does inside one request (table, configuration, store, undo) is in       *)
(* ApiServer.tla and is one step here; so a slave that stops finds its     *)
(* table again in its dns_data.db.  Changes reach a slave only through the *)
(* master.  The deletion of one country and the server defaults are        *)
(* forwarded the same way and left out.                                    *)
(***************************************************************************)
EXTENDS Naturals, FiniteSets

CONSTANTS
  Handlers,   \* goroutines serving requests on the master
  Slaves,     \* configured slaves
  Patterns,   \* zone patterns
  Configs,    \* zone configurations
  MaxRequests,\* bound of the model: requests to the master
  MaxStarts,  \* bound of the model: starts of a slave
  None        \* no zone, no request

\* POST of a zone, or DELETE, which is config None.
Requests == [pattern : Patterns, config : Configs \cup {None}]
Tables   == [Patterns -> Configs \cup {None}]

ASSUME ClusterAssumption ==
  /\ None \notin Configs \cup Requests \cup Tables
  /\ MaxRequests \in Nat /\ MaxStarts \in Nat

VARIABLES
  master,   \* the zones of the master
  slave,    \* the zones of each slave
  phase,    \* of each slave: "down", "fetch", "apply", "listen"; then "up"
  fetched,  \* the configuration it fetched, or None
  req,      \* the request each handler serves, or None
  sending,  \* the slaves its forwards have not reached or given up on
  late,     \* forwards the master gave up on that may still arrive
  synced,   \* history: the last start of the slave got the configuration
  lost,     \* history: the zones of which a forward to the slave failed or came
            \* late since it fetched, or since their last change
  crossed,  \* history: those of which two forwards to it were under way at once
  served, starts \* numbers of requests and starts so far

slaves == <<slave, phase, fetched, synced>>
marks  == <<lost, crossed>>
bounds == <<served, starts>>
vars   == <<master, slaves, req, sending, late, marks, bounds>>

Init ==
  /\ master \in Tables
  /\ slave \in [Slaves -> Tables]
  /\ phase = [s \in Slaves |-> "down"]
  /\ fetched = [s \in Slaves |-> None]
  /\ req = [h \in Handlers |-> None]
  /\ sending = [h \in Handlers |-> {}]
  /\ late = {}
  /\ synced = [s \in Slaves |-> FALSE]
  /\ lost = [s \in Slaves |-> Patterns]
  /\ crossed = [s \in Slaves |-> {}]
  /\ served = 0 /\ starts = 0

Apply(table, r) == [table EXCEPT ![r.pattern] = r.config]

\* The requests whose forward to s is under way.
Pending(s) == {req[h] : h \in {g \in Handlers : s \in sending[g]}}

-----------------------------------------------------------------------------
(* The master.                                                             *)

\* The change is applied and saved (a DELETE that finds nothing is answered
\* 404 and not forwarded); one goroutine per slave forwards it.  Beside another
\* forward of the zone to the slave, either may arrive first.
Accept(h, r) ==
  /\ req[h] = None /\ served < MaxRequests
  /\ served' = served + 1
  /\ r.config = None => master[r.pattern] # None
  /\ master' = Apply(master, r)
  /\ req' = [req EXCEPT ![h] = r]
  /\ sending' = [sending EXCEPT ![h] = Slaves]
  /\ lost' = [s \in Slaves |-> lost[s] \ {r.pattern}]
  /\ crossed' = [s \in Slaves |-> IF \E q \in Pending(s) : q.pattern = r.pattern
                                  THEN crossed[s] \cup {r.pattern}
                                  ELSE crossed[s] \ {r.pattern}]
  /\ UNCHANGED <<slaves, late, starts>>

\* The slave serves the forwarded request.
Forward(h, s) ==
  /\ s \in sending[h] /\ phase[s] = "up"
  /\ slave' = [slave EXCEPT ![s] = Apply(slave[s], req[h])]
  /\ sending' = [sending EXCEPT ![h] = @ \ {s}]
  /\ UNCHANGED <<master, phase, fetched, synced, req, late, marks, bounds>>

\* The forward fails, or times out and may still arrive; it is only logged.
ForwardFails(h, s) ==
  /\ s \in sending[h]
  /\ sending' = [sending EXCEPT ![h] = @ \ {s}]
  /\ lost' = [lost EXCEPT ![s] = @ \cup {req[h].pattern}]
  /\ late' \in {late, late \cup {[to |-> s, req |-> req[h]]}}
  /\ UNCHANGED <<master, slaves, req, crossed, bounds>>

\* All forwards are over: the client gets its answer.
Reply(h) ==
  /\ req[h] # None /\ sending[h] = {}
  /\ req' = [req EXCEPT ![h] = None]
  /\ UNCHANGED <<master, slaves, sending, late, marks, bounds>>

\* A forward the master timed out on is served, or never.
Arrive(m) ==
  /\ m \in late
  /\ late' = late \ {m}
  /\ IF phase[m.to] = "up"
     THEN /\ slave' = [slave EXCEPT ![m.to] = Apply(slave[m.to], m.req)]
          /\ lost' = [lost EXCEPT ![m.to] = @ \cup {m.req.pattern}]
     ELSE UNCHANGED <<slave, lost>>
  /\ UNCHANGED <<master, phase, fetched, synced, req, sending, crossed, bounds>>

-----------------------------------------------------------------------------
(* A slave starts: fetch /api/config, apply it, and only then listen.      *)

Start(s) ==
  /\ phase[s] = "down" /\ starts < MaxStarts
  /\ starts' = starts + 1
  /\ phase' = [phase EXCEPT ![s] = "fetch"]
  /\ UNCHANGED <<master, slave, fetched, synced, req, sending, late, marks, served>>

\* handleConfig answers with DumpZones; or the fetch fails and the slave goes
\* on with what its store holds.  A forward still under way may be older than
\* what was fetched.
Fetch(s) ==
  /\ phase[s] = "fetch"
  /\ \/ /\ fetched' = [fetched EXCEPT ![s] = master]
        /\ synced' = [synced EXCEPT ![s] = TRUE]
        /\ lost' = [lost EXCEPT ![s] = {}]
        /\ crossed' = [crossed EXCEPT ![s] =
             {q.pattern : q \in {p \in Pending(s) : p.config # master[p.pattern]}}]
        /\ phase' = [phase EXCEPT ![s] = "apply"]
     \/ /\ phase' = [phase EXCEPT ![s] = "listen"]
        /\ UNCHANGED <<fetched, synced, marks>>
  /\ UNCHANGED <<master, slave, req, sending, late, bounds>>

\* Faulty variant: the zones are upserted one by one, none is removed.
ReplaceZonesMerges(s) ==
  /\ phase[s] = "apply"
  /\ slave' = [slave EXCEPT ![s] =
       [p \in Patterns |-> IF fetched[s][p] # None THEN fetched[s][p] ELSE @[p]]]
  /\ fetched' = [fetched EXCEPT ![s] = None]
  /\ phase' = [phase EXCEPT ![s] = "listen"]
  /\ UNCHANGED <<master, synced, req, sending, late, marks, bounds>>

\* ReplaceZones, and SaveSnapshot of the result.
ReplaceZones(s) ==
  /\ phase[s] = "apply"
  /\ slave' = [slave EXCEPT ![s] = fetched[s]]
  /\ fetched' = [fetched EXCEPT ![s] = None]
  /\ phase' = [phase EXCEPT ![s] = "listen"]
  /\ UNCHANGED <<master, synced, req, sending, late, marks, bounds>>

Listen(s) ==
  /\ phase[s] = "listen"
  /\ phase' = [phase EXCEPT ![s] = "up"]
  /\ UNCHANGED <<master, slave, fetched, synced, req, sending, late, marks, bounds>>

\* What was fetched and not applied is gone with it.
Stop(s) ==
  /\ phase[s] # "down"
  /\ phase' = [phase EXCEPT ![s] = "down"]
  /\ fetched' = [fetched EXCEPT ![s] = None]
  /\ synced' = [synced EXCEPT ![s] = FALSE]
  /\ lost' = IF phase[s] = "apply" THEN [lost EXCEPT ![s] = Patterns] ELSE lost
  /\ UNCHANGED <<master, slave, req, sending, late, crossed, bounds>>

Next ==
  \/ \E h \in Handlers :
       \/ \E r \in Requests : Accept(h, r)
       \/ \E s \in Slaves : Forward(h, s) \/ ForwardFails(h, s)
       \/ Reply(h)
  \/ \E m \in late : Arrive(m)
  \/ \E s \in Slaves : Start(s) \/ Fetch(s) \/ ReplaceZones(s) \/ Listen(s) \/ Stop(s)

Spec == Init /\ [][Next]_vars

-----------------------------------------------------------------------------
(* What the cluster promises.                                              *)

TypeOK ==
  /\ master \in Tables /\ slave \in [Slaves -> Tables]
  /\ phase \in [Slaves -> {"down", "fetch", "apply", "listen", "up"}]
  /\ fetched \in [Slaves -> Tables \cup {None}]
  /\ \A s \in Slaves : fetched[s] # None <=> phase[s] = "apply"
  /\ req \in [Handlers -> Requests \cup {None}]
  /\ sending \in [Handlers -> SUBSET Slaves]
  /\ late \subseteq [to : Slaves, req : Requests]
  /\ synced \in [Slaves -> BOOLEAN]
  /\ lost \in [Slaves -> SUBSET Patterns] /\ crossed \in [Slaves -> SUBSET Patterns]
  /\ served \in Nat /\ starts \in Nat

Quiet == \A h \in Handlers : req[h] = None

\* However many requests the master serves at once, and whatever fails, comes
\* late or is stopped: once no request is under way, a zone on a slave is that of
\* its master, but for those of which a forward to it was lost or late or crossed
\* another since it fetched or since their last change; deletions made while it
\* was offline included (forwardToSlaves, syncFromMaster, main.go:291).
InSync ==
  Quiet => \A s \in Slaves : phase[s] = "up" =>
    \A p \in Patterns \ (lost[s] \cup crossed[s]) : slave[s][p] = master[p]

\* Forwards are sent in the order of the changes: a slave that has heard of every
\* change of a zone in time has the master's.
ForwardsSuffice ==
  Quiet => \A s \in Slaves : phase[s] = "up" =>
    \A p \in Patterns \ lost[s] : slave[s][p] = master[p]

\* "so zones deleted on the master cannot linger" (resolver.go:140): a slave
\* that has synchronised serves no zone its master does not have.
NothingLingers ==
  Quiet =>
    \A s \in Slaves : phase[s] = "up" /\ synced[s] =>
      \A p \in Patterns : slave[s][p] # None => master[p] # None

=============================================================================
