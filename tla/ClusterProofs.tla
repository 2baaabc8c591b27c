----------------------------- MODULE ClusterProofs -----------------------------
(***************************************************************************)
(* Proofs about master and slaves: any number of slaves, patterns, requests*)
(* and handlers that serve them at once.  Forwards can overtake each other *)
(* and be lost; what is proved is that nothing else sets a slave apart.    *)
(***************************************************************************)
EXTENDS Cluster, TLAPS

-----------------------------------------------------------------------------
(* The inductive invariant.                                                *)

\* What a slave serves, or will serve once it has applied what it fetched.
Content(s) == IF phase[s] = "apply" THEN fetched[s] ELSE slave[s]

\* A request that is still being forwarded is under way; unless it was crossed,
\* it is the last change of its pattern.
Forwarding ==
  \A h \in Handlers : \A s \in sending[h] :
    /\ req[h] # None
    /\ req[h].pattern \notin crossed[s] => master[req[h].pattern] = req[h].config

\* A slave lacks only what it is being sent, but for zones marked.
Behind ==
  \A s \in Slaves : \A p \in Patterns \ (lost[s] \cup crossed[s]) :
    \/ Content(s)[p] = master[p]
    \/ \E h \in Handlers : s \in sending[h] /\ req[h].pattern = p

\* InSync is Behind when nothing is being sent; Forwarding is what makes a
\* forward that arrives the master's value.
IInv == TypeOK /\ Forwarding /\ Behind

-----------------------------------------------------------------------------
(* Each action keeps the invariant.                                        *)

\* The slaves synchronised lack the change for the pattern, and are sent it.
LEMMA AcceptIInv ==
  ASSUME IInv, NEW h \in Handlers, NEW r \in Requests, Accept(h, r)
  PROVE  IInv'
<1> USE ClusterAssumption DEF IInv, slaves, marks, bounds
<1>0. /\ req[h] = None /\ r # None /\ r.pattern \in Patterns /\ r.config \in Configs \cup {None}
      /\ served' = served + 1 /\ starts' = starts
      /\ master' = [master EXCEPT ![r.pattern] = r.config] /\ master' \in Tables
      /\ req' = [req EXCEPT ![h] = r] /\ sending' = [sending EXCEPT ![h] = Slaves]
      /\ UNCHANGED <<slave, phase, fetched, synced, late>>
  BY DEF Accept, Apply, TypeOK, Tables, Requests
<1>1. sending[h] = {}
  BY <1>0 DEF Forwarding, TypeOK
<1>2. /\ lost' \in [Slaves -> SUBSET Patterns] /\ crossed' \in [Slaves -> SUBSET Patterns]
      /\ \A s \in Slaves : lost'[s] = lost[s] \ {r.pattern}
  <2>1. /\ lost' = [s \in Slaves |-> lost[s] \ {r.pattern}]
        /\ crossed' = [s \in Slaves |-> IF \E q \in Pending(s) : q.pattern = r.pattern
                                        THEN crossed[s] \cup {r.pattern}
                                        ELSE crossed[s] \ {r.pattern}]
    BY DEF Accept
  <2>2. \A s \in Slaves : lost[s] \subseteq Patterns /\ crossed[s] \subseteq Patterns
    BY DEF TypeOK
  <2> QED BY <1>0, <2>1, <2>2
<1>3. ASSUME NEW s \in Slaves
      PROVE  /\ \A p \in Patterns : p # r.pattern => (p \in crossed'[s] <=> p \in crossed[s])
             /\ \A g \in Handlers : s \in sending[g] /\ req[g].pattern = r.pattern =>
                  r.pattern \in crossed'[s]
  <2>1. crossed'[s] = IF \E q \in Pending(s) : q.pattern = r.pattern
                      THEN crossed[s] \cup {r.pattern} ELSE crossed[s] \ {r.pattern}
    BY DEF Accept
  <2> QED BY <2>1 DEF Pending
<1>4. TypeOK'
  <2>1. served' \in Nat /\ starts' \in Nat
    BY <1>0 DEF TypeOK
  <2>2. req' \in [Handlers -> Requests \cup {None}] /\ sending' \in [Handlers -> SUBSET Slaves]
    BY <1>0 DEF TypeOK
  <2> QED BY <1>0, <1>2, <2>1, <2>2 DEF TypeOK
<1>5. Forwarding'
  <2> SUFFICES ASSUME NEW g \in Handlers, NEW s \in sending'[g]
               PROVE  /\ req'[g] # None
                      /\ req'[g].pattern \notin crossed'[s] =>
                           master'[req'[g].pattern] = req'[g].config
    BY DEF Forwarding
  <2>1. CASE g = h
    BY <1>0, <2>1 DEF TypeOK, Tables
  <2>2. CASE g # h
    <3>1. req'[g] = req[g] /\ s \in sending[g] /\ s \in Slaves
      BY <1>0, <2>2 DEF TypeOK
    <3>2. /\ req[g] # None /\ req[g].pattern \in Patterns
          /\ req[g].pattern \notin crossed[s] => master[req[g].pattern] = req[g].config
      BY <3>1 DEF Forwarding, TypeOK, Requests
    <3>3. CASE req[g].pattern = r.pattern
      BY <1>3, <3>1, <3>2, <3>3
    <3>4. CASE req[g].pattern # r.pattern
      <4>1. master'[req[g].pattern] = master[req[g].pattern]
        BY <1>0, <3>2, <3>4 DEF TypeOK, Tables
      <4> QED BY <1>3, <3>1, <3>2, <3>4, <4>1
    <3> QED BY <3>3, <3>4
  <2> QED BY <2>1, <2>2
<1>6. Behind'
  <2> SUFFICES ASSUME NEW s \in Slaves, NEW p \in Patterns,
                      p \notin lost'[s], p \notin crossed'[s]
               PROVE  \/ Content(s)'[p] = master'[p]
                      \/ \E g \in Handlers : s \in sending'[g] /\ req'[g].pattern = p
    BY DEF Behind
  <2>1. CASE p = r.pattern
    BY <1>0, <2>1 DEF TypeOK
  <2>2. CASE p # r.pattern
    <3>1. p \notin lost[s] /\ p \notin crossed[s]
      BY <1>2, <1>3, <2>2
    <3>2. Content(s)' = Content(s) /\ master'[p] = master[p]
      BY <1>0, <2>2 DEF Content, TypeOK, Tables
    <3>3. \A g \in Handlers : s \in sending[g] => s \in sending'[g] /\ req'[g] = req[g]
      BY <1>0, <1>1 DEF TypeOK
    <3> QED BY <3>1, <3>2, <3>3 DEF Behind
  <2> QED BY <2>1, <2>2
<1> QED BY <1>4, <1>5, <1>6

\* The slave catches up with the last change of the pattern.
LEMMA ForwardIInv ==
  ASSUME IInv, NEW h \in Handlers, NEW s \in Slaves, Forward(h, s)
  PROVE  IInv'
<1> USE ClusterAssumption DEF IInv, slaves, marks, bounds, Forward, Apply
<1>0. Apply(slave[s], req[h]) \in Tables
  <2>1. req[h] \in Requests /\ slave[s] \in Tables
    BY DEF TypeOK, Forwarding
  <2> QED BY <2>1 DEF Tables, Requests
<1>1. TypeOK'
  BY <1>0 DEF TypeOK
<1>2. Forwarding'
  BY DEF TypeOK, Tables, Requests, Forwarding
<1>3. Behind'
  BY DEF TypeOK, Tables, Requests, Forwarding, Behind, Content
<1> QED BY <1>1, <1>2, <1>3

\* The slave has missed a forward from now on.
LEMMA ForwardFailsIInv ==
  ASSUME IInv, NEW h \in Handlers, NEW s \in Slaves, ForwardFails(h, s)
  PROVE  IInv'
<1> USE ClusterAssumption DEF IInv, slaves, marks, bounds, ForwardFails
<1>0. /\ s \in sending[h] /\ req[h] \in Requests /\ req[h].pattern \in Patterns
      /\ lost' \in [Slaves -> SUBSET Patterns]
  <2>1. req[h] \in Requests
    BY DEF TypeOK, Forwarding
  <2>2. req[h].pattern \in Patterns
    BY <2>1 DEF Requests
  <2> QED BY <2>1, <2>2 DEF TypeOK
<1>1. TypeOK'
  <2>1. [to |-> s, req |-> req[h]] \in [to : Slaves, req : Requests]
    BY <1>0
  <2>2. late' \subseteq [to : Slaves, req : Requests]
    BY <2>1 DEF TypeOK
  <2>3. sending' \in [Handlers -> SUBSET Slaves]
    BY DEF TypeOK
  <2> QED BY <1>0, <2>2, <2>3 DEF TypeOK
<1>2. Forwarding'
  BY DEF TypeOK, Tables, Requests, Forwarding
<1>3. Behind'
  BY <1>0 DEF TypeOK, Tables, Requests, Forwarding, Behind, Content
<1> QED BY <1>1, <1>2, <1>3

\* Nothing is left to send.
LEMMA ReplyIInv ==
  ASSUME IInv, NEW h \in Handlers, Reply(h)
  PROVE  IInv'
<1> USE ClusterAssumption DEF IInv, slaves, marks, bounds, Reply
<1>1. TypeOK'
  BY DEF TypeOK, Tables, Requests
<1>2. Forwarding'
  BY DEF TypeOK, Tables, Requests, Forwarding
<1>3. Behind'
  BY DEF TypeOK, Tables, Requests, Forwarding, Behind, Content
<1> QED BY <1>1, <1>2, <1>3

\* A late forward is one missed, or it is lost.
LEMMA ArriveIInv ==
  ASSUME IInv, NEW m \in late, Arrive(m)
  PROVE  IInv'
<1> USE ClusterAssumption DEF IInv, slaves, marks, bounds
<1>0. /\ m.to \in Slaves /\ m.req \in Requests /\ m.req.pattern \in Patterns
      /\ m.req.config \in Configs \cup {None}
      /\ UNCHANGED <<master, phase, fetched, synced, req, sending, crossed, bounds>>
      /\ late' = late \ {m}
  BY DEF TypeOK, Requests, Arrive
<1>1. CASE phase[m.to] = "up"
  <2>1. /\ slave' = [slave EXCEPT ![m.to] = Apply(slave[m.to], m.req)]
        /\ lost' = [lost EXCEPT ![m.to] = @ \cup {m.req.pattern}]
    BY <1>1 DEF Arrive
  <2>2. /\ Apply(slave[m.to], m.req) \in Tables
        /\ \A p \in Patterns : p # m.req.pattern => Apply(slave[m.to], m.req)[p] = slave[m.to][p]
    BY <1>0 DEF Apply, TypeOK, Tables
  <2>3. TypeOK'
    <3>1. slave' \in [Slaves -> Tables] /\ lost' \in [Slaves -> SUBSET Patterns]
      BY <1>0, <2>1, <2>2 DEF TypeOK
    <3> QED BY <1>0, <3>1 DEF TypeOK
  <2>4. Forwarding'
    BY <1>0 DEF Forwarding
  <2>5. Behind'
    <3> SUFFICES ASSUME NEW s \in Slaves, NEW p \in Patterns,
                        p \notin lost'[s], p \notin crossed'[s]
                 PROVE  \/ Content(s)'[p] = master'[p]
                        \/ \E g \in Handlers : s \in sending'[g] /\ req'[g].pattern = p
      BY DEF Behind
    <3>1. p \notin lost[s] /\ (s = m.to => p # m.req.pattern)
      BY <1>0, <2>1 DEF TypeOK
    <3>2. Content(s)'[p] = Content(s)[p]
      BY <1>0, <1>1, <2>1, <2>2, <3>1 DEF Content, TypeOK
    <3> QED BY <1>0, <3>1, <3>2 DEF Behind
  <2> QED BY <2>3, <2>4, <2>5
<1>2. CASE phase[m.to] # "up"
  <2>1. UNCHANGED <<slave, lost>>
    BY <1>2 DEF Arrive
  <2> QED BY <1>0, <2>1 DEF TypeOK, Forwarding, Behind, Content
<1> QED BY <1>1, <1>2

\* A slave that starts is not synchronised yet.
LEMMA StartIInv ==
  ASSUME IInv, NEW s \in Slaves, Start(s)
  PROVE  IInv'
<1> USE ClusterAssumption DEF IInv, slaves, marks, bounds, Start
<1>1. TypeOK'
  BY DEF TypeOK, Tables, Requests
<1>2. Forwarding'
  BY DEF TypeOK, Tables, Requests, Forwarding
<1>3. Behind'
  BY DEF TypeOK, Tables, Requests, Forwarding, Behind, Content
<1> QED BY <1>1, <1>2, <1>3

\* What is fetched is what the master has.
LEMMA FetchIInv ==
  ASSUME IInv, NEW s \in Slaves, Fetch(s)
  PROVE  IInv'
<1> USE ClusterAssumption DEF IInv, slaves, marks, bounds
<1>0. phase[s] = "fetch" /\ UNCHANGED <<master, slave, req, sending, late, bounds>>
  BY DEF Fetch
<1>1. CASE UNCHANGED <<fetched, synced, marks>> /\ phase' = [phase EXCEPT ![s] = "listen"]
  BY <1>0, <1>1 DEF TypeOK, Forwarding, Behind, Content
<1>2. CASE /\ fetched' = [fetched EXCEPT ![s] = master]
           /\ synced' = [synced EXCEPT ![s] = TRUE]
           /\ lost' = [lost EXCEPT ![s] = {}]
           /\ crossed' = [crossed EXCEPT ![s] =
                {q.pattern : q \in {p \in Pending(s) : p.config # master[p.pattern]}}]
           /\ phase' = [phase EXCEPT ![s] = "apply"]
  <2>1. \A q \in Pending(s) : q \in Requests
    BY DEF Pending, Forwarding, TypeOK
  <2>2. crossed'[s] = {q.pattern : q \in {p \in Pending(s) : p.config # master[p.pattern]}}
    BY <1>2 DEF TypeOK
  <2>3. crossed'[s] \subseteq Patterns
    BY <2>1, <2>2 DEF Requests
  <2>4. \A u \in Slaves : u # s => crossed'[u] = crossed[u] /\ lost'[u] = lost[u]
    BY <1>2 DEF TypeOK
  <2>5. TypeOK'
    <3>1. crossed' \in [Slaves -> SUBSET Patterns] /\ lost' \in [Slaves -> SUBSET Patterns]
      BY <1>2, <2>2, <2>3 DEF TypeOK
    <3>2. /\ fetched' \in [Slaves -> Tables \cup {None}]
          /\ phase' \in [Slaves -> {"down", "fetch", "apply", "listen", "up"}]
          /\ \A u \in Slaves : fetched'[u] # None <=> phase'[u] = "apply"
      BY <1>2 DEF TypeOK
    <3>3. synced' \in [Slaves -> BOOLEAN]
      BY <1>2 DEF TypeOK
    <3> QED BY <1>0, <3>1, <3>2, <3>3 DEF TypeOK
  <2>6. Forwarding'
    <3> SUFFICES ASSUME NEW g \in Handlers, NEW u \in sending[g]
                 PROVE  /\ req[g] # None
                        /\ req[g].pattern \notin crossed'[u] =>
                             master[req[g].pattern] = req[g].config
      BY <1>0 DEF Forwarding
    <3>1. CASE u = s
      <4>1. req[g] \in Pending(s)
        BY <3>1 DEF Pending
      <4> QED BY <2>2, <3>1, <4>1 DEF Forwarding
    <3>2. CASE u # s
      BY <2>4, <3>2 DEF Forwarding, TypeOK
    <3> QED BY <3>1, <3>2
  <2>7. Behind'
    BY <1>0, <1>2, <2>4 DEF Behind, Content, TypeOK
  <2> QED BY <2>5, <2>6, <2>7
<1> QED BY <1>1, <1>2 DEF Fetch

\* What was fetched becomes the table.
LEMMA ReplaceZonesIInv ==
  ASSUME IInv, NEW s \in Slaves, ReplaceZones(s)
  PROVE  IInv'
<1> USE ClusterAssumption DEF IInv, slaves, marks, bounds, ReplaceZones
<1>1. TypeOK'
  BY DEF TypeOK, Tables, Requests
<1>2. Forwarding'
  BY DEF TypeOK, Tables, Requests, Forwarding
<1>3. Behind'
  BY DEF TypeOK, Tables, Requests, Forwarding, Behind, Content
<1> QED BY <1>1, <1>2, <1>3

\* The table stays.
LEMMA ListenIInv ==
  ASSUME IInv, NEW s \in Slaves, Listen(s)
  PROVE  IInv'
<1> USE ClusterAssumption DEF IInv, slaves, marks, bounds, Listen
<1>1. TypeOK'
  BY DEF TypeOK, Tables, Requests
<1>2. Forwarding'
  BY DEF TypeOK, Tables, Requests, Forwarding
<1>3. Behind'
  BY DEF TypeOK, Tables, Requests, Forwarding, Behind, Content
<1> QED BY <1>1, <1>2, <1>3

\* A slave that stops is not synchronised.
LEMMA StopIInv ==
  ASSUME IInv, NEW s \in Slaves, Stop(s)
  PROVE  IInv'
<1> USE ClusterAssumption DEF IInv, slaves, marks, bounds, Stop
<1>1. TypeOK'
  BY DEF TypeOK, Tables, Requests
<1>2. Forwarding'
  BY DEF TypeOK, Tables, Requests, Forwarding
<1>3. Behind'
  BY DEF TypeOK, Tables, Requests, Forwarding, Behind, Content
<1> QED BY <1>1, <1>2, <1>3

\* No slave has synchronised at the start.
LEMMA InitIInv == Init => IInv
BY ClusterAssumption DEF Init, IInv, TypeOK, Forwarding, Behind

\* A step that changes no variable.
LEMMA StutterIInv ==
  ASSUME IInv, UNCHANGED vars
  PROVE  IInv'
BY DEF IInv, TypeOK, Forwarding, Behind, Content, vars, slaves, marks, bounds

-----------------------------------------------------------------------------
(* The theorems.                                                           *)

\* The invariant holds in every reachable state.
THEOREM Inductive == Spec => []IInv
<1>1. IInv /\ [Next]_vars => IInv'
  BY AcceptIInv, ForwardIInv, ForwardFailsIInv, ReplyIInv, ArriveIInv, StartIInv, FetchIInv,
     ReplaceZonesIInv, ListenIInv, StopIInv, StutterIInv DEF Next
<1> QED BY InitIInv, <1>1, PTL DEF Spec

\* Whatever is lost, late or stopped and however requests overlap, a zone on a
\* slave is its master's once the master is quiet, unless a forward of it was lost,
\* late or crossed since the slave fetched or the zone last changed
\* (syncFromMaster, forwardToSlaves).
THEOREM SlavesFollow == Spec => []InSync
<1>1. IInv => InSync
  BY DEF IInv, Forwarding, Behind, Content, TypeOK, Tables, InSync, Quiet
<1> QED BY Inductive, <1>1, PTL
=============================================================================
