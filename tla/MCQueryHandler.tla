---------------------------- MODULE MCQueryHandler ----------------------------
(* Small instances of QueryHandler.tla for TLC.                            *)
EXTENDS QueryHandler, TLC

CONSTANTS p1, p2, h1, h2

MCPatterns == {p1, p2}
MCSorted == [S \in SUBSET MCPatterns |-> SelectSeq(<<p1, p2>>, LAMBDA p : p \in S)]
MCNames == {"n", "other"}
MCMatching == "n" :> {p1, p2} @@ "other" :> {}
MCRTypes == {"A", "CNAME", "SOA"}

\* Record sets: addresses, an alias, and what "other" may add.
Section(a, cname, other) ==
  [structured |-> ("A" :> a @@ "CNAME" :> cname @@ "SOA" :> {}), other |-> other]
World == Section({1}, {}, {})
Japan == Section({}, {2}, {})
Mixed == Section({1}, {}, {<<"CNAME", 2>>})
Both  == Section({1}, {2}, {})

Zone(countries, rec, fast) ==
  [countries |-> countries, ttl |-> None, record |-> rec, fastOpen |-> fast]
Routed == Zone("default" :> World @@ "JP" :> Japan, TRUE, FALSE)
Fast   == Zone("default" :> World @@ "JP" :> Japan, TRUE, TRUE)
Accepted(c) == \A cc \in DOMAIN c.countries : ValidRecordSet(c.countries[cc])

MCZoneConfigs == {Routed, Fast}
MixedConfigs == {c \in {Zone("default" :> rs, None, TRUE) : rs \in {World, Japan, Mixed, Both}} : Accepted(c)}

MCStartZones == <<Entry(p2, Routed)>>
MCStartConfig == [ttl |-> 300, record |-> FALSE, response |-> "refuse"]
MCServerConfigs == {MCStartConfig, [ttl |-> 60, record |-> TRUE, response |-> "nxdomain"]}

Ask(kind, qtype, ecs) == [kind |-> kind, name |-> "n", qtype |-> qtype, ecs |-> ecs]
MCQueries ==
  {Ask("in", "A", TRUE), Ask("in", "A", FALSE), Ask("in", "SOA", FALSE),
   Ask("other", "A", FALSE), Ask("empty", "A", FALSE),
   [kind |-> "in", name |-> "other", qtype |-> "A", ecs |-> TRUE]}

OneHandler == {h1}
TwoHandlers == {h1, h2}
HandlerSymmetry == Permutations(TwoHandlers)
=============================================================================
