------------------------------ MODULE MCApiServer ------------------------------
(* Small instances of ApiServer.tla for TLC.                               *)
EXTENDS ApiServer, TLC

CONSTANTS p1, p2, h1, h2, r1, r2

MCPatterns == {p1, p2}
MCSorted == [S \in SUBSET MCPatterns |-> SelectSeq(<<p1, p2>>, LAMBDA p : p \in S)]
MCNames == {"n"}
MCMatching == [n \in MCNames |-> {p1, p2}]
MCRTypes == {"A", "CNAME"}

\* Zone configurations: record sets stay opaque, only their identity matters.
Config(countries) ==
  [countries |-> countries, ttl |-> None, record |-> None, fastOpen |-> FALSE]
Plain == Config("default" :> r1)
Geo   == Config("default" :> r1 @@ "JP" :> r2)
MCConfigs == {Plain, Geo}

Upsert(p, c)   == [op |-> "upsert", pattern |-> p, config |-> c]
Delete(p)      == [op |-> "delete", pattern |-> p]
Country(p, cc) == [op |-> "country", pattern |-> p, country |-> cc]
Defaults(t, s, b) == [op |-> "defaults", ttl |-> t, response |-> s, record |-> b]

ZoneRequests ==
  {Upsert(p1, Plain), Upsert(p1, Geo), Delete(p1), Country(p1, "JP"), Country(p1, "default"),
   Upsert(p2, Plain), Delete(p2)}
DefaultsRequests ==
  {Defaults(60, "nxdomain", None), Defaults(None, None, TRUE), Defaults(None, None, None),
   Defaults(60, "bad", None)}

MCRequests == ZoneRequests \cup DefaultsRequests
MCBadRequests == {Defaults(60, "bad", None), Defaults(None, "bad", TRUE), Delete(p1)}
MCEdits == {Upsert(p1, Plain), Upsert(p1, Geo), Upsert(p2, Plain), Delete(p1), Country(p1, "JP")}

MCBootZones == p1 :> Geo
MCBootDefaults == [ttl |-> 300, record |-> FALSE, response |-> "refuse"]

OneHandler == {h1}
TwoHandlers == {h1, h2}
HandlerSymmetry == Permutations(TwoHandlers)
=============================================================================
