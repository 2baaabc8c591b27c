--------------------------------- MODULE Zones ---------------------------------
(***************************************************************************)
(* The zone table of the resolver (src/src/resolver/resolver.go) as        *)
(* operators: the ordered list a query walks, the edits of the API, the    *)
(* map DumpZones hands to the store, the table New builds from that map,   *)
(* and the answer of Resolve.                                              *)
(*                                                                         *)
(* A pattern is a model value; which names it matches is given by          *)
(* Matching; sort.Strings makes of a set of patterns the list Sorted.      *)
(* A record set maps each structured record type to its values, and has    *)
(* the free-form "other" values, each with the type it parses to.          *)
(***************************************************************************)
EXTENDS Naturals, Sequences, FiniteSetsExt

CONSTANTS
  Patterns,  \* zone patterns
  Sorted,    \* set of patterns |-> its list in the order of sort.Strings
  Names,     \* lower-cased query names
  Matching,  \* name |-> the patterns whose regular expression matches it
  RTypes,    \* record types, "A", "AAAA" and "CNAME" among them
  None       \* nil

ASSUME ZonesAssumption ==
  /\ Matching \in [Names -> SUBSET Patterns]
  /\ Sorted \in [SUBSET Patterns -> Seq(Patterns)]
  /\ \A S \in SUBSET Patterns : \* each pattern of S, once
       /\ \A p \in S : \E i \in DOMAIN Sorted[S] : Sorted[S][i] = p
       /\ \A i \in DOMAIN Sorted[S] : Sorted[S][i] \in S
       /\ \A i, j \in DOMAIN Sorted[S] : Sorted[S][i] = Sorted[S][j] => i = j
  /\ None \notin Patterns

\* zoneEntry: a pattern with its ZoneConfig.
Entry(p, c) == [pattern |-> p, config |-> c]

\* Positions of a pattern in the table; the loops of the code stop at the first.
At(zs, p)    == {i \in DOMAIN zs : zs[i].pattern = p}
PatternsOf(zs) == {zs[i].pattern : i \in DOMAIN zs}

GetZone(zs, p) == IF At(zs, p) = {} THEN None ELSE zs[Min(At(zs, p))].config

\* Faulty variant: append without looking for the pattern.
UpsertZoneAppends(zs, p, c) == Append(zs, Entry(p, c))

\* Replace in place, or append.
UpsertZone(zs, p, c) ==
  IF At(zs, p) = {} THEN Append(zs, Entry(p, c))
  ELSE [zs EXCEPT ![Min(At(zs, p))] = Entry(p, c)]

\* Faulty variant: off by one, the entry after the match goes.
RemoveZoneNext(zs, p) ==
  IF At(zs, p) = {} THEN zs
  ELSE LET i == Min(At(zs, p))
       IN  SubSeq(zs, 1, i) \o SubSeq(zs, i + 2, Len(zs))

RemoveZone(zs, p) ==
  IF At(zs, p) = {} THEN zs
  ELSE LET i == Min(At(zs, p))
       IN  SubSeq(zs, 1, i - 1) \o SubSeq(zs, i + 1, Len(zs))

\* RemoveCountry succeeds for a section that exists and is not "default".
CanRemoveCountry(zs, p, cc) ==
  /\ cc # "default"
  /\ At(zs, p) # {} /\ cc \in DOMAIN GetZone(zs, p).countries

WithoutCountry(c, cc) ==
  [c EXCEPT !.countries = [k \in DOMAIN c.countries \ {cc} |-> c.countries[k]]]

RemoveCountry(zs, p, cc) ==
  [zs EXCEPT ![Min(At(zs, p))] = Entry(p, WithoutCountry(GetZone(zs, p), cc))]

\* DumpZones fills a map in table order: a later entry overwrites.
DumpZones(zs) == [p \in PatternsOf(zs) |-> zs[Max(At(zs, p))].config]

\* New and ReplaceZones build the table from a map, in the order of the patterns.
LoadZones(m) ==
  LET ps == Sorted[DOMAIN m]
  IN  [i \in DOMAIN ps |-> Entry(ps[i], m[ps[i]])]

-----------------------------------------------------------------------------
(* Resolution.                                                             *)

\* selectRecordSet: the country's section, else "default", else nil.
SelectRecordSet(c, cc) ==
  IF cc # "" /\ cc \in DOMAIN c.countries THEN c.countries[cc]
  ELSE IF "default" \in DOMAIN c.countries THEN c.countries["default"]
  ELSE None

Aliased == {"A", "AAAA", "CNAME"}

\* buildRRs: an alias answers address queries alone; otherwise the values of
\* the type and the "other" values that parse to it.
BuildRRs(qtype, rs) ==
  IF rs = None THEN {}
  ELSE IF qtype \in Aliased /\ rs.structured["CNAME"] # {}
       THEN {<<"CNAME", d>> : d \in rs.structured["CNAME"]}
       ELSE {<<qtype, d>> : d \in rs.structured[qtype]}
              \cup {r \in rs.other : r[1] = qtype}

\* ValidateRecordSet, as far as it relates the fields of a set to each other.
ValidRecordSet(rs) ==
  rs.structured["CNAME"] # {} =>
    /\ \A t \in RTypes \ {"CNAME"} : rs.structured[t] = {}
    /\ rs.other = {}

\* Resolve: the first zone of the table that matches the name answers.
Hits(zs, name) == {i \in DOMAIN zs : zs[i].pattern \in Matching[name]}

Resolve(zs, defaults, name, qtype, cc) ==
  IF Hits(zs, name) = {} THEN None
  ELSE LET c == zs[Min(Hits(zs, name))].config
       IN  [records  |-> BuildRRs(qtype, SelectRecordSet(c, IF c.fastOpen THEN "" ELSE cc)),
            ttl      |-> IF c.ttl # None THEN c.ttl ELSE defaults.ttl,
            record   |-> IF c.record # None THEN c.record ELSE defaults.record,
            fastOpen |-> c.fastOpen]

=============================================================================
