---------------------------- MODULE ApiServerProofs ----------------------------
(***************************************************************************)
(* Proofs about the control plane: any number of handlers, of patterns,    *)
(* zone configurations and requests.  The first part has what the edits of *)
(* the zone table do; the second part uses only that.                      *)
(***************************************************************************)
EXTENDS ApiServer, SequenceTheorems, TLAPS

-----------------------------------------------------------------------------
(* The zone table.                                                         *)

Row == [pattern : Patterns, config : Configs]

NoDuplicates(zs) == \A i, j \in DOMAIN zs : zs[i].pattern = zs[j].pattern => i = j

Table(zs) == zs \in Seq(Row) /\ NoDuplicates(zs)

\* The value of a map, None where it has none.
Look(m, p) == IF p \in DOMAIN m THEN m[p] ELSE None

\* None is no value of any other kind.
LEMMA NoneIsNone ==
  None \notin Patterns /\ None \notin Configs /\ None \notin Requests /\ None \notin ServerDefaults
BY ZonesAssumption, ApiServerAssumption

\* The entry that newZoneEntry makes is a row.
LEMMA EntryRow ==
  ASSUME NEW p \in Patterns, NEW c \in Configs
  PROVE  Entry(p, c) \in Row /\ Entry(p, c).pattern = p /\ Entry(p, c).config = c
BY DEF Entry, Row

\* What may be read from a row.
LEMMA RowFields ==
  ASSUME NEW r \in Row
  PROVE  r.pattern \in Patterns /\ r.config \in Configs
BY DEF Row

\* The least and the greatest of one.
LEMMA OfOne ==
  ASSUME NEW i \in Nat
  PROVE  Min({i}) = i /\ Max({i}) = i
BY DEF Min, Max

\* In a table, the loops that stop at the first match find the only one.
LEMMA Found ==
  ASSUME NEW zs, Table(zs), NEW p, NEW i \in DOMAIN zs, zs[i].pattern = p
  PROVE  /\ At(zs, p) = {i} /\ Min(At(zs, p)) = i /\ Max(At(zs, p)) = i
         /\ GetZone(zs, p) = zs[i].config /\ GetZone(zs, p) \in Configs /\ i \in Nat
<1>1. At(zs, p) = {i}
  BY DEF Table, NoDuplicates, At
<1>2. i \in Nat /\ zs[i] \in Row
  BY DEF Table
<1>3. Min({i}) = i /\ Max({i}) = i
  BY <1>2, OfOne
<1>4. GetZone(zs, p) = zs[i].config
  BY <1>1, <1>3 DEF GetZone
<1> QED BY <1>1, <1>2, <1>3, <1>4, RowFields

\* Of a pattern that has no row, there is nothing to find.
LEMMA NotFound ==
  ASSUME NEW zs, NEW p, \A i \in DOMAIN zs : zs[i].pattern # p
  PROVE  At(zs, p) = {} /\ GetZone(zs, p) = None
BY DEF At, GetZone

\* A pattern is in the table exactly if GetZone returns a configuration.
LEMMA ZoneOrNone ==
  ASSUME NEW zs, Table(zs), NEW p
  PROVE  /\ GetZone(zs, p) \in Configs \cup {None}
         /\ GetZone(zs, p) = None <=> At(zs, p) = {}
         /\ p \in PatternsOf(zs) <=> GetZone(zs, p) # None
<1>1. CASE \E i \in DOMAIN zs : zs[i].pattern = p
  <2>1. PICK i \in DOMAIN zs : zs[i].pattern = p
    BY <1>1
  <2>2. At(zs, p) = {i} /\ GetZone(zs, p) \in Configs
    BY <2>1, Found
  <2> QED BY <2>1, <2>2, NoneIsNone DEF PatternsOf
<1>2. CASE \A i \in DOMAIN zs : zs[i].pattern # p
  BY <1>2, NotFound DEF PatternsOf
<1> QED BY <1>1, <1>2

\* UpsertZone sets one zone.
LEMMA UpsertSets ==
  ASSUME NEW zs, Table(zs), NEW p \in Patterns, NEW c \in Configs
  PROVE  LET us == UpsertZone(zs, p, c)
         IN  /\ Table(us) /\ GetZone(us, p) = c
             /\ \A q \in Patterns : q # p => GetZone(us, q) = GetZone(zs, q)
<1> DEFINE us == UpsertZone(zs, p, c)
           e == Entry(p, c)
<1>0. e \in Row /\ e.pattern = p /\ e.config = c /\ zs \in Seq(Row) /\ Len(zs) \in Nat
      /\ DOMAIN zs = 1 .. Len(zs)
  BY EntryRow DEF Table
<1>1. CASE \E i \in DOMAIN zs : zs[i].pattern = p
  <2>1. PICK i \in DOMAIN zs : zs[i].pattern = p
    BY <1>1
  <2>2. us = [zs EXCEPT ![i] = e]
    <3>1. At(zs, p) = {i} /\ Min(At(zs, p)) = i
      BY <2>1, Found
    <3>2. At(zs, p) # {}
      BY <3>1
    <3> QED BY <3>1, <3>2 DEF UpsertZone
  <2> HIDE DEF e, us
  <2>3. us \in Seq(Row) /\ DOMAIN us = DOMAIN zs /\ us[i] = e
        /\ \A k \in DOMAIN zs : k # i => us[k] = zs[k]
    BY <1>0, <2>1, <2>2
  <2>4. NoDuplicates(us)
    BY <1>0, <2>1, <2>3 DEF NoDuplicates, Table
  <2>5. Table(us) /\ GetZone(us, p) = c
    <3>1. Table(us)
      BY <2>3, <2>4 DEF Table
    <3>2. i \in DOMAIN us /\ us[i].pattern = p /\ us[i].config = c
      BY <1>0, <2>1, <2>3
    <3> QED BY <3>1, <3>2, Found
  <2>6. ASSUME NEW q \in Patterns, q # p PROVE GetZone(us, q) = GetZone(zs, q)
    <3>1. CASE \E k \in DOMAIN zs : zs[k].pattern = q
      <4>1. PICK k \in DOMAIN zs : zs[k].pattern = q
        BY <3>1
      <4>2. k # i /\ us[k] = zs[k] /\ k \in DOMAIN us
        BY <2>1, <2>3, <2>6, <4>1
      <4>3. GetZone(zs, q) = zs[k].config
        BY <4>1, Found
      <4>4. GetZone(us, q) = us[k].config
        BY <2>5, <4>1, <4>2, Found
      <4> QED BY <4>2, <4>3, <4>4
    <3>2. CASE \A k \in DOMAIN zs : zs[k].pattern # q
      <4>1. \A k \in DOMAIN us : us[k].pattern # q
        BY <1>0, <2>3, <2>6, <3>2
      <4> QED BY <3>2, <4>1, NotFound
    <3> QED BY <3>1, <3>2
  <2> QED BY <2>5, <2>6 DEF us
<1>2. CASE \A i \in DOMAIN zs : zs[i].pattern # p
  <2>1. us = Append(zs, e)
    BY <1>2, NotFound DEF UpsertZone
  <2> HIDE DEF e, us
  <2>2. us \in Seq(Row) /\ Len(us) = Len(zs) + 1 /\ us[Len(zs) + 1] = e
        /\ \A k \in 1 .. Len(zs) : us[k] = zs[k]
    BY <1>0, <2>1
  <2>3. /\ DOMAIN us = 1 .. Len(zs) + 1 /\ Len(zs) + 1 \in DOMAIN us
        /\ \A k \in DOMAIN us : k \in DOMAIN zs \/ k = Len(zs) + 1
        /\ \A k \in DOMAIN zs : k \in DOMAIN us /\ k # Len(zs) + 1
    BY <1>0, <2>2
  <2>4. NoDuplicates(us)
    BY <1>0, <1>2, <2>2, <2>3 DEF NoDuplicates, Table
  <2>5. Table(us) /\ GetZone(us, p) = c
    BY <1>0, <2>2, <2>3, <2>4, Found DEF Table
  <2>6. ASSUME NEW q \in Patterns, q # p PROVE GetZone(us, q) = GetZone(zs, q)
    <3>1. CASE \E k \in DOMAIN zs : zs[k].pattern = q
      <4>1. PICK k \in DOMAIN zs : zs[k].pattern = q
        BY <3>1
      <4>2. us[k] = zs[k] /\ k \in DOMAIN us
        BY <1>0, <2>2, <2>3, <4>1
      <4>3. GetZone(zs, q) = zs[k].config
        BY <4>1, Found
      <4>4. GetZone(us, q) = us[k].config
        BY <2>5, <4>1, <4>2, Found
      <4> QED BY <4>2, <4>3, <4>4
    <3>2. CASE \A k \in DOMAIN zs : zs[k].pattern # q
      <4>1. \A k \in DOMAIN us : us[k].pattern # q
        BY <1>0, <2>2, <2>3, <2>6, <3>2
      <4> QED BY <3>2, <4>1, NotFound
    <3> QED BY <3>1, <3>2
  <2> QED BY <2>5, <2>6 DEF us
<1> QED BY <1>1, <1>2

\* RemoveZone removes one zone; the others move up.
LEMMA RemoveRemoves ==
  ASSUME NEW zs, Table(zs), NEW p \in Patterns
  PROVE  LET us == RemoveZone(zs, p)
         IN  /\ Table(us) /\ GetZone(us, p) = None
             /\ \A q \in Patterns : q # p => GetZone(us, q) = GetZone(zs, q)
<1> DEFINE us == RemoveZone(zs, p)
<1>1. CASE \E i \in DOMAIN zs : zs[i].pattern = p
  <2>1. PICK i \in DOMAIN zs : zs[i].pattern = p
    BY <1>1
  <2>2. At(zs, p) = {i} /\ Min(At(zs, p)) = i
    BY <2>1, Found
  <2>3. us = SubSeq(zs, 1, i - 1) \o SubSeq(zs, i + 1, Len(zs))
    BY <2>2 DEF RemoveZone
  <2>4. zs \in Seq(Row) /\ Len(zs) \in Nat /\ DOMAIN zs = 1 .. Len(zs) /\ i \in 1 .. Len(zs)
    BY DEF Table
  <2> DEFINE n == Len(zs)
             a == SubSeq(zs, 1, i - 1)
             b == SubSeq(zs, i + 1, n)
  <2>5. a \in Seq(Row) /\ Len(a) = i - 1 /\ \A k \in 1 .. i - 1 : a[k] = zs[k]
    <3>1. \A k \in 1 .. i - 1 : zs[k] \in Row
      BY <2>4
    <3>2. a \in Seq(Row) /\ Len(a) = (IF 1 <= i - 1 THEN (i - 1) - 1 + 1 ELSE 0)
          /\ \A k \in 1 .. (i - 1) - 1 + 1 : a[k] = zs[1 + k - 1]
      BY <2>4, <3>1, SubSeqProperties
    <3> HIDE DEF a
    <3>3. i \in Nat /\ i >= 1
      BY <2>4
    <3>4. (i - 1) - 1 + 1 = i - 1 /\ \A k \in 1 .. i - 1 : 1 + k - 1 = k
      BY <3>3
    <3>5. (IF 1 <= i - 1 THEN (i - 1) - 1 + 1 ELSE 0) = i - 1
      BY <3>3
    <3>6. Len(a) = i - 1
      BY <3>2, <3>5
    <3>7. \A k \in 1 .. i - 1 : a[k] = zs[k]
      BY <3>2, <3>4
    <3> QED BY <3>2, <3>6, <3>7
  <2>6. b \in Seq(Row) /\ Len(b) = n - i /\ \A k \in 1 .. n - i : b[k] = zs[i + k]
    <3>1. \A k \in i + 1 .. n : zs[k] \in Row
      BY <2>4
    <3>2. b \in Seq(Row) /\ Len(b) = (IF i + 1 <= n THEN n - (i + 1) + 1 ELSE 0)
          /\ \A k \in 1 .. n - (i + 1) + 1 : b[k] = zs[(i + 1) + k - 1]
      BY <2>4, <3>1, SubSeqProperties
    <3> HIDE DEF b
    <3>3. n \in Nat /\ i \in Nat /\ i <= n
      BY <2>4
    <3> HIDE DEF n
    <3>4. n - (i + 1) + 1 = n - i /\ \A k \in 1 .. n - i : (i + 1) + k - 1 = i + k
      BY <3>3
    <3>5. (IF i + 1 <= n THEN n - (i + 1) + 1 ELSE 0) = n - i
      BY <3>3
    <3>6. Len(b) = n - i
      BY <3>2, <3>5
    <3>7. \A k \in 1 .. n - i : b[k] = zs[(i + 1) + k - 1]
      BY <3>2, <3>4
    <3>8. \A k \in 1 .. n - i : b[k] = zs[i + k]
      BY <3>4, <3>7
    <3> QED BY <3>2, <3>6, <3>8
  <2> HIDE DEF a, b
  <2>7. us \in Seq(Row) /\ Len(us) = n - 1
        /\ \A k \in 1 .. n - 1 : us[k] = zs[IF k < i THEN k ELSE k + 1]
    <3>1. us \in Seq(Row) /\ Len(us) = Len(a) + Len(b)
          /\ \A k \in 1 .. Len(a) + Len(b) : us[k] = IF k <= Len(a) THEN a[k] ELSE b[k - Len(a)]
      BY SMTT(30), <2>3, <2>5, <2>6, ConcatProperties DEF a, b
    <3> HIDE DEF us
    <3>2. Len(a) + Len(b) = n - 1
      BY <2>4, <2>5, <2>6
    <3>3. ASSUME NEW k \in 1 .. n - 1 PROVE us[k] = zs[IF k < i THEN k ELSE k + 1]
      <4>1. CASE k < i
        <5>1. k \in 1 .. i - 1 /\ k <= Len(a)
          BY <2>4, <2>5, <4>1
        <5> QED BY <2>5, <3>1, <3>2, <4>1, <5>1
      <4>2. CASE ~(k < i)
        <5>1. ~(k <= Len(a)) /\ k - Len(a) \in 1 .. n - i /\ i + (k - Len(a)) = k + 1
          BY <2>4, <2>5, <4>2
        <5>2. us[k] = b[k - Len(a)]
          BY <3>1, <3>2, <5>1
        <5> QED BY <2>6, <4>2, <5>1, <5>2
      <4> QED BY <4>1, <4>2
    <3> QED BY <3>1, <3>2, <3>3
  <2> HIDE DEF us
  <2> DEFINE from(k) == IF k < i THEN k ELSE k + 1
  <2>8. /\ DOMAIN us = 1 .. n - 1
        /\ \A k \in 1 .. n - 1 : from(k) \in DOMAIN zs /\ from(k) # i /\ us[k] = zs[from(k)]
        /\ \A k, l \in 1 .. n - 1 : from(k) = from(l) => k = l
        /\ \A j \in DOMAIN zs : j # i => \E k \in 1 .. n - 1 : from(k) = j
    <3>1. ASSUME NEW j \in DOMAIN zs, j # i PROVE \E k \in 1 .. n - 1 : from(k) = j
      <4>1. CASE j < i
        BY <2>4, <4>1
      <4>2. CASE j > i
        <5>1. j - 1 \in 1 .. n - 1 /\ from(j - 1) = j
          BY <2>4, <4>2
        <5> QED BY <5>1
      <4> QED BY <2>4, <3>1, <4>1, <4>2
    <3>2. DOMAIN us = 1 .. n - 1
      BY <2>4, <2>7
    <3>3. \A k \in 1 .. n - 1 : from(k) \in DOMAIN zs /\ from(k) # i
      BY <2>4
    <3>4. \A k, l \in 1 .. n - 1 : from(k) = from(l) => k = l
      BY <2>4
    <3> QED BY <2>7, <3>1, <3>2, <3>3, <3>4
  <2> HIDE DEF from, n
  <2>9. Table(us)
    BY <2>7, <2>8 DEF Table, NoDuplicates
  <2>10. \A k \in DOMAIN us : us[k].pattern # p
    BY <2>1, <2>8 DEF Table, NoDuplicates
  <2>11. ASSUME NEW q \in Patterns, q # p PROVE GetZone(us, q) = GetZone(zs, q)
    <3>1. CASE \E k \in DOMAIN zs : zs[k].pattern = q
      <4>1. PICK j \in DOMAIN zs : zs[j].pattern = q
        BY <3>1
      <4>2. j # i
        BY <2>1, <2>11, <4>1
      <4>3. PICK k \in DOMAIN us : us[k] = zs[j]
        BY <2>8, <4>2
      <4>4. GetZone(zs, q) = zs[j].config
        BY <4>1, Found
      <4>5. GetZone(us, q) = us[k].config
        BY <2>9, <4>1, <4>3, Found
      <4> QED BY <4>3, <4>4, <4>5
    <3>2. CASE \A k \in DOMAIN zs : zs[k].pattern # q
      <4>1. \A k \in DOMAIN us : us[k].pattern # q
        BY <2>8, <3>2
      <4> QED BY <3>2, <4>1, NotFound
    <3> QED BY <3>1, <3>2
  <2> QED BY <2>9, <2>10, <2>11, NotFound DEF us
<1>2. CASE \A i \in DOMAIN zs : zs[i].pattern # p
  BY <1>2, NotFound DEF RemoveZone
<1> QED BY <1>1, <1>2

\* RemoveCountry changes the configuration of one zone.
LEMMA CountryEdits ==
  ASSUME NEW zs, Table(zs), NEW p \in Patterns, NEW cc, CanRemoveCountry(zs, p, cc)
  PROVE  LET us == RemoveCountry(zs, p, cc)
         IN  /\ Table(us) /\ GetZone(us, p) \in Configs
             /\ \A q \in Patterns : q # p => GetZone(us, q) = GetZone(zs, q)
             /\ \E c \in Configs : us = UpsertZone(zs, p, c)
<1> DEFINE c == WithoutCountry(GetZone(zs, p), cc)
<1>1. At(zs, p) # {} /\ GetZone(zs, p) \in Configs
  BY ZoneOrNone DEF CanRemoveCountry
<1>2. c \in Configs
  BY <1>1, ApiServerAssumption DEF CanRemoveCountry
<1>3. RemoveCountry(zs, p, cc) = UpsertZone(zs, p, c)
  BY <1>1 DEF RemoveCountry, UpsertZone
<1> HIDE DEF c
<1> QED BY <1>2, <1>3, UpsertSets

\* Removing the row that was appended last, and putting back the configuration of
\* a row that was replaced, give the table again, row by row.
LEMMA PutBack ==
  ASSUME NEW zs, Table(zs), NEW p \in Patterns, NEW c
  PROVE  /\ GetZone(zs, p) = None => RemoveZone(UpsertZone(zs, p, c), p) = zs
         /\ GetZone(zs, p) # None =>
              UpsertZone(UpsertZone(zs, p, c), p, GetZone(zs, p)) = zs
<1> DEFINE us == UpsertZone(zs, p, c)
           e == Entry(p, c)
<1>0. zs \in Seq(Row) /\ Len(zs) \in Nat /\ DOMAIN zs = 1 .. Len(zs) /\ e.pattern = p
  BY DEF Table, Entry
<1>1. CASE \E i \in DOMAIN zs : zs[i].pattern = p
  <2>1. PICK i \in DOMAIN zs : zs[i].pattern = p
    BY <1>1
  <2>2. /\ At(zs, p) = {i} /\ Min({i}) = i /\ GetZone(zs, p) = zs[i].config
        /\ GetZone(zs, p) # None
    <3>1. At(zs, p) = {i} /\ Min(At(zs, p)) = i /\ GetZone(zs, p) = zs[i].config
      BY <2>1, Found
    <3>2. GetZone(zs, p) # None
      BY <2>1, Found, NoneIsNone
    <3> QED BY <3>1, <3>2
  <2>3. us = [zs EXCEPT ![i] = e]
    BY <2>2 DEF UpsertZone
  <2> HIDE DEF e, us
  <2>4. At(us, p) = {i}
    <3>1. \A k \in DOMAIN zs : us[k].pattern = p <=> k = i
      BY <1>0, <2>1, <2>3 DEF Table, NoDuplicates
    <3>2. DOMAIN us = DOMAIN zs
      BY <2>3
    <3> QED BY <3>1, <3>2 DEF At
  <2>5. UpsertZone(us, p, GetZone(zs, p)) = [us EXCEPT ![i] = Entry(p, zs[i].config)]
    BY <2>2, <2>4 DEF UpsertZone
  <2>6. Entry(p, zs[i].config) = zs[i]
    <3>1. zs[i] \in Row
      BY <1>0, <2>1
    <3> QED BY <2>1, <3>1 DEF Entry, Row
  <2>7. [us EXCEPT ![i] = zs[i]] = zs
    <3>1. zs = [k \in DOMAIN zs |-> zs[k]]
      BY <1>0
    <3>2. [us EXCEPT ![i] = zs[i]] = [k \in DOMAIN zs |-> IF k = i THEN zs[i] ELSE zs[k]]
      BY <2>1, <2>3
    <3> QED BY <3>1, <3>2
  <2> QED BY <2>2, <2>5, <2>6, <2>7 DEF us
<1>2. CASE \A i \in DOMAIN zs : zs[i].pattern # p
  <2> DEFINE n == Len(zs)
  <2>1. GetZone(zs, p) = None /\ us = Append(zs, e)
    BY <1>2, NotFound DEF UpsertZone
  <2> HIDE DEF e, us
  <2>2. Len(us) = n + 1 /\ DOMAIN us = 1 .. n + 1 /\ us[n + 1] = e
        /\ \A k \in 1 .. n : us[k] = zs[k]
    BY <1>0, <2>1
  <2>3. At(us, p) = {n + 1}
    BY <1>0, <1>2, <2>2 DEF At
  <2>4. Min({n + 1}) = n + 1
    BY <1>0, OfOne
  <2>5. RemoveZone(us, p) = SubSeq(us, 1, (n + 1) - 1) \o SubSeq(us, (n + 1) + 1, Len(us))
    BY <2>3, <2>4 DEF RemoveZone
  <2>6. SubSeq(us, 1, (n + 1) - 1) = zs
    <3>1. (n + 1) - 1 = n
      BY <1>0
    <3>2. SubSeq(us, 1, n) = [k \in 1 .. n |-> us[1 + k - 1]]
      BY <1>0 DEF SubSeq
    <3>3. \A k \in 1 .. n : 1 + k - 1 = k
      BY <1>0
    <3>4. zs = [k \in 1 .. n |-> zs[k]]
      BY <1>0
    <3> QED BY <2>2, <3>1, <3>2, <3>3, <3>4
  <2>7. SubSeq(us, (n + 1) + 1, Len(us)) = << >>
    BY <1>0, <2>2
  <2> QED BY <1>0, <2>1, <2>5, <2>6, <2>7 DEF us
<1> QED BY <1>1, <1>2

\* A zone that is removed and put back is the last one.
LEMMA RemovedAndPutBack ==
  ASSUME NEW zs, Table(zs), NEW p \in Patterns, GetZone(zs, p) # None
  PROVE  UpsertZone(RemoveZone(zs, p), p, GetZone(zs, p)) = MovedLast(zs, p)
<1>1. At(RemoveZone(zs, p), p) = {}
  BY RemoveRemoves, ZoneOrNone
<1> QED BY <1>1 DEF UpsertZone, MovedLast

\* A map of zones is a function, and Look says all there is to it.
LEMMA MapOf ==
  ASSUME NEW m \in ZoneMaps
  PROVE  /\ DOMAIN m \in SUBSET Patterns
         /\ \A p \in DOMAIN m : m[p] \in Configs
         /\ m = [p \in DOMAIN m |-> m[p]]
         /\ \A p : Look(m, p) \in Configs \cup {None}
         /\ \A p : p \in DOMAIN m <=> Look(m, p) # None
<1>1. PICK S \in SUBSET Patterns : m \in [S -> Configs]
  BY DEF ZoneMaps
<1>2. DOMAIN m = S /\ m = [p \in DOMAIN m |-> m[p]] /\ \A p \in S : m[p] \in Configs
  BY <1>1
<1> QED BY <1>2, NoneIsNone DEF Look

\* Maps that agree on every pattern are equal.
LEMMA SameMap ==
  ASSUME NEW m \in ZoneMaps, NEW n \in ZoneMaps, \A p \in Patterns : Look(m, p) = Look(n, p)
  PROVE  m = n
<1>1. \A p \in Patterns : p \in DOMAIN m <=> p \in DOMAIN n
  BY MapOf
<1>2. DOMAIN m = DOMAIN n
  BY <1>1, MapOf
<1>3. \A p \in DOMAIN m : m[p] = n[p]
  BY <1>2, MapOf DEF Look
<1> QED BY <1>2, <1>3, MapOf

\* LoadZones makes a table of a map: each pattern of the map, once.
LEMMA LoadLoads ==
  ASSUME NEW m \in ZoneMaps
  PROVE  /\ Table(LoadZones(m))
         /\ \A p \in Patterns : GetZone(LoadZones(m), p) = Look(m, p)
<1> DEFINE S == DOMAIN m
           ps == Sorted[S]
           zs == LoadZones(m)
<1>1. S \in SUBSET Patterns /\ \A p \in S : m[p] \in Configs
  BY MapOf
<1>2. /\ ps \in Seq(Patterns) /\ DOMAIN ps = 1 .. Len(ps) /\ Len(ps) \in Nat
      /\ \A p \in S : \E i \in DOMAIN ps : ps[i] = p
      /\ \A i \in DOMAIN ps : ps[i] \in S
      /\ \A i, j \in DOMAIN ps : ps[i] = ps[j] => i = j
  <2>1. Sorted \in [SUBSET Patterns -> Seq(Patterns)]
    BY ZonesAssumption
  <2>2. ps \in Seq(Patterns)
    BY <1>1, <2>1
  <2> HIDE DEF S
  <2>3. /\ \A p \in S : \E i \in DOMAIN ps : ps[i] = p
        /\ \A i \in DOMAIN ps : ps[i] \in S
        /\ \A i, j \in DOMAIN ps : ps[i] = ps[j] => i = j
    BY <1>1, ZonesAssumption
  <2> HIDE DEF ps
  <2> QED BY <2>2, <2>3
<1>3. zs = [i \in DOMAIN ps |-> Entry(ps[i], m[ps[i]])]
  BY DEF LoadZones
<1> HIDE DEF zs, ps, S
<1>4. /\ DOMAIN zs = DOMAIN ps
      /\ \A i \in DOMAIN ps : /\ zs[i] \in Row /\ zs[i].pattern = ps[i]
                              /\ zs[i].config = m[ps[i]]
  BY <1>1, <1>2, <1>3, EntryRow
<1>5. zs \in Seq(Row)
  <2>1. zs \in [1 .. Len(ps) -> Row]
    BY <1>2, <1>3, <1>4
  <2> QED BY <1>2, <2>1
<1>6. Table(zs)
  BY <1>2, <1>4, <1>5 DEF Table, NoDuplicates
<1>7. ASSUME NEW p \in Patterns PROVE GetZone(zs, p) = Look(m, p)
  <2>1. CASE p \in S
    <3>1. PICK i \in DOMAIN ps : ps[i] = p
      BY <1>2, <2>1
    <3>2. i \in DOMAIN zs /\ zs[i].pattern = p /\ zs[i].config = m[p]
      BY <1>4, <3>1
    <3>3. GetZone(zs, p) = m[p]
      BY <1>6, <3>2, Found
    <3> QED BY <2>1, <3>3 DEF Look, S
  <2>2. CASE p \notin S
    <3>1. \A i \in DOMAIN zs : zs[i].pattern # p
      BY <1>2, <1>4, <2>2
    <3> QED BY <2>2, <3>1, NotFound DEF Look, S
  <2> QED BY <2>1, <2>2
<1> QED BY <1>6, <1>7 DEF zs

\* DumpZones makes a map of a table, which gives the same zones.
LEMMA DumpDumps ==
  ASSUME NEW zs, Table(zs)
  PROVE  /\ DumpZones(zs) \in ZoneMaps
         /\ \A p \in Patterns : Look(DumpZones(zs), p) = GetZone(zs, p)
<1> DEFINE m == DumpZones(zs)
           S == PatternsOf(zs)
<1>1. S \in SUBSET Patterns
  BY RowFields DEF PatternsOf, Table
<1>2. m = [p \in S |-> zs[Max(At(zs, p))].config]
  BY DEF DumpZones
<1>3. ASSUME NEW p \in S
      PROVE  zs[Max(At(zs, p))].config = GetZone(zs, p) /\ GetZone(zs, p) \in Configs
  <2>1. PICK i \in DOMAIN zs : zs[i].pattern = p
    BY DEF PatternsOf
  <2> QED BY <2>1, Found
<1>4. \A p \in Patterns : p \notin S => GetZone(zs, p) = None
  BY ZoneOrNone
<1> HIDE DEF m, S
<1>5. m \in [S -> Configs] /\ DOMAIN m = S /\ \A p \in S : m[p] = GetZone(zs, p)
  BY <1>2, <1>3
<1>6. m \in ZoneMaps
  BY <1>1, <1>5 DEF ZoneMaps
<1> QED BY <1>4, <1>5, <1>6 DEF m, Look

-----------------------------------------------------------------------------
(* The inductive invariant.                                                *)

\* The old defaults are being put back.
Undoing == {"undoResponse", "undoRecord", "undoUpdate"}

\* What a handler holds at each point.
Locals ==
  \A h \in Handlers :
    /\ pc[h] # "idle" => req[h] \in Requests
    /\ pc[h] \in {"apply", "dumpUndone", "assignUndone"} => ZoneRequest(req[h])
    /\ pc[h] \in {"ttl", "response", "record", "reread", "update"} => DefaultsRequest(req[h])
    /\ pc[h] \in {"assign", "assignUndone"} => dumped[h] \in ZoneMaps
    /\ pc[h] = "save" => snap[h] \in Snapshots
    /\ pc[h] = "update" => snap[h] \in Fallbacks
    /\ pc[h] = "reply" => status[h] \in {200, 400, 404, 500}
    /\ pc[h] = "reply" /\ ZoneRequest(req[h]) => status[h] # 400
    /\ pc[h] # "idle" /\ ZoneRequest(req[h]) => previous[h] \in Configs \cup {None}
    /\ pc[h] # "idle" /\ DefaultsRequest(req[h]) => previous[h] \in ServerDefaults
    /\ pc[h] \in Undoing => DefaultsRequest(req[h])

\* Alone is alone: nobody else is serving.
Overlap ==
  /\ \A h \in Handlers : pc[h] = "idle" => alone[h]
  /\ \A h, g \in Handlers : pc[h] # "idle" /\ alone[h] /\ g # h => pc[g] = "idle"
  /\ ~mixed => \A h \in Handlers : alone[h]

Saving == {"dump", "assign", "args", "save", "undo"}

\* A change that was made alone has broken the promises for its zone.
NotPromised ==
  \A h \in Handlers :
    alone[h] /\ pc[h] \in Saving /\ ZoneRequest(req[h]) =>
      \A v \in promised : v.pattern # req[h].pattern

Same(p) == GetZone(zones, p) = Look(store.zones, p)

AllSame == \A p \in Patterns : Same(p)

\* Unless requests overlapped, a promise survives a restart.
PromisedSaved ==
  ~mixed => \A v \in promised : Look(store.zones, v.pattern) = v.config

\* Unless requests overlapped: the table is what the store holds, except for
\* the zone that is being changed, whose value in the store is the one to put
\* back; and the copies on the way to the store are copies of the table.
ZonesSync ==
  ~mixed =>
    /\ AllIdle => AllSame /\ cfgZones = store.zones
    /\ \A h \in Handlers :
         /\ pc[h] \in {"apply", "ttl", "response", "record", "reread", "update", "reply"}
                       \cup Undoing =>
              AllSame /\ cfgZones = store.zones
         /\ pc[h] \in {"dumpUndone", "assignUndone"} => AllSame
         /\ pc[h] \in Saving /\ DefaultsRequest(req[h]) => AllSame
         /\ pc[h] \in Saving /\ ZoneRequest(req[h]) =>
              /\ previous[h] = Look(store.zones, req[h].pattern)
              /\ \A p \in Patterns : p # req[h].pattern => Same(p)
         /\ pc[h] \in {"assign", "assignUndone"} => dumped[h] = DumpZones(zones)
         /\ pc[h] \in {"args", "save"} => cfgZones = DumpZones(zones)
         /\ pc[h] = "undo" /\ DefaultsRequest(req[h]) => cfgZones = store.zones
         /\ pc[h] = "save" => snap[h].zones = cfgZones

\* The table as the edit of a request leaves it.
EditOf(zs, r, us) ==
  \/ \E c \in Configs : us = UpsertZone(zs, r.pattern, c)
  \/ r.op = "delete" /\ GetZone(zs, r.pattern) # None /\ us = RemoveZone(zs, r.pattern)

\* The table as a request leaves it that could not be saved.
PutBackOf(zs, r, us) ==
  us = zs \/ (r.op = "delete" /\ us = MovedLast(zs, r.pattern))

\* What a zone request that is alone has changed of what was in force before it ...
ZoneTrace ==
  \A h \in Handlers : alone[h] /\ pc[h] # "idle" /\ ZoneRequest(req[h]) =>
    LET b == before[h] IN
    /\ Table(b.zones) /\ previous[h] = GetZone(b.zones, req[h].pattern)
    /\ cfg = b.cfg /\ defaults = b.defaults
    /\ (pc[h] = "reply" /\ status[h] = 200) \/ store = b.store
    /\ pc[h] = "apply" => zones = b.zones
    /\ pc[h] \in Saving => EditOf(b.zones, req[h], zones)
    /\ pc[h] \in {"dumpUndone", "assignUndone"} => PutBackOf(b.zones, req[h], zones)
    /\ pc[h] = "reply" /\ status[h] = 404 => zones = b.zones
    /\ pc[h] = "reply" /\ status[h] = 500 => PutBackOf(b.zones, req[h], zones)

\* ... and what a defaults request has.
DefaultsTrace ==
  \A h \in Handlers : alone[h] /\ pc[h] # "idle" /\ DefaultsRequest(req[h]) =>
    LET b == before[h] IN
    /\ zones = b.zones /\ previous[h] = b.cfg /\ b.cfg \in ServerDefaults
    /\ (pc[h] = "reply" /\ status[h] = 200) \/ store = b.store
    /\ pc[h] = "ttl" => cfg = b.cfg
    /\ pc[h] = "response" =>
         cfg = IF req[h].ttl = None THEN b.cfg ELSE [b.cfg EXCEPT !.ttl = req[h].ttl]
    /\ pc[h] = "record" /\ req[h].ttl = None /\ req[h].response = None => cfg = b.cfg
    /\ pc[h] \in {"ttl", "response", "record", "reread", "update"} => defaults = b.defaults
    /\ pc[h] \in Undoing => cfg.ttl = b.cfg.ttl
    /\ pc[h] \in {"undoRecord", "undoUpdate"} => cfg.response = b.cfg.response
    /\ pc[h] = "undoUpdate" => cfg.record = b.cfg.record
    /\ pc[h] = "reply" /\ status[h] = 500 => cfg = b.cfg /\ defaults = ResolverDefaults(b.cfg)
    /\ pc[h] = "reply" /\ status[h] = 400 =>
         /\ defaults = b.defaults
         /\ \/ cfg = b.cfg
            \/ /\ req[h].ttl # None /\ req[h].response = "bad"
               /\ cfg = [b.cfg EXCEPT !.ttl = req[h].ttl]
    /\ pc[h] = "reply" => status[h] \in {200, 400, 500}

Trace == ZoneTrace /\ DefaultsTrace

\* The same for the defaults as ZonesSync for the zones.
DefaultsSync ==
  ~halfway /\ ~mixed =>
    /\ AllIdle => cfg = store.defaults /\ defaults = ResolverDefaults(cfg)
    /\ \A h \in Handlers : pc[h] # "idle" =>
         /\ ZoneRequest(req[h]) \/ pc[h] = "reply" =>
              cfg = store.defaults /\ defaults = ResolverDefaults(cfg)
         /\ DefaultsRequest(req[h]) /\ pc[h] # "reply" => previous[h] = store.defaults
         /\ pc[h] \in {"ttl", "response", "record", "reread", "update"} =>
              defaults = ResolverDefaults(store.defaults)
         /\ pc[h] = "update" => snap[h] = ResolverDefaults(cfg)
         /\ pc[h] \in {"dump", "assign", "args", "save"} => defaults = ResolverDefaults(cfg)
         /\ pc[h] = "save" => snap[h].defaults = cfg

IInv ==
  /\ TypeOK /\ NoDuplicatePatterns /\ Locals /\ Overlap
  /\ PromisedInForce /\ NotPromised /\ PromisedSaved
  /\ ZonesSync /\ Trace /\ DefaultsSync

-----------------------------------------------------------------------------
(* The values of the variables.                                            *)

\* A request is of one kind.
LEMMA Kinds ==
  ASSUME NEW r \in Requests
  PROVE  \/ ZoneRequest(r) /\ ~DefaultsRequest(r) /\ r.op # "defaults" /\ r.pattern \in Patterns
         \/ DefaultsRequest(r) /\ ~ZoneRequest(r) /\ r.op = "defaults"
BY ApiServerAssumption DEF ZoneRequest, DefaultsRequest

\* The invariant makes the table one that the lemmas are about.
LEMMA TableOK ==
  ASSUME TypeOK, NoDuplicatePatterns
  PROVE  Table(zones)
BY DEF TypeOK, Tables, NoDuplicatePatterns, Table, NoDuplicates, Row

\* What was in force when a request began.
LEMMA InForceOK ==
  ASSUME TypeOK
  PROVE  /\ InForce \in States
         /\ InForce.zones = zones /\ InForce.defaults = defaults
         /\ InForce.cfg = cfg /\ InForce.store = store
BY DEF TypeOK, States, InForce

\* What SaveSnapshot was given ...
LEMMA SnapshotFields ==
  ASSUME NEW s \in Snapshots
  PROVE  s.defaults \in ServerDefaults /\ s.zones \in ZoneMaps
BY Zenon DEF Snapshots

\* ... and what it may be given.
LEMMA SnapshotOf ==
  ASSUME NEW d \in ServerDefaults, NEW m \in ZoneMaps
  PROVE  LET s == [defaults |-> d, zones |-> m]
         IN  s \in Snapshots /\ s.defaults = d /\ s.zones = m
BY DEF Snapshots

\* What main hands to UpdateDefaults and New.
LEMMA FallbacksOf ==
  ASSUME NEW d \in ServerDefaults
  PROVE  ResolverDefaults(d) \in Fallbacks
BY DEF ResolverDefaults, ServerDefaults, Fallbacks

\* The fields of a defaults request may be assigned.
LEMMA Assigned ==
  ASSUME NEW d \in ServerDefaults, NEW r, DefaultsRequest(r)
  PROVE  /\ r.ttl # None => [d EXCEPT !.ttl = r.ttl] \in ServerDefaults
         /\ r.response \notin {None, "bad"} =>
              [d EXCEPT !.response = r.response] \in ServerDefaults
         /\ r.record # None => [d EXCEPT !.record = r.record] \in ServerDefaults
BY DEF ServerDefaults, DefaultsRequest

\* Defaults that agree in each field are equal.
LEMMA SameDefaults ==
  ASSUME NEW d \in ServerDefaults, NEW e \in ServerDefaults,
         d.ttl = e.ttl, d.response = e.response, d.record = e.record
  PROVE  d = e
BY DEF ServerDefaults

-----------------------------------------------------------------------------
(* Each action keeps the invariant.                                        *)

\* A request that finds others in progress is not alone, nor are they.
LEMMA Begins ==
  ASSUME IInv, NEW h \in Handlers, NEW r \in Requests, NEW l \in Points \ {"idle"},
         pc[h] = "idle", served < MaxRequests, Begin(h, r), Goto(h, l)
  PROVE  /\ served' \in 0 .. MaxRequests /\ alone' \in [Handlers -> BOOLEAN] /\ mixed' \in BOOLEAN
         /\ Overlap' /\ (~mixed' => ~mixed /\ AllIdle) /\ req' = [req EXCEPT ![h] = r]
         /\ before' \in [Handlers -> States \cup {None}]
         /\ \A g \in Handlers : alone'[g] /\ pc'[g] # "idle" => g = h /\ before'[h] = InForce
<1> USE InForceOK DEF IInv, overlap, Goto, Begin
<1>1. served' \in 0 .. MaxRequests
  BY ApiServerAssumption DEF TypeOK
<1>2. CASE AllIdle
  <2>1. Overlap' /\ UNCHANGED <<alone, mixed>> /\ req' = [req EXCEPT ![h] = r]
    BY <1>2 DEF TypeOK, Overlap, AllIdle
  <2>2. before' = [before EXCEPT ![h] = InForce] /\ InForce \in States
    BY <1>2 DEF TypeOK
  <2> HIDE DEF InForce
  <2>3. before' \in [Handlers -> States \cup {None}] /\ before'[h] = InForce
    BY <2>2 DEF TypeOK
  <2>4. \A g \in Handlers : g # h => pc'[g] = "idle"
    BY <1>2 DEF TypeOK, AllIdle
  <2> QED BY <1>1, <1>2, <2>1, <2>3, <2>4 DEF TypeOK
<1>3. CASE ~AllIdle
  <2>1. /\ before' = [g \in Handlers |-> None] /\ alone' = [g \in Handlers |-> g # h /\ pc[g] = "idle"] /\ mixed' = TRUE
        /\ req' = [req EXCEPT ![h] = r]
    BY <1>3
  <2>2. \A g \in Handlers : alone'[g] <=> g # h /\ pc[g] = "idle"
    BY <2>1
  <2>3. alone' \in [Handlers -> BOOLEAN]
    BY <2>1
  <2>4. pc'[h] = l /\ l # "idle" /\ \A g \in Handlers : g # h => pc'[g] = pc[g]
    BY DEF TypeOK
  <2>5. Overlap'
    BY <2>1, <2>2, <2>4 DEF Overlap
  <2>6. \A g \in Handlers : alone'[g] => pc'[g] = "idle"
    BY <2>2, <2>4
  <2> QED BY <1>1, <2>1, <2>3, <2>5, <2>6
<1> QED BY <1>2, <1>3

\* The copy of the zone is that of the table.
LEMMA StartZoneIInv ==
  ASSUME IInv, NEW h \in Handlers, NEW r \in Requests, StartZone(h, r)
  PROVE  IInv'
<1> USE NoneIsNone, Kinds DEF IInv, resolver, config, locals, overlap, bounds, Goto, Answer,
        StartZone
<1>0. /\ served' \in 0 .. MaxRequests /\ alone' \in [Handlers -> BOOLEAN] /\ mixed' \in BOOLEAN
      /\ Overlap' /\ (~mixed' => ~mixed /\ AllIdle) /\ req' = [req EXCEPT ![h] = r]
      /\ before' \in [Handlers -> States \cup {None}]
      /\ \A g \in Handlers : alone'[g] /\ pc'[g] # "idle" => g = h /\ before'[h] = InForce
      /\ InForce.zones = zones /\ InForce.defaults = defaults
      /\ InForce.cfg = cfg /\ InForce.store = store /\ Table(zones)
  BY Begins, InForceOK, TableOK DEF Points
<1>a. GetZone(zones, r.pattern) \in Configs \cup {None}
  BY TableOK, ZoneOrNone
<1>1. TypeOK'
  BY <1>0, <1>a DEF TypeOK, Points, Locals
<1>2. NoDuplicatePatterns'
  BY <1>0, <1>a DEF NoDuplicatePatterns
<1>3. Locals'
  BY <1>0, <1>a DEF Locals, Undoing, TypeOK
<1>4. Overlap'
  BY <1>0
<1>5. PromisedInForce'
  BY <1>0, <1>a DEF PromisedInForce
<1>6. NotPromised'
  BY <1>0, <1>a DEF NotPromised, Saving, Overlap, Locals, TypeOK
<1>7. PromisedSaved'
  BY <1>0, <1>a DEF PromisedSaved
<1>8. ZonesSync'
  BY <1>0, <1>a DEF ZonesSync, AllSame, Same, Saving, Undoing, AllIdle, Overlap, Locals, TypeOK, Points
<1>9. ZoneTrace' /\ DefaultsTrace'
  BY <1>0, <1>a DEF Trace, ZoneTrace, DefaultsTrace, Saving, Undoing, Overlap, Locals, TypeOK
<1>10. DefaultsSync'
  BY <1>0, <1>a DEF DefaultsSync, Overlap, AllIdle, Locals, TypeOK, Points
<1> QED BY <1>1, <1>2, <1>3, <1>4, <1>5, <1>6, <1>7, <1>8, <1>9, <1>10 DEF Trace

\* The copy of the defaults is that of the configuration.
LEMMA StartDefaultsIInv ==
  ASSUME IInv, NEW h \in Handlers, NEW r \in Requests, StartDefaults(h, r)
  PROVE  IInv'
<1> USE NoneIsNone, Kinds DEF IInv, resolver, config, locals, overlap, bounds, Goto, Answer,
        StartDefaults
<1>0. /\ served' \in 0 .. MaxRequests /\ alone' \in [Handlers -> BOOLEAN] /\ mixed' \in BOOLEAN
      /\ Overlap' /\ (~mixed' => ~mixed /\ AllIdle) /\ req' = [req EXCEPT ![h] = r]
      /\ before' \in [Handlers -> States \cup {None}]
      /\ \A g \in Handlers : alone'[g] /\ pc'[g] # "idle" => g = h /\ before'[h] = InForce
      /\ InForce.zones = zones /\ InForce.defaults = defaults
      /\ InForce.cfg = cfg /\ InForce.store = store /\ Table(zones)
  BY Begins, InForceOK, TableOK DEF Points
<1>1. TypeOK'
  BY <1>0 DEF TypeOK, Points, Locals
<1>2. NoDuplicatePatterns'
  BY <1>0 DEF NoDuplicatePatterns
<1>3. Locals'
  BY <1>0 DEF Locals, Undoing, TypeOK
<1>4. Overlap'
  BY <1>0
<1>5. PromisedInForce'
  BY <1>0 DEF PromisedInForce
<1>6. NotPromised'
  BY <1>0 DEF NotPromised, Saving, Overlap, Locals, TypeOK
<1>7. PromisedSaved'
  BY <1>0 DEF PromisedSaved
<1>8. ZonesSync'
  BY <1>0 DEF ZonesSync, AllSame, Same, Saving, Undoing, AllIdle, Overlap, Locals, TypeOK, Points
<1>9. ZoneTrace' /\ DefaultsTrace'
  BY <1>0 DEF Trace, ZoneTrace, DefaultsTrace, Saving, Undoing, Overlap, Locals, TypeOK
<1>10. DefaultsSync'
  BY <1>0 DEF DefaultsSync, Overlap, AllIdle, Locals, TypeOK, Points
<1> QED BY <1>1, <1>2, <1>3, <1>4, <1>5, <1>6, <1>7, <1>8, <1>9, <1>10 DEF Trace

\* An edit changes one zone of the table.
LEMMA Edits ==
  ASSUME IInv, NEW h \in Handlers, pc[h] = "apply", Edit(h)
  PROVE  /\ Table(zones') /\ GetZone(zones', req[h].pattern) \in Configs \cup {None}
         /\ \A q \in Patterns : q # req[h].pattern => GetZone(zones', q) = GetZone(zones, q)
         /\ EditOf(zones, req[h], zones')
<1>1. /\ Table(zones) /\ req[h] \in Requests /\ ZoneRequest(req[h])
      /\ req[h].pattern \in Patterns
  BY TableOK, Kinds DEF IInv, Locals
<1>2. CASE req[h].op = "upsert" /\ zones' = UpsertZone(zones, req[h].pattern, req[h].config)
  <2>1. req[h].config \in Configs
    BY <1>1, <1>2 DEF ZoneRequest
  <2> QED BY <1>1, <1>2, <2>1, UpsertSets DEF EditOf
<1>3. CASE /\ req[h].op = "delete" /\ At(zones, req[h].pattern) # {}
           /\ zones' = RemoveZone(zones, req[h].pattern)
  BY <1>1, <1>3, RemoveRemoves, ZoneOrNone DEF EditOf
<1>4. CASE /\ CanRemoveCountry(zones, req[h].pattern, req[h].country)
           /\ zones' = RemoveCountry(zones, req[h].pattern, req[h].country)
  BY <1>1, <1>4, CountryEdits DEF EditOf
<1> QED BY <1>2, <1>3, <1>4 DEF Edit

\* One zone is changed; the promises for it are off.
LEMMA EditIInv ==
  ASSUME IInv, NEW h \in Handlers, ApplyZone(h), Edit(h), status' = status
  PROVE  IInv'
<1> USE NoneIsNone, Kinds DEF IInv, resolver, config, locals, overlap, bounds, Goto, Answer
<1>0. /\ pc[h] = "apply" /\ Table(zones') /\ GetZone(zones', req[h].pattern) \in Configs \cup {None}
      /\ \A q \in Patterns : q # req[h].pattern => GetZone(zones', q) = GetZone(zones, q)
      /\ EditOf(zones, req[h], zones')
      /\ req[h].pattern \in Patterns /\ ZoneRequest(req[h]) /\ ~DefaultsRequest(req[h])
      /\ promised' = {v \in promised : v.pattern # req[h].pattern}
      /\ applied' = [applied EXCEPT ![h] = GetZone(zones', req[h].pattern)]
      /\ pc' = [pc EXCEPT ![h] = "dump"]
      /\ UNCHANGED <<defaults, cfg, cfgZones, store, req, previous, dumped, snap, alone, mixed>>
      /\ UNCHANGED <<before, halfway, served, restarts>>
  <2>1. pc[h] = "apply"
    BY DEF ApplyZone
  <2>2. ~FindsNothing(h)
    BY DEF Edit, FindsNothing
  <2>3. req[h] \in Requests /\ ZoneRequest(req[h])
    BY <2>1 DEF Locals
  <2> QED BY <2>1, <2>2, <2>3, Edits DEF ApplyZone
<1>1. TypeOK'
  <2>1. zones' \in Tables
    BY <1>0 DEF Table, Row, Tables
  <2> QED BY <1>0, <2>1 DEF TypeOK, Points, Locals
<1>2. NoDuplicatePatterns'
  BY <1>0 DEF NoDuplicatePatterns, Table, NoDuplicates
<1>3. Locals'
  BY <1>0 DEF Locals, Undoing, TypeOK
<1>4. Overlap'
  BY <1>0 DEF Overlap, TypeOK, AllIdle
<1>5. PromisedInForce'
  BY <1>0 DEF PromisedInForce, TypeOK, Overlap, NotPromised, Saving
<1>6. NotPromised'
  BY <1>0 DEF NotPromised, Saving, Overlap, Locals, TypeOK
<1>7. PromisedSaved'
  BY <1>0 DEF PromisedSaved
<1>8. ZonesSync'
  BY <1>0 DEF ZonesSync, AllSame, Same, Saving, Undoing, AllIdle, Overlap, Locals, TypeOK,
                 Points, Trace, ZoneTrace
<1>9. ZoneTrace' /\ DefaultsTrace'
  BY <1>0 DEF Trace, ZoneTrace, DefaultsTrace, Saving, Undoing, Overlap, Locals, TypeOK
<1>10. DefaultsSync'
  BY <1>0 DEF DefaultsSync, Overlap, AllIdle, Locals, TypeOK, Points
<1> QED BY <1>1, <1>2, <1>3, <1>4, <1>5, <1>6, <1>7, <1>8, <1>9, <1>10 DEF Trace

\* A request that is answered 404 has changed nothing.
LEMMA FindsNothingIInv ==
  ASSUME IInv, NEW h \in Handlers, ApplyZone(h), ~Edit(h)
  PROVE  IInv'
<1> USE NoneIsNone, Kinds DEF IInv, resolver, config, locals, overlap, bounds, Goto, Answer
<1>0. /\ pc[h] = "apply" /\ ZoneRequest(req[h]) /\ ~DefaultsRequest(req[h])
      /\ pc' = [pc EXCEPT ![h] = "reply"] /\ status' = [status EXCEPT ![h] = 404]
      /\ UNCHANGED <<zones, promised, applied>>
      /\ UNCHANGED <<defaults, cfg, cfgZones, store, req, previous, dumped, snap, alone, mixed>>
      /\ UNCHANGED <<before, halfway, served, restarts>>
  BY DEF ApplyZone, Locals
<1>1. TypeOK'
  BY <1>0 DEF TypeOK, Points, Locals
<1>2. NoDuplicatePatterns'
  BY <1>0 DEF NoDuplicatePatterns
<1>3. Locals'
  BY <1>0 DEF Locals, Undoing, TypeOK
<1>4. Overlap'
  BY <1>0 DEF Overlap, TypeOK, AllIdle
<1>5. PromisedInForce'
  BY <1>0 DEF PromisedInForce
<1>6. NotPromised'
  BY <1>0 DEF NotPromised, Saving, Overlap, Locals, TypeOK
<1>7. PromisedSaved'
  BY <1>0 DEF PromisedSaved
<1>8. ZonesSync'
  BY <1>0 DEF ZonesSync, AllSame, Same, Saving, Undoing, AllIdle, Overlap, Locals, TypeOK, Points
<1>9. ZoneTrace' /\ DefaultsTrace'
  BY <1>0 DEF Trace, ZoneTrace, DefaultsTrace, Saving, Undoing, Overlap, Locals, TypeOK
<1>10. DefaultsSync'
  BY <1>0 DEF DefaultsSync, Overlap, AllIdle, Locals, TypeOK, Points
<1> QED BY <1>1, <1>2, <1>3, <1>4, <1>5, <1>6, <1>7, <1>8, <1>9, <1>10 DEF Trace

\* The edit is made, or the zone is not there.
LEMMA ApplyZoneIInv ==
  ASSUME IInv, NEW h \in Handlers, ApplyZone(h)
  PROVE  IInv'
<1>1. CASE Edit(h)
  <2>1. ~FindsNothing(h)
    BY <1>1, Kinds DEF Edit, FindsNothing
  <2>2. status' = status
    BY <2>1 DEF ApplyZone
  <2> QED BY <1>1, <2>2, EditIInv
<1> QED BY <1>1, FindsNothingIInv

\* The copy is taken from the table.
LEMMA DumpIInv ==
  ASSUME IInv, NEW h \in Handlers, Dump(h)
  PROVE  IInv'
<1> USE NoneIsNone, Kinds DEF IInv, resolver, config, locals, overlap, bounds, Goto, Answer, Dump
<1>0. DumpZones(zones) \in ZoneMaps
  BY TableOK, DumpDumps
<1>1. TypeOK'
  BY <1>0 DEF TypeOK, Points, Locals
<1>2. NoDuplicatePatterns'
  BY <1>0 DEF NoDuplicatePatterns
<1>3. Locals'
  BY <1>0 DEF Locals, Undoing, TypeOK
<1>4. Overlap'
  BY <1>0 DEF Overlap, TypeOK, AllIdle
<1>5. PromisedInForce'
  BY <1>0 DEF PromisedInForce
<1>6. NotPromised'
  BY <1>0 DEF NotPromised, Saving, Overlap, Locals, TypeOK
<1>7. PromisedSaved'
  BY <1>0 DEF PromisedSaved
<1>8. ZonesSync'
  BY <1>0 DEF ZonesSync, AllSame, Same, Saving, Undoing, AllIdle, Overlap, Locals, TypeOK, Points
<1>9. ZoneTrace' /\ DefaultsTrace'
  BY <1>0 DEF Trace, ZoneTrace, DefaultsTrace, Saving, Undoing, Overlap, Locals, TypeOK
<1>10. DefaultsSync'
  BY <1>0 DEF DefaultsSync, Overlap, AllIdle, Locals, TypeOK, Points
<1> QED BY <1>1, <1>2, <1>3, <1>4, <1>5, <1>6, <1>7, <1>8, <1>9, <1>10 DEF Trace

\* The configuration has the copy.
LEMMA AssignIInv ==
  ASSUME IInv, NEW h \in Handlers, Assign(h)
  PROVE  IInv'
<1> USE NoneIsNone, Kinds DEF IInv, resolver, config, locals, overlap, bounds, Goto, Answer, Assign
<1>1. TypeOK'
  BY DEF TypeOK, Points, Locals
<1>2. NoDuplicatePatterns'
  BY DEF NoDuplicatePatterns
<1>3. Locals'
  BY DEF Locals, Undoing, TypeOK
<1>4. Overlap'
  BY DEF Overlap, TypeOK, AllIdle
<1>5. PromisedInForce'
  BY DEF PromisedInForce
<1>6. NotPromised'
  BY DEF NotPromised, Saving, Overlap, Locals, TypeOK
<1>7. PromisedSaved'
  BY DEF PromisedSaved
<1>8. ZonesSync'
  BY DEF ZonesSync, AllSame, Same, Saving, Undoing, AllIdle, Overlap, Locals, TypeOK, Points
<1>9. ZoneTrace' /\ DefaultsTrace'
  BY DEF Trace, ZoneTrace, DefaultsTrace, Saving, Undoing, Overlap, Locals, TypeOK
<1>10. DefaultsSync'
  BY DEF DefaultsSync, Overlap, AllIdle, Locals, TypeOK, Points
<1> QED BY <1>1, <1>2, <1>3, <1>4, <1>5, <1>6, <1>7, <1>8, <1>9, <1>10 DEF Trace

\* The arguments are what the configuration has.
LEMMA ReadArgumentsIInv ==
  ASSUME IInv, NEW h \in Handlers, ReadArguments(h)
  PROVE  IInv'
<1> USE NoneIsNone, Kinds DEF IInv, resolver, config, locals, overlap, bounds, Goto, Answer,
        ReadArguments
<1>0. LET s == [defaults |-> cfg, zones |-> cfgZones]
      IN  s \in Snapshots /\ s.defaults = cfg /\ s.zones = cfgZones
  BY SnapshotOf DEF TypeOK
<1>1. TypeOK'
  BY <1>0 DEF TypeOK, Points, Locals
<1>2. NoDuplicatePatterns'
  BY <1>0 DEF NoDuplicatePatterns
<1>3. Locals'
  BY <1>0 DEF Locals, Undoing, TypeOK
<1>4. Overlap'
  BY <1>0 DEF Overlap, TypeOK, AllIdle
<1>5. PromisedInForce'
  BY <1>0 DEF PromisedInForce
<1>6. NotPromised'
  BY <1>0 DEF NotPromised, Saving, Overlap, Locals, TypeOK
<1>7. PromisedSaved'
  BY <1>0 DEF PromisedSaved
<1>8. ZonesSync'
  BY <1>0 DEF ZonesSync, AllSame, Same, Saving, Undoing, AllIdle, Overlap, Locals, TypeOK, Points
<1>9. ZoneTrace' /\ DefaultsTrace'
  BY <1>0 DEF Trace, ZoneTrace, DefaultsTrace, Saving, Undoing, Overlap, Locals, TypeOK
<1>10. DefaultsSync'
  BY <1>0 DEF DefaultsSync, Overlap, AllIdle, Locals, TypeOK, Points
<1> QED BY <1>1, <1>2, <1>3, <1>4, <1>5, <1>6, <1>7, <1>8, <1>9, <1>10 DEF Trace

\* The store has the table.
LEMMA SavedIInv ==
  ASSUME IInv, NEW h \in Handlers, SaveSnapshot(h), store' = snap[h], Answer(h, 200)
  PROVE  IInv'
<1> USE NoneIsNone, Kinds DEF IInv, resolver, config, locals, overlap, bounds, Goto, Answer
<1>0. /\ snap[h] \in Snapshots /\ snap[h].defaults \in ServerDefaults /\ snap[h].zones \in ZoneMaps
      /\ \A p \in Patterns : Look(DumpZones(zones), p) = GetZone(zones, p)
      /\ pc[h] = "save" /\ pc' = [pc EXCEPT ![h] = "reply"] /\ status' = [status EXCEPT ![h] = 200]
      /\ req[h] \in Requests
      /\ UNCHANGED <<zones, defaults, cfg, cfgZones, req, previous, applied, dumped,
                       snap, promised>>
      /\ UNCHANGED <<before, alone, mixed, halfway, served, restarts>>
  <2>1. pc[h] = "save"
    BY DEF SaveSnapshot
  <2>2. snap[h] \in Snapshots /\ req[h] \in Requests
    BY <2>1 DEF Locals
  <2> QED BY <2>1, <2>2, SnapshotFields, TableOK, DumpDumps DEF SaveSnapshot
<1>1. TypeOK'
  BY <1>0 DEF TypeOK, Points, Locals
<1>2. NoDuplicatePatterns'
  BY <1>0 DEF NoDuplicatePatterns
<1>3. Locals'
  BY <1>0 DEF Locals, Undoing, TypeOK
<1>4. Overlap'
  BY <1>0 DEF Overlap, TypeOK, AllIdle
<1>5. PromisedInForce'
  BY <1>0 DEF PromisedInForce
<1>6. NotPromised'
  BY <1>0 DEF NotPromised, Saving, Overlap, Locals, TypeOK
<1>7. PromisedSaved'
  BY <1>0 DEF PromisedSaved, PromisedInForce, ZonesSync, TypeOK
<1>8. ZonesSync'
  BY <1>0 DEF ZonesSync, AllSame, Same, Saving, Undoing, AllIdle, Overlap, Locals, TypeOK, Points
<1>9. ZoneTrace' /\ DefaultsTrace'
  BY <1>0 DEF Trace, ZoneTrace, DefaultsTrace, Saving, Undoing, Overlap, Locals, TypeOK
<1>10. DefaultsSync'
  BY <1>0 DEF DefaultsSync, Overlap, AllIdle, Locals, TypeOK, Points
<1> QED BY <1>1, <1>2, <1>3, <1>4, <1>5, <1>6, <1>7, <1>8, <1>9, <1>10 DEF Trace

\* The store has what it had.
LEMMA NotSavedIInv ==
  ASSUME IInv, NEW h \in Handlers, SaveSnapshot(h), Goto(h, "undo"), UNCHANGED <<store, status>>
  PROVE  IInv'
<1> USE NoneIsNone, Kinds DEF IInv, resolver, config, locals, overlap, bounds, Goto, Answer
<1>0. /\ pc[h] = "save" /\ pc' = [pc EXCEPT ![h] = "undo"] /\ UNCHANGED <<store, status>>
      /\ DumpZones(zones) \in ZoneMaps /\ store.zones \in ZoneMaps
      /\ \A p \in Patterns : Look(DumpZones(zones), p) = GetZone(zones, p)
      /\ req[h] \in Requests
      /\ UNCHANGED <<zones, defaults, cfg, cfgZones, req, previous, applied, dumped,
                       snap, promised>>
      /\ UNCHANGED <<before, alone, mixed, halfway, served, restarts>>
  <2>1. pc[h] = "save"
    BY DEF SaveSnapshot
  <2>2. req[h] \in Requests
    BY <2>1 DEF Locals
  <2> QED BY <2>1, <2>2, SnapshotFields, TableOK, DumpDumps DEF SaveSnapshot, TypeOK
<1>a. AllSame => DumpZones(zones) = store.zones
  BY <1>0, SameMap DEF AllSame, Same
<1>1. TypeOK'
  BY <1>0, <1>a DEF TypeOK, Points, Locals
<1>2. NoDuplicatePatterns'
  BY <1>0, <1>a DEF NoDuplicatePatterns
<1>3. Locals'
  BY <1>0, <1>a DEF Locals, Undoing, TypeOK
<1>4. Overlap'
  BY <1>0, <1>a DEF Overlap, TypeOK, AllIdle
<1>5. PromisedInForce'
  BY <1>0, <1>a DEF PromisedInForce
<1>6. NotPromised'
  BY <1>0, <1>a DEF NotPromised, Saving, Overlap, Locals, TypeOK
<1>7. PromisedSaved'
  BY <1>0, <1>a DEF PromisedSaved
<1>8. ZonesSync'
  BY <1>0, <1>a DEF ZonesSync, AllSame, Same, Saving, Undoing, AllIdle, Overlap, Locals, TypeOK, Points
<1>9. ZoneTrace' /\ DefaultsTrace'
  BY <1>0, <1>a DEF Trace, ZoneTrace, DefaultsTrace, Saving, Undoing, Overlap, Locals, TypeOK
<1>10. DefaultsSync'
  BY <1>0, <1>a DEF DefaultsSync, Overlap, AllIdle, Locals, TypeOK, Points
<1> QED BY <1>1, <1>2, <1>3, <1>4, <1>5, <1>6, <1>7, <1>8, <1>9, <1>10 DEF Trace

\* The transaction commits, or it does not.
LEMMA SaveSnapshotIInv ==
  ASSUME IInv, NEW h \in Handlers, SaveSnapshot(h)
  PROVE  IInv'
BY SavedIInv, NotSavedIInv DEF SaveSnapshot

\* The old value is put back.
LEMMA UndoZoneIInv ==
  ASSUME IInv, NEW h \in Handlers, UndoZone(h)
  PROVE  IInv'
<1> USE NoneIsNone, Kinds DEF IInv, resolver, config, locals, overlap, bounds, Goto, Answer
<1>0. /\ pc[h] = "undo" /\ req[h] \in Requests /\ req[h].pattern \in Patterns
      /\ ZoneRequest(req[h]) /\ ~DefaultsRequest(req[h])
      /\ Table(zones') /\ GetZone(zones', req[h].pattern) = previous[h]
      /\ \A q \in Patterns : q # req[h].pattern => GetZone(zones', q) = GetZone(zones, q)
      /\ (alone[h] => PutBackOf(before[h].zones, req[h], zones'))
      /\ pc' = [pc EXCEPT ![h] = "dumpUndone"]
      /\ promised' = IF alone[h] THEN promised ELSE {v \in promised : v.pattern # req[h].pattern}
      /\ UNCHANGED <<defaults, cfg, cfgZones, store, req, previous, applied, dumped, snap, status>>
      /\ UNCHANGED <<before, alone, mixed, halfway, served, restarts>>
  <2>1. pc[h] = "undo" /\ req[h].op # "defaults"
    BY DEF UndoZone
  <2>2. /\ req[h] \in Requests /\ ZoneRequest(req[h]) /\ ~DefaultsRequest(req[h])
        /\ req[h].pattern \in Patterns
    BY <2>1 DEF Locals
  <2>3. previous[h] \in Configs \cup {None} /\ Table(zones)
    BY <2>1, <2>2, TableOK DEF Locals
  <2>4. /\ Table(zones') /\ GetZone(zones', req[h].pattern) = previous[h]
        /\ \A q \in Patterns : q # req[h].pattern => GetZone(zones', q) = GetZone(zones, q)
    <3>1. CASE previous[h] = None
      <4>1. zones' = RemoveZone(zones, req[h].pattern)
        BY <3>1 DEF UndoZone
      <4> QED BY <2>2, <2>3, <3>1, <4>1, RemoveRemoves
    <3>2. CASE previous[h] # None
      <4>1. zones' = UpsertZone(zones, req[h].pattern, previous[h])
        BY <3>2 DEF UndoZone
      <4> QED BY <2>2, <2>3, <3>2, <4>1, UpsertSets
    <3> QED BY <3>1, <3>2
  <2>5. ASSUME alone[h] PROVE PutBackOf(before[h].zones, req[h], zones')
    <3> DEFINE zs == before[h].zones
               p == req[h].pattern
    <3>1. Table(zs) /\ previous[h] = GetZone(zs, p) /\ EditOf(zs, req[h], zones)
      BY <2>1, <2>2, <2>5 DEF Trace, ZoneTrace, Saving
    <3>2. zones' = IF previous[h] = None THEN RemoveZone(zones, p)
                   ELSE UpsertZone(zones, p, previous[h])
      BY DEF UndoZone
    <3> HIDE DEF zs, p
    <3>3. p \in Patterns
      BY <2>2 DEF p
    <3>4. CASE \E c \in Configs : zones = UpsertZone(zs, p, c)
      <4>1. zones' = zs
        BY <3>1, <3>2, <3>3, <3>4, PutBack
      <4> QED BY <4>1 DEF PutBackOf, zs
    <3>5. CASE req[h].op = "delete" /\ GetZone(zs, p) # None /\ zones = RemoveZone(zs, p)
      <4>1. zones' = MovedLast(zs, p)
        BY <3>1, <3>2, <3>3, <3>5, RemovedAndPutBack
      <4> QED BY <3>5, <4>1 DEF PutBackOf, zs, p
    <3> QED BY <3>1, <3>4, <3>5 DEF EditOf, p
  <2> QED BY <2>1, <2>2, <2>4, <2>5 DEF UndoZone, Spoiled
<1>1. TypeOK'
  <2>1. zones' \in Tables
    BY <1>0 DEF Table, Row, Tables
  <2> QED BY <1>0, <2>1 DEF TypeOK, Points, Locals
<1>2. NoDuplicatePatterns'
  BY <1>0 DEF NoDuplicatePatterns, Table, NoDuplicates
<1>3. Locals'
  BY <1>0 DEF Locals, Undoing, TypeOK
<1>4. Overlap'
  BY <1>0 DEF Overlap, TypeOK, AllIdle
<1>5. PromisedInForce'
  BY <1>0 DEF PromisedInForce, TypeOK, Overlap, NotPromised, Saving
<1>6. NotPromised'
  BY <1>0 DEF NotPromised, Saving, Overlap, Locals, TypeOK
<1>7. PromisedSaved'
  BY <1>0 DEF PromisedSaved
<1>8. ZonesSync'
  BY <1>0 DEF ZonesSync, AllSame, Same, Saving, Undoing, AllIdle, Overlap, Locals, TypeOK, Points
<1>9. ZoneTrace' /\ DefaultsTrace'
  BY <1>0 DEF Trace, ZoneTrace, DefaultsTrace, Saving, Undoing, Overlap, Locals, TypeOK
<1>10. DefaultsSync'
  BY <1>0 DEF DefaultsSync, Overlap, AllIdle, Locals, TypeOK, Points
<1> QED BY <1>1, <1>2, <1>3, <1>4, <1>5, <1>6, <1>7, <1>8, <1>9, <1>10 DEF Trace

\* The copy is taken from the table.
LEMMA DumpUndoneIInv ==
  ASSUME IInv, NEW h \in Handlers, DumpUndone(h)
  PROVE  IInv'
<1> USE NoneIsNone, Kinds DEF IInv, resolver, config, locals, overlap, bounds, Goto, Answer,
        DumpUndone
<1>0. DumpZones(zones) \in ZoneMaps
  BY TableOK, DumpDumps
<1>1. TypeOK'
  BY <1>0 DEF TypeOK, Points, Locals
<1>2. NoDuplicatePatterns'
  BY <1>0 DEF NoDuplicatePatterns
<1>3. Locals'
  BY <1>0 DEF Locals, Undoing, TypeOK
<1>4. Overlap'
  BY <1>0 DEF Overlap, TypeOK, AllIdle
<1>5. PromisedInForce'
  BY <1>0 DEF PromisedInForce
<1>6. NotPromised'
  BY <1>0 DEF NotPromised, Saving, Overlap, Locals, TypeOK
<1>7. PromisedSaved'
  BY <1>0 DEF PromisedSaved
<1>8. ZonesSync'
  BY <1>0 DEF ZonesSync, AllSame, Same, Saving, Undoing, AllIdle, Overlap, Locals, TypeOK, Points
<1>9. ZoneTrace' /\ DefaultsTrace'
  BY <1>0 DEF Trace, ZoneTrace, DefaultsTrace, Saving, Undoing, Overlap, Locals, TypeOK
<1>10. DefaultsSync'
  BY <1>0 DEF DefaultsSync, Overlap, AllIdle, Locals, TypeOK, Points
<1> QED BY <1>1, <1>2, <1>3, <1>4, <1>5, <1>6, <1>7, <1>8, <1>9, <1>10 DEF Trace

\* The configuration agrees with the store again.
LEMMA AssignUndoneIInv ==
  ASSUME IInv, NEW h \in Handlers, AssignUndone(h)
  PROVE  IInv'
<1> USE NoneIsNone, Kinds DEF IInv, resolver, config, locals, overlap, bounds, Goto, Answer,
        AssignUndone
<1>0. /\ DumpZones(zones) \in ZoneMaps /\ store.zones \in ZoneMaps
      /\ (AllSame => DumpZones(zones) = store.zones)
  BY TableOK, DumpDumps, SnapshotFields, SameMap DEF AllSame, Same, TypeOK
<1>1. TypeOK'
  BY <1>0 DEF TypeOK, Points, Locals
<1>2. NoDuplicatePatterns'
  BY <1>0 DEF NoDuplicatePatterns
<1>3. Locals'
  BY <1>0 DEF Locals, Undoing, TypeOK
<1>4. Overlap'
  BY <1>0 DEF Overlap, TypeOK, AllIdle
<1>5. PromisedInForce'
  BY <1>0 DEF PromisedInForce
<1>6. NotPromised'
  BY <1>0 DEF NotPromised, Saving, Overlap, Locals, TypeOK
<1>7. PromisedSaved'
  BY <1>0 DEF PromisedSaved
<1>8. ZonesSync'
  BY <1>0 DEF ZonesSync, AllSame, Same, Saving, Undoing, AllIdle, Overlap, Locals, TypeOK, Points
<1>9. ZoneTrace' /\ DefaultsTrace'
  BY <1>0 DEF Trace, ZoneTrace, DefaultsTrace, Saving, Undoing, Overlap, Locals, TypeOK
<1>10. DefaultsSync'
  BY <1>0 DEF DefaultsSync, Overlap, AllIdle, Locals, TypeOK, Points
<1> QED BY <1>1, <1>2, <1>3, <1>4, <1>5, <1>6, <1>7, <1>8, <1>9, <1>10 DEF Trace

\* The first field.
LEMMA SetTTLIInv ==
  ASSUME IInv, NEW h \in Handlers, SetTTL(h)
  PROVE  IInv'
<1> USE NoneIsNone, Kinds DEF IInv, resolver, config, locals, overlap, bounds, Goto, Answer
<1>0. /\ DefaultsRequest(req[h]) /\ ~ZoneRequest(req[h]) /\ req[h] \in Requests /\ pc[h] = "ttl"
  BY DEF SetTTL, Locals
<1>a. /\ cfg' \in ServerDefaults
      /\ pc' = [pc EXCEPT ![h] = "response"] /\ UNCHANGED status
      /\ cfg' = IF req[h].ttl = None THEN cfg ELSE [cfg EXCEPT !.ttl = req[h].ttl]
      /\ UNCHANGED <<zones, defaults, cfgZones, store, req, previous, applied, dumped,
                       snap, promised>>
      /\ UNCHANGED <<before, alone, mixed, halfway, served, restarts>>
  <2>1. CASE req[h].ttl = None
    BY <1>0, <2>1 DEF SetTTL, TypeOK
  <2>2. CASE req[h].ttl # None
    BY <1>0, <2>2, Assigned DEF SetTTL, TypeOK
  <2> QED BY <2>1, <2>2
<1>1. TypeOK'
  BY <1>0, <1>a DEF TypeOK, Points, Locals
<1>2. NoDuplicatePatterns'
  BY <1>0, <1>a DEF NoDuplicatePatterns
<1>3. Locals'
  BY <1>0, <1>a DEF Locals, Undoing, TypeOK
<1>4. Overlap'
  BY <1>0, <1>a DEF Overlap, TypeOK, AllIdle
<1>5. PromisedInForce'
  BY <1>0, <1>a DEF PromisedInForce
<1>6. NotPromised'
  BY <1>0, <1>a DEF NotPromised, Saving, Overlap, Locals, TypeOK
<1>7. PromisedSaved'
  BY <1>0, <1>a DEF PromisedSaved
<1>8. ZonesSync'
  BY <1>0, <1>a DEF ZonesSync, AllSame, Same, Saving, Undoing, AllIdle, Overlap, Locals, TypeOK, Points
<1>9. ZoneTrace' /\ DefaultsTrace'
  BY <1>0, <1>a DEF Trace, ZoneTrace, DefaultsTrace, Saving, Undoing, Overlap, Locals, TypeOK
<1>10. DefaultsSync'
  BY <1>0, <1>a DEF DefaultsSync, Overlap, AllIdle, Locals, TypeOK, Points
<1> QED BY <1>1, <1>2, <1>3, <1>4, <1>5, <1>6, <1>7, <1>8, <1>9, <1>10 DEF Trace

\* A refusal comes when only the TTL may have been assigned.
LEMMA SetResponseIInv ==
  ASSUME IInv, NEW h \in Handlers, SetResponse(h)
  PROVE  IInv'
<1> USE NoneIsNone, Kinds DEF IInv, resolver, config, locals, overlap, bounds, Goto, Answer
<1>0. /\ DefaultsRequest(req[h]) /\ ~ZoneRequest(req[h]) /\ req[h] \in Requests /\ pc[h] = "response"
  BY DEF SetResponse, Locals
<1>a. /\ cfg' \in ServerDefaults
      /\ \/ /\ pc' = [pc EXCEPT ![h] = "reply"] /\ status' = [status EXCEPT ![h] = 400]
            /\ req[h].response = "bad" /\ UNCHANGED cfg
            /\ halfway' \in BOOLEAN /\ (req[h].ttl # None => halfway')
            /\ (halfway => halfway')
         \/ /\ pc' = [pc EXCEPT ![h] = "record"] /\ UNCHANGED <<status, halfway>>
            /\ (req[h].response = None => cfg' = cfg)
      /\ UNCHANGED <<zones, defaults, cfgZones, store, req, previous, applied, dumped,
                       snap, promised>>
      /\ UNCHANGED <<before, alone, mixed, served, restarts>>
  <2>1. CASE req[h].response = "bad"
    <3>1. /\ pc' = [pc EXCEPT ![h] = "reply"] /\ status' = [status EXCEPT ![h] = 400]
          /\ UNCHANGED cfg /\ halfway' = (halfway \/ req[h].ttl # None)
      BY Zenon, <2>1 DEF SetResponse
    <3>2. cfg' \in ServerDefaults
      BY <3>1 DEF TypeOK
    <3>3. halfway' \in BOOLEAN /\ (req[h].ttl # None => halfway') /\ (halfway => halfway')
      BY Zenon, <3>1
    <3> QED BY <2>1, <3>1, <3>2, <3>3 DEF SetResponse
  <2>2. CASE req[h].response # "bad" /\ req[h].response = None
    BY <1>0, <2>2 DEF SetResponse, TypeOK
  <2>3. CASE req[h].response # "bad" /\ req[h].response # None
    <3>1. cfg' = [cfg EXCEPT !.response = req[h].response]
      BY <2>3 DEF SetResponse
    <3>2. cfg' \in ServerDefaults
      BY <1>0, <2>3, <3>1, Assigned DEF TypeOK
    <3> QED BY <1>0, <2>3, <3>2 DEF SetResponse
  <2> QED BY <2>1, <2>2, <2>3
<1>1. TypeOK'
  BY <1>0, <1>a DEF TypeOK, Points, Locals
<1>2. NoDuplicatePatterns'
  BY <1>0, <1>a DEF NoDuplicatePatterns
<1>3. Locals'
  BY <1>0, <1>a DEF Locals, Undoing, TypeOK
<1>4. Overlap'
  BY <1>0, <1>a DEF Overlap, TypeOK, AllIdle
<1>5. PromisedInForce'
  BY <1>0, <1>a DEF PromisedInForce
<1>6. NotPromised'
  BY <1>0, <1>a DEF NotPromised, Saving, Overlap, Locals, TypeOK
<1>7. PromisedSaved'
  BY <1>0, <1>a DEF PromisedSaved
<1>8. ZonesSync'
  BY <1>0, <1>a DEF ZonesSync, AllSame, Same, Saving, Undoing, AllIdle, Overlap, Locals, TypeOK, Points
<1>9. ZoneTrace' /\ DefaultsTrace'
  BY <1>0, <1>a DEF Trace, ZoneTrace, DefaultsTrace, Saving, Undoing, Overlap, Locals, TypeOK
<1>10. DefaultsSync'
  BY <1>0, <1>a DEF Trace, DefaultsTrace, DefaultsSync, Overlap, AllIdle, Locals, TypeOK, Points
<1> QED BY <1>1, <1>2, <1>3, <1>4, <1>5, <1>6, <1>7, <1>8, <1>9, <1>10 DEF Trace

\* An empty body has assigned nothing.
LEMMA SetRecordIInv ==
  ASSUME IInv, NEW h \in Handlers, SetRecord(h)
  PROVE  IInv'
<1> USE NoneIsNone, Kinds DEF IInv, resolver, config, locals, overlap, bounds, Goto, Answer
<1>0. /\ DefaultsRequest(req[h]) /\ ~ZoneRequest(req[h]) /\ req[h] \in Requests /\ pc[h] = "record"
  BY DEF SetRecord, Locals
<1>a. /\ cfg' \in ServerDefaults
      /\ \/ /\ pc' = [pc EXCEPT ![h] = "reply"] /\ status' = [status EXCEPT ![h] = 400]
            /\ req[h].ttl = None /\ req[h].response = None /\ UNCHANGED cfg
         \/ pc' = [pc EXCEPT ![h] = "reread"] /\ UNCHANGED status
      /\ UNCHANGED <<zones, defaults, cfgZones, store, req, previous, applied, dumped,
                       snap, promised>>
      /\ UNCHANGED <<before, alone, mixed, halfway, served, restarts>>
  <2>1. CASE req[h].record = None
    BY <1>0, <2>1 DEF SetRecord, TypeOK
  <2>2. CASE req[h].record # None
    BY <1>0, <2>2, Assigned DEF SetRecord, TypeOK
  <2> QED BY <2>1, <2>2
<1>1. TypeOK'
  BY SMTT(30), <1>0, <1>a DEF TypeOK, Points, Locals
<1>2. NoDuplicatePatterns'
  BY <1>0, <1>a DEF NoDuplicatePatterns
<1>3. Locals'
  BY <1>0, <1>a DEF Locals, Undoing, TypeOK
<1>4. Overlap'
  BY <1>0, <1>a DEF Overlap, TypeOK, AllIdle
<1>5. PromisedInForce'
  BY <1>0, <1>a DEF PromisedInForce
<1>6. NotPromised'
  BY <1>0, <1>a DEF NotPromised, Saving, Overlap, Locals, TypeOK
<1>7. PromisedSaved'
  BY <1>0, <1>a DEF PromisedSaved
<1>8. ZonesSync'
  BY <1>0, <1>a DEF ZonesSync, AllSame, Same, Saving, Undoing, AllIdle, Overlap, Locals, TypeOK, Points
<1>9. ZoneTrace' /\ DefaultsTrace'
  BY <1>0, <1>a DEF Trace, ZoneTrace, DefaultsTrace, Saving, Undoing, Overlap, Locals, TypeOK
<1>10. DefaultsSync'
  BY <1>0, <1>a DEF Trace, DefaultsTrace, DefaultsSync, Overlap, AllIdle, Locals, TypeOK, Points
<1> QED BY <1>1, <1>2, <1>3, <1>4, <1>5, <1>6, <1>7, <1>8, <1>9, <1>10 DEF Trace

\* The arguments are what the configuration has.
LEMMA ReadDefaultsIInv ==
  ASSUME IInv, NEW h \in Handlers, ReadDefaults(h)
  PROVE  IInv'
<1> USE NoneIsNone, Kinds DEF IInv, resolver, config, locals, overlap, bounds, Goto, Answer,
        ReadDefaults
<1>0. ResolverDefaults(cfg) \in Fallbacks
  BY FallbacksOf DEF TypeOK
<1>1. TypeOK'
  BY <1>0 DEF TypeOK, Points, Locals
<1>2. NoDuplicatePatterns'
  BY <1>0 DEF NoDuplicatePatterns
<1>3. Locals'
  BY <1>0 DEF Locals, Undoing, TypeOK
<1>4. Overlap'
  BY <1>0 DEF Overlap, TypeOK, AllIdle
<1>5. PromisedInForce'
  BY <1>0 DEF PromisedInForce
<1>6. NotPromised'
  BY <1>0 DEF NotPromised, Saving, Overlap, Locals, TypeOK
<1>7. PromisedSaved'
  BY <1>0 DEF PromisedSaved
<1>8. ZonesSync'
  BY <1>0 DEF ZonesSync, AllSame, Same, Saving, Undoing, AllIdle, Overlap, Locals, TypeOK, Points
<1>9. ZoneTrace' /\ DefaultsTrace'
  BY <1>0 DEF Trace, ZoneTrace, DefaultsTrace, Saving, Undoing, Overlap, Locals, TypeOK
<1>10. DefaultsSync'
  BY <1>0 DEF DefaultsSync, Overlap, AllIdle, Locals, TypeOK, Points
<1> QED BY <1>1, <1>2, <1>3, <1>4, <1>5, <1>6, <1>7, <1>8, <1>9, <1>10 DEF Trace

\* The resolver has the configuration's defaults.
LEMMA UpdateDefaultsIInv ==
  ASSUME IInv, NEW h \in Handlers, UpdateDefaults(h)
  PROVE  IInv'
<1> USE NoneIsNone, Kinds DEF IInv, resolver, config, locals, overlap, bounds, Goto, Answer,
        UpdateDefaults
<1>1. TypeOK'
  BY DEF TypeOK, Points, Locals
<1>2. NoDuplicatePatterns'
  BY DEF NoDuplicatePatterns
<1>3. Locals'
  BY DEF Locals, Undoing, TypeOK
<1>4. Overlap'
  BY DEF Overlap, TypeOK, AllIdle
<1>5. PromisedInForce'
  BY DEF PromisedInForce
<1>6. NotPromised'
  BY DEF NotPromised, Saving, Overlap, Locals, TypeOK
<1>7. PromisedSaved'
  BY DEF PromisedSaved
<1>8. ZonesSync'
  BY DEF ZonesSync, AllSame, Same, Saving, Undoing, AllIdle, Overlap, Locals, TypeOK, Points
<1>9. ZoneTrace' /\ DefaultsTrace'
  BY DEF Trace, ZoneTrace, DefaultsTrace, Saving, Undoing, Overlap, Locals, TypeOK
<1>10. DefaultsSync'
  BY DEF DefaultsSync, Overlap, AllIdle, Locals, TypeOK, Points
<1> QED BY <1>1, <1>2, <1>3, <1>4, <1>5, <1>6, <1>7, <1>8, <1>9, <1>10 DEF Trace

\* The old TTL is put back.
LEMMA UndoTTLIInv ==
  ASSUME IInv, NEW h \in Handlers, UndoTTL(h)
  PROVE  IInv'
<1> USE NoneIsNone, Kinds DEF IInv, resolver, config, locals, overlap, bounds, Goto, Answer,
        UndoTTL
<1>0. /\ previous[h] \in ServerDefaults /\ DefaultsRequest(req[h]) /\ ~ZoneRequest(req[h])
      /\ cfg' \in ServerDefaults /\ cfg'.ttl = previous[h].ttl
      /\ \A f \in {"ttl", "response", "record"} \ {"ttl"} : cfg'[f] = cfg[f]
  BY DEF TypeOK, Locals, Undoing, ServerDefaults
<1>1. TypeOK'
  BY <1>0 DEF TypeOK, Points, Locals
<1>2. NoDuplicatePatterns'
  BY <1>0 DEF NoDuplicatePatterns
<1>3. Locals'
  BY <1>0 DEF Locals, Undoing, TypeOK
<1>4. Overlap'
  BY <1>0 DEF Overlap, TypeOK, AllIdle
<1>5. PromisedInForce'
  BY <1>0 DEF PromisedInForce
<1>6. NotPromised'
  BY <1>0 DEF NotPromised, Saving, Overlap, Locals, TypeOK
<1>7. PromisedSaved'
  BY <1>0 DEF PromisedSaved
<1>8. ZonesSync'
  BY <1>0 DEF ZonesSync, AllSame, Same, Saving, Undoing, AllIdle, Overlap, Locals, TypeOK, Points
<1>9. ZoneTrace' /\ DefaultsTrace'
  BY <1>0 DEF Trace, ZoneTrace, DefaultsTrace, Saving, Undoing, Overlap, Locals, TypeOK
<1>10. DefaultsSync'
  BY <1>0 DEF DefaultsSync, Overlap, AllIdle, Locals, TypeOK, Points
<1> QED BY <1>1, <1>2, <1>3, <1>4, <1>5, <1>6, <1>7, <1>8, <1>9, <1>10 DEF Trace

\* The old response is put back.
LEMMA UndoResponseIInv ==
  ASSUME IInv, NEW h \in Handlers, UndoResponse(h)
  PROVE  IInv'
<1> USE NoneIsNone, Kinds DEF IInv, resolver, config, locals, overlap, bounds, Goto, Answer,
        UndoResponse
<1>0. /\ previous[h] \in ServerDefaults /\ DefaultsRequest(req[h]) /\ ~ZoneRequest(req[h])
      /\ cfg' \in ServerDefaults /\ cfg'.response = previous[h].response
      /\ \A f \in {"ttl", "response", "record"} \ {"response"} : cfg'[f] = cfg[f]
  BY DEF TypeOK, Locals, Undoing, ServerDefaults
<1>1. TypeOK'
  BY <1>0 DEF TypeOK, Points, Locals
<1>2. NoDuplicatePatterns'
  BY <1>0 DEF NoDuplicatePatterns
<1>3. Locals'
  BY <1>0 DEF Locals, Undoing, TypeOK
<1>4. Overlap'
  BY <1>0 DEF Overlap, TypeOK, AllIdle
<1>5. PromisedInForce'
  BY <1>0 DEF PromisedInForce
<1>6. NotPromised'
  BY <1>0 DEF NotPromised, Saving, Overlap, Locals, TypeOK
<1>7. PromisedSaved'
  BY <1>0 DEF PromisedSaved
<1>8. ZonesSync'
  BY <1>0 DEF ZonesSync, AllSame, Same, Saving, Undoing, AllIdle, Overlap, Locals, TypeOK, Points
<1>9. ZoneTrace' /\ DefaultsTrace'
  BY <1>0 DEF Trace, ZoneTrace, DefaultsTrace, Saving, Undoing, Overlap, Locals, TypeOK
<1>10. DefaultsSync'
  BY <1>0 DEF DefaultsSync, Overlap, AllIdle, Locals, TypeOK, Points
<1> QED BY <1>1, <1>2, <1>3, <1>4, <1>5, <1>6, <1>7, <1>8, <1>9, <1>10 DEF Trace

\* The old switch of recording is put back.
LEMMA UndoRecordIInv ==
  ASSUME IInv, NEW h \in Handlers, UndoRecord(h)
  PROVE  IInv'
<1> USE NoneIsNone, Kinds DEF IInv, resolver, config, locals, overlap, bounds, Goto, Answer,
        UndoRecord
<1>0. /\ previous[h] \in ServerDefaults /\ DefaultsRequest(req[h]) /\ ~ZoneRequest(req[h])
      /\ cfg' \in ServerDefaults /\ cfg'.record = previous[h].record
      /\ \A f \in {"ttl", "response", "record"} \ {"record"} : cfg'[f] = cfg[f]
  BY DEF TypeOK, Locals, Undoing, ServerDefaults
<1>1. TypeOK'
  BY <1>0 DEF TypeOK, Points, Locals
<1>2. NoDuplicatePatterns'
  BY <1>0 DEF NoDuplicatePatterns
<1>3. Locals'
  BY <1>0 DEF Locals, Undoing, TypeOK
<1>4. Overlap'
  BY <1>0 DEF Overlap, TypeOK, AllIdle
<1>5. PromisedInForce'
  BY <1>0 DEF PromisedInForce
<1>6. NotPromised'
  BY <1>0 DEF NotPromised, Saving, Overlap, Locals, TypeOK
<1>7. PromisedSaved'
  BY <1>0 DEF PromisedSaved
<1>8. ZonesSync'
  BY <1>0 DEF ZonesSync, AllSame, Same, Saving, Undoing, AllIdle, Overlap, Locals, TypeOK, Points
<1>9. ZoneTrace' /\ DefaultsTrace'
  BY <1>0 DEF Trace, ZoneTrace, DefaultsTrace, Saving, Undoing, Overlap, Locals, TypeOK
<1>10. DefaultsSync'
  BY <1>0 DEF DefaultsSync, Overlap, AllIdle, Locals, TypeOK, Points
<1> QED BY <1>1, <1>2, <1>3, <1>4, <1>5, <1>6, <1>7, <1>8, <1>9, <1>10 DEF Trace

\* Field by field, the old defaults are in the configuration again; now in the
\* resolver.
LEMMA UndoUpdateIInv ==
  ASSUME IInv, NEW h \in Handlers, UndoUpdate(h)
  PROVE  IInv'
<1> USE NoneIsNone, Kinds DEF IInv, resolver, config, locals, overlap, bounds, Goto, Answer,
        UndoUpdate
<1>0. /\ previous[h] \in ServerDefaults /\ ResolverDefaults(previous[h]) \in Fallbacks
      /\ DefaultsRequest(req[h]) /\ ~ZoneRequest(req[h])
  BY FallbacksOf DEF TypeOK, Locals, Undoing
<1>a. alone[h] => cfg = previous[h]
  BY <1>0, SameDefaults DEF Trace, DefaultsTrace, Undoing, TypeOK
<1>1. TypeOK'
  BY <1>0, <1>a DEF TypeOK, Points, Locals
<1>2. NoDuplicatePatterns'
  BY <1>0, <1>a DEF NoDuplicatePatterns
<1>3. Locals'
  BY <1>0, <1>a DEF Locals, Undoing, TypeOK
<1>4. Overlap'
  BY <1>0, <1>a DEF Overlap, TypeOK, AllIdle
<1>5. PromisedInForce'
  BY <1>0, <1>a DEF PromisedInForce
<1>6. NotPromised'
  BY <1>0, <1>a DEF NotPromised, Saving, Overlap, Locals, TypeOK
<1>7. PromisedSaved'
  BY <1>0, <1>a DEF PromisedSaved
<1>8. ZonesSync'
  BY <1>0, <1>a DEF ZonesSync, AllSame, Same, Saving, Undoing, AllIdle, Overlap, Locals, TypeOK, Points
<1>9. ZoneTrace' /\ DefaultsTrace'
  BY <1>0, <1>a DEF Trace, ZoneTrace, DefaultsTrace, Saving, Undoing, Overlap, Locals, TypeOK
<1>10. DefaultsSync'
  BY <1>0, <1>a DEF DefaultsSync, Overlap, AllIdle, Locals, TypeOK, Points
<1> QED BY <1>1, <1>2, <1>3, <1>4, <1>5, <1>6, <1>7, <1>8, <1>9, <1>10 DEF Trace

\* What is promised is in force, and saved.
LEMMA ReplyIInv ==
  ASSUME IInv, NEW h \in Handlers, Reply(h)
  PROVE  IInv'
<1> USE NoneIsNone, Kinds DEF IInv, resolver, config, locals, overlap, bounds, Goto, Answer, Reply
<1>1. TypeOK'
  BY DEF TypeOK, Points, Locals
<1>2. NoDuplicatePatterns'
  BY DEF NoDuplicatePatterns
<1>3. Locals'
  BY DEF Locals, Undoing, TypeOK
<1>4. Overlap'
  BY DEF Overlap, TypeOK, AllIdle
<1>5. PromisedInForce'
  BY DEF PromisedInForce
<1>6. NotPromised'
  BY DEF NotPromised, Saving, Overlap, Locals, TypeOK
<1>7. PromisedSaved'
  BY DEF PromisedSaved, ZonesSync, AllSame, Same, Locals, TypeOK
<1>8. ZonesSync'
  BY DEF ZonesSync, AllSame, Same, Saving, Undoing, AllIdle, Overlap, Locals, TypeOK, Points
<1>9. ZoneTrace' /\ DefaultsTrace'
  BY DEF Trace, ZoneTrace, DefaultsTrace, Saving, Undoing, Overlap, Locals, TypeOK
<1>10. DefaultsSync'
  BY DEF DefaultsSync, Overlap, AllIdle, Locals, TypeOK, Points
<1> QED BY <1>1, <1>2, <1>3, <1>4, <1>5, <1>6, <1>7, <1>8, <1>9, <1>10 DEF Trace

\* The store is all there is.
LEMMA RestartIInv ==
  ASSUME IInv, Restart
  PROVE  IInv'
<1> USE NoneIsNone, Kinds DEF IInv, resolver, config, locals, overlap, bounds, Goto, Answer, Restart
<1>0. /\ store.zones \in ZoneMaps /\ store.defaults \in ServerDefaults
      /\ ResolverDefaults(store.defaults) \in Fallbacks
      /\ Table(zones')
      /\ \A p \in Patterns : GetZone(zones', p) = Look(store.zones, p)
      /\ restarts' \in 0 .. MaxRestarts
  BY SnapshotFields, FallbacksOf, LoadLoads, ApiServerAssumption DEF TypeOK
<1>1. TypeOK'
  <2>1. zones' \in Tables
    BY <1>0 DEF Table, Row, Tables
  <2>2. /\ defaults' \in Fallbacks /\ cfg' \in ServerDefaults /\ cfgZones' \in ZoneMaps
        /\ store' \in Snapshots /\ served' \in 0 .. MaxRequests /\ restarts' \in 0 .. MaxRestarts
    BY <1>0 DEF TypeOK
  <2>3. /\ pc' \in [Handlers -> Points] /\ req' \in [Handlers -> Requests \cup {None}]
        /\ previous' \in [Handlers -> Configs \cup ServerDefaults \cup {None}]
        /\ applied' \in [Handlers -> Configs \cup {None}]
        /\ dumped' \in [Handlers -> ZoneMaps \cup {None}]
    BY DEF Points
  <2>4. /\ snap' \in [Handlers -> Snapshots \cup Fallbacks \cup {None}]
        /\ status' \in [Handlers -> {200, 400, 404, 500, None}]
        /\ before' \in [Handlers -> States \cup {None}]
    OBVIOUS
  <2>7. alone' \in [Handlers -> BOOLEAN] /\ mixed' \in BOOLEAN /\ halfway' \in BOOLEAN
    OBVIOUS
  <2>5. promised' \in {promised, {}}
    OBVIOUS
  <2>6. promised' \subseteq [pattern : Patterns, config : Configs \cup {None}]
    BY <2>5 DEF TypeOK
  <2> HIDE DEF Restart
  <2> QED BY <2>1, <2>2, <2>3, <2>4, <2>6, <2>7 DEF TypeOK
<1>2. NoDuplicatePatterns'
  BY <1>0 DEF NoDuplicatePatterns, Table, NoDuplicates
<1>3. Locals'
  BY <1>0 DEF Locals, Undoing, TypeOK
<1>4. Overlap'
  BY <1>0 DEF Overlap, TypeOK, AllIdle
<1>5. PromisedInForce'
  BY <1>0 DEF PromisedInForce, PromisedSaved, TypeOK
<1>6. NotPromised'
  BY <1>0 DEF NotPromised, Saving, Overlap, Locals, TypeOK
<1>7. PromisedSaved'
  BY <1>0 DEF PromisedSaved
<1>8. ZonesSync'
  BY <1>0 DEF ZonesSync, AllSame, Same, Saving, Undoing, AllIdle, Overlap, Locals, TypeOK, Points
<1>9. ZoneTrace' /\ DefaultsTrace'
  BY <1>0 DEF Trace, ZoneTrace, DefaultsTrace, Saving, Undoing, Overlap, Locals, TypeOK
<1>10. DefaultsSync'
  BY <1>0 DEF DefaultsSync, Overlap, AllIdle, Locals, TypeOK, Points
<1> QED BY <1>1, <1>2, <1>3, <1>4, <1>5, <1>6, <1>7, <1>8, <1>9, <1>10 DEF Trace

-----------------------------------------------------------------------------
(* What follows.                                                           *)

\* The inductive invariant holds in every state: initially, and each action
\* keeps it.
THEOREM Inductive == Spec => []IInv
<1>1. Init => IInv
  <2> SUFFICES ASSUME Init PROVE IInv
    OBVIOUS
  <2>1. BootZones \in ZoneMaps /\ BootDefaults \in ServerDefaults
    BY ApiServerAssumption
  <2>2. Table(zones) /\ \A p \in Patterns : GetZone(zones, p) = Look(BootZones, p)
    BY <2>1, LoadLoads DEF Init
  <2>3. /\ store = [defaults |-> BootDefaults, zones |-> BootZones]
        /\ defaults = ResolverDefaults(BootDefaults) /\ cfg = BootDefaults
        /\ cfgZones = BootZones /\ pc = [h \in Handlers |-> "idle"]
        /\ alone = [h \in Handlers |-> TRUE] /\ promised = {}
    BY DEF Init
  <2>4. /\ store \in Snapshots /\ store.defaults = BootDefaults /\ store.zones = BootZones
        /\ defaults \in Fallbacks
    BY <2>1, <2>3, SnapshotOf, FallbacksOf
  <2>5. NoDuplicatePatterns
    BY <2>2 DEF NoDuplicatePatterns, Table, NoDuplicates
  <2>6. TypeOK
    <3>1. zones \in Tables
      BY <2>2 DEF Table, Row, Tables
    <3>2. served \in 0 .. MaxRequests /\ restarts \in 0 .. MaxRestarts
      BY ApiServerAssumption DEF Init
    <3>3. /\ pc \in [Handlers -> Points] /\ req \in [Handlers -> Requests \cup {None}]
          /\ previous \in [Handlers -> Configs \cup ServerDefaults \cup {None}]
          /\ applied \in [Handlers -> Configs \cup {None}]
          /\ dumped \in [Handlers -> ZoneMaps \cup {None}]
      BY DEF Init, Points
    <3>4. /\ snap \in [Handlers -> Snapshots \cup Fallbacks \cup {None}]
          /\ status \in [Handlers -> {200, 400, 404, 500, None}]
          /\ alone \in [Handlers -> BOOLEAN] /\ mixed \in BOOLEAN /\ halfway \in BOOLEAN
          /\ before \in [Handlers -> States \cup {None}]
      BY ZenonT(40) DEF Init
    <3> QED BY <2>1, <2>3, <2>4, <3>1, <3>2, <3>3, <3>4 DEF TypeOK
  <2>7. Locals /\ Overlap /\ PromisedInForce /\ NotPromised /\ PromisedSaved /\ Trace
    BY <2>3 DEF Locals, Overlap, PromisedInForce, NotPromised, Saving, PromisedSaved, Undoing,
          Trace, ZoneTrace, DefaultsTrace
  <2>8. ZonesSync /\ DefaultsSync
    BY <2>2, <2>3, <2>4 DEF ZonesSync, DefaultsSync, AllSame, Same, Saving, Undoing
  <2> QED BY <2>5, <2>6, <2>7, <2>8 DEF IInv
<1>2. IInv /\ [Next]_vars => IInv'
  <2> SUFFICES ASSUME IInv, [Next]_vars PROVE IInv'
    OBVIOUS
  <2>1. ASSUME NEW h \in Handlers, NEW r \in Requests, StartZone(h, r) \/ StartDefaults(h, r)
        PROVE  IInv'
    BY <2>1, StartZoneIInv, StartDefaultsIInv
  <2>2. ASSUME NEW h \in Handlers,
               \/ ApplyZone(h) \/ Dump(h) \/ Assign(h) \/ ReadArguments(h) \/ SaveSnapshot(h)
               \/ UndoZone(h) \/ DumpUndone(h) \/ AssignUndone(h)
        PROVE  IInv'
    BY <2>2, ApplyZoneIInv, DumpIInv, AssignIInv, ReadArgumentsIInv, SaveSnapshotIInv,
       UndoZoneIInv, DumpUndoneIInv, AssignUndoneIInv
  <2>3. ASSUME NEW h \in Handlers,
               \/ SetTTL(h) \/ SetResponse(h) \/ SetRecord(h)
               \/ ReadDefaults(h) \/ UpdateDefaults(h) \/ Reply(h)
               \/ UndoTTL(h) \/ UndoResponse(h) \/ UndoRecord(h) \/ UndoUpdate(h)
        PROVE  IInv'
    BY <2>3, SetTTLIInv, SetResponseIInv, SetRecordIInv, ReadDefaultsIInv, UpdateDefaultsIInv,
       UndoTTLIInv, UndoResponseIInv, UndoRecordIInv, UndoUpdateIInv, ReplyIInv
  <2>4. CASE Restart
    BY <2>4, RestartIInv
  <2>5. CASE UNCHANGED vars
    <3> USE <2>5 DEF vars, resolver, config, locals, overlap, bounds, IInv
    <3>1. TypeOK' /\ NoDuplicatePatterns' /\ Locals' /\ Overlap'
      BY DEF TypeOK, NoDuplicatePatterns, Locals, Overlap
    <3>2. PromisedInForce' /\ NotPromised' /\ PromisedSaved'
      BY DEF PromisedInForce, NotPromised, PromisedSaved
    <3>3. ZonesSync' /\ Trace' /\ DefaultsSync'
      BY DEF ZonesSync, AllSame, Same, AllIdle, Trace, ZoneTrace, DefaultsTrace, DefaultsSync
    <3> QED BY <3>1, <3>2, <3>3
  <2> QED BY <2>1, <2>2, <2>3, <2>4, <2>5 DEF Next, Handle
<1> QED BY <1>1, <1>2, PTL DEF Spec

\* The table, the configuration, the store and the handlers' copies keep
\* their types.
THEOREM TypeCorrect == Spec => []TypeOK
<1>1. IInv => TypeOK
  BY DEF IInv
<1> QED BY <1>1, Inductive, PTL

\* However many handlers edit at once, no pattern is in the table twice
\* (UpsertZone, RemoveZone, RemoveCountry, New).
THEOREM TableHasNoDuplicates == Spec => []NoDuplicatePatterns
<1>1. IInv => NoDuplicatePatterns
  BY DEF IInv
<1> QED BY <1>1, Inductive, PTL

\* However many requests overlap, fail and are undone, and across restarts
\* if none have overlapped: what was acknowledged is what the resolver answers from
\* (upsertZone, deleteZone, deleteCountry, restoreZone, persistDNSData).
THEOREM PromisesAreKept == Spec => []PromisedInForce
<1>1. IInv => PromisedInForce
  BY DEF IInv
<1> QED BY <1>1, Inductive, PTL

\* Requests that come one at a time leave the table, the configuration and the
\* store with the same zones, whatever fails and is undone.
THEOREM ZonesAgree ==
  Spec => [](AllIdle /\ ~mixed => DumpZones(zones) = store.zones /\ cfgZones = store.zones)
<1>1. IInv => (AllIdle /\ ~mixed => DumpZones(zones) = store.zones /\ cfgZones = store.zones)
  <2> SUFFICES ASSUME IInv, AllIdle, ~mixed
               PROVE  DumpZones(zones) = store.zones /\ cfgZones = store.zones
    OBVIOUS
  <2>1. AllSame /\ cfgZones = store.zones
    BY DEF IInv, ZonesSync
  <2>2. /\ DumpZones(zones) \in ZoneMaps /\ store.zones \in ZoneMaps
        /\ \A p \in Patterns : Look(DumpZones(zones), p) = GetZone(zones, p)
    BY TableOK, DumpDumps, SnapshotFields DEF IInv, TypeOK
  <2> QED BY <2>1, <2>2, SameMap DEF AllSame, Same
<1> QED BY <1>1, Inductive, PTL

\* So do the defaults, unless a PUT was refused with its TTL assigned: all that is
\* shared agrees, whatever failed, was undone or cut off.
THEOREM EverythingAgrees == Spec => []Agreed
<1>1. IInv => (AllIdle /\ ~mixed /\ ~halfway =>
                 cfg = store.defaults /\ defaults = ResolverDefaults(cfg))
  BY DEF IInv, DefaultsSync
<1>2. ASSUME AllIdle /\ ~mixed => DumpZones(zones) = store.zones /\ cfgZones = store.zones,
             AllIdle /\ ~mixed /\ ~halfway =>
               cfg = store.defaults /\ defaults = ResolverDefaults(cfg)
      PROVE  Agreed
  BY <1>2 DEF Agreed
<1> QED BY <1>1, <1>2, Inductive, ZonesAgree, PTL

\* A request that is answered with an error, and had no other beside it, has left
\* the rows of the table and their order, the defaults and the store as they were
\* when it began, with the two exceptions that TableKept and DefaultsKept spell out
\* (restoreZone, updateServerConfig).
THEOREM FailuresLeaveNoTrace == Spec => []FailureLeavesNoTrace
<1>1. IInv => FailureLeavesNoTrace
  <2> SUFFICES ASSUME IInv, NEW h \in Handlers, alone[h], pc[h] = "reply", status[h] # 200
               PROVE  /\ TableKept(h) /\ DefaultsKept(h)
                      /\ store = before[h].store
                      /\ before[h].defaults = ResolverDefaults(before[h].cfg) =>
                           defaults = before[h].defaults
    BY DEF FailureLeavesNoTrace
  <2>1. req[h] \in Requests /\ status[h] \in {400, 404, 500}
    BY DEF IInv, Locals
  <2>2. CASE ZoneRequest(req[h])
    BY <2>1, <2>2 DEF IInv, Locals, Trace, ZoneTrace, PutBackOf, TableKept, DefaultsKept
  <2>3. CASE DefaultsRequest(req[h])
    BY <2>1, <2>3 DEF IInv, Trace, DefaultsTrace, TableKept, DefaultsKept
  <2> QED BY <2>1, <2>2, <2>3, Kinds
<1> QED BY <1>1, Inductive, PTL

=============================================================================
