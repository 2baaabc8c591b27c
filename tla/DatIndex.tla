------------------------------- MODULE DatIndex -------------------------------
(***************************************************************************)
(* The index of geoip.dat (src/src/geo/dat.go): from the CIDRs of a file   *)
(* to one sorted table per address family and prefix length, optionally    *)
(* packed into one mapped file, and the search in it.                      *)
(*                                                                         *)
(* An address is its bits, the most significant first: Width4 of them in   *)
(* IPv4, Bytes bytes of ByteBits in IPv6 (32, 16 and 8 in the code).  A    *)
(* file is the sequence of its CIDRs, each with the code of its group.     *)
(***************************************************************************)
EXTENDS Naturals, Sequences, FiniteSets, FiniteSetsExt, Functions

CONSTANTS
  Width4, Bytes, ByteBits,
  Countries,  \* two capital letters; other group names are skipped
  Files,      \* the files that may be loaded
  Unknown     \* no code, no prefix, no country

Families == {4, 6}
Width(f) == IF f = 4 THEN Width4 ELSE Bytes * ByteBits

Address(f) == [1..Width(f) -> 0..1]

ASSUME DatIndexAssumption ==
  /\ Width4 \in Nat /\ Bytes \in Nat /\ ByteBits \in Nat \ {0}
  /\ Unknown \notin Countries /\ Unknown \notin Nat
  /\ \A fl \in Files :
       /\ IsFiniteSet(DOMAIN fl) /\ DOMAIN fl \subseteq Nat
       /\ \A i \in DOMAIN fl : fl[i].family \in Families => fl[i].ip \in Address(fl[i].family)

VARIABLES
  file,    \* what the file holds
  mmap,    \* geoip.enable_mmap
  phase,   \* "file", then "rejected" or "ready"
  index,   \* the index: codes and, for each family and prefix length, a table
  query,   \* the address looked up
  country  \* what lookup returned

datVars == <<file, mmap, phase, index, query, country>>

-----------------------------------------------------------------------------
(* Loading.                                                                *)

\* Faulty variant: a partial byte is zeroed with the bytes after it.
MaskWholeBytes(a, p) ==
  [k \in DOMAIN a |-> IF (k - 1) \div ByteBits < p \div ByteBits THEN a[k] ELSE 0]

\* Whole bytes are kept, of the next one its upper bits.
MaskV6(a, p) ==
  LET full == p \div ByteBits
      bits == p % ByteBits
  IN [k \in DOMAIN a |->
        LET byte == (k - 1) \div ByteBits
            bit  == (k - 1) % ByteBits
        IN IF byte < full \/ (byte = full /\ bit < bits) THEN a[k] ELSE 0]

MaskV4(a, p) == [k \in DOMAIN a |-> IF k <= p THEN a[k] ELSE 0]

Mask(f, a, p) == IF f = 4 THEN MaskV4(a, p) ELSE MaskV6(a, p)

\* walkDat and the first visit: a group without code, and in a country's group
\* a CIDR without prefix, with too long a one, or with an address of a wrong
\* length (family Unknown) fail the load.  Other groups are not looked into.
Malformed(r) ==
  \/ r.code = Unknown
  \/ r.code \in Countries /\ (r.family \notin Families \/ r.prefix \notin 0..Width(r.family))

Visited(fl) == {i \in DOMAIN fl : fl[i].code \in Countries}

Accepted(fl) == Visited(fl) # {} /\ \A i \in DOMAIN fl : ~Malformed(fl[i])

\* The members of S in the order of a set of pairs.
InOrder(S, before) ==
  [k \in 1..Cardinality(S) |->
     CHOOSE x \in S : Cardinality({y \in S : <<y, x>> \in before}) = k - 1]

\* Codes in the order of their first CIDR; a record holds the position.
CodesOf(fl) ==
  LET first == {i \in Visited(fl) : \A j \in Visited(fl) : fl[j].code = fl[i].code => i <= j}
      at    == InOrder(first, {x \in first \X first : x[1] < x[2]})
  IN [k \in DOMAIN at |-> fl[at[k]].code]

Less(a, b) == \E i \in DOMAIN a : a[i] < b[i] /\ \A j \in 1..(i - 1) : a[j] = b[j]

\* sort.Slice by address.  It is not stable: rank orders equal addresses.
ByAddress(S, address, rank) ==
  {x \in S \X S : \/ Less(address[x[1]], address[x[2]])
                  \/ address[x[1]] = address[x[2]] /\ rank[x[1]] < rank[x[2]]}

\* The table of one family and prefix length, host bits masked.
Table(fl, rank, f, p) ==
  LET codes   == CodesOf(fl)
      here    == {i \in Visited(fl) : fl[i].family = f /\ fl[i].prefix = p}
      address == [i \in here |-> Mask(f, fl[i].ip, p)]
      rows    == InOrder(here, ByAddress(here, address, rank))
  IN [k \in DOMAIN rows |->
        [address |-> address[rows[k]],
         code    |-> CHOOSE c \in DOMAIN codes : codes[c] = fl[rows[k]].code]]

BuildIndex(fl, rank) ==
  [codes |-> CodesOf(fl),
   table |-> [f \in Families |-> [p \in 0..Width(f) |-> Table(fl, rank, f, p)]]]

-----------------------------------------------------------------------------
(* The mapped file: records of 6 and 18 bytes, IPv4 first, by prefix.      *)

Size(f) == IF f = 4 THEN 6 ELSE 18

\* The records of a family: prefix length and row.
Rows(ix, f) == UNION {{<<p, i>> : i \in DOMAIN ix.table[f][p]} : p \in 0..Width(f)}

\* Bytes of the other family's records, which come before these.
Base(ix, f) == IF f = 4 THEN 0 ELSE Size(4) * Cardinality(Rows(ix, 4))

\* v4Offsets and v6Offsets: behind the tables of the shorter prefixes.
Offset(ix, f, p) == Base(ix, f) + Size(f) * Cardinality({r \in Rows(ix, f) : r[1] < p})

\* Where a record is written: behind the record before it.
Written(ix, f, p, i) ==
  Base(ix, f) + Size(f) * Cardinality({r \in Rows(ix, f) : r[1] < p \/ (r[1] = p /\ r[2] < i)})

Zero(f) == [address |-> [k \in 1..Width(f) |-> 0], code |-> 1]

\* mappedV4[p] and mappedV6[p]: as many records as the table has, from its
\* offset.  Bytes that are no record of the family stand for zeros.
MappedTable(ix, f, p) ==
  [i \in DOMAIN ix.table[f][p] |->
     LET here == {r \in Rows(ix, f) :
                    Written(ix, f, r[1], r[2]) = Offset(ix, f, p) + (i - 1) * Size(f)}
         r    == CHOOSE r \in here : TRUE
     IN IF here = {} THEN Zero(f) ELSE ix.table[f][r[1]][r[2]]]

MapCompactIndex(ix) ==
  [ix EXCEPT !.table = [f \in Families |-> [p \in 0..Width(f) |-> MappedTable(ix, f, p)]]]

-----------------------------------------------------------------------------
(* Lookup.                                                                 *)

\* sort.Search ends at an h for which ok holds, or n, and fails just before it:
\* the first such h, if ok is monotone.
SearchFirst(n, ok) == CHOOSE h \in 0..n : (h < n => ok[h]) /\ (h > 0 => ~ok[h - 1])

\* The code of the record with this masked address, or Unknown.
Find(records, key) ==
  LET n   == Len(records)
      pos == SearchFirst(n, [h \in 0..(n - 1) |-> ~Less(records[h + 1].address, key)])
  IN IF pos < n /\ records[pos + 1].address = key THEN records[pos + 1].code ELSE Unknown

Matches(ix, f, a) == {p \in 0..Width(f) : Find(ix.table[f][p], Mask(f, a, p)) # Unknown}

\* Lengths are tried from the longest; the first record found answers.
Lookup(ix, f, a) ==
  LET hits == Matches(ix, f, a) IN
  IF hits = {} THEN Unknown
  ELSE LET p == Max(hits) IN ix.codes[Find(ix.table[f][p], Mask(f, a, p))]

-----------------------------------------------------------------------------
DatInit ==
  /\ file \in Files /\ mmap \in BOOLEAN
  /\ phase = "file" /\ index = Unknown
  /\ query = Unknown /\ country = Unknown

Reject ==
  /\ phase = "file" /\ ~Accepted(file)
  /\ phase' = "rejected"
  /\ UNCHANGED <<file, mmap, index, query, country>>

LoadDatIndex ==
  /\ phase = "file" /\ Accepted(file)
  /\ \E rank \in Bijection(DOMAIN file, DOMAIN file) :
       index' = IF mmap THEN MapCompactIndex(BuildIndex(file, rank)) ELSE BuildIndex(file, rank)
  /\ phase' = "ready"
  /\ UNCHANGED <<file, mmap, query, country>>

\* An IPv4 address written as an IPv6 one is unmapped first.
Ask(f, a) ==
  /\ phase = "ready" /\ query = Unknown
  /\ query' = [family |-> f, ip |-> a]
  /\ country' = Lookup(index, f, a)
  /\ UNCHANGED <<file, mmap, phase, index>>

DatNext == Reject \/ LoadDatIndex \/ \E f \in Families : \E a \in Address(f) : Ask(f, a)

DatSpec == DatInit /\ [][DatNext]_datVars

-----------------------------------------------------------------------------
(* Properties.                                                             *)

\* The addresses of a CIDR: its first bits, whatever the masks make of them.
Covers(r, f, a) == r.family = f /\ \A k \in 1..r.prefix : r.ip[k] = a[k]

\* Types; codes are different, and a record's position is that of a code.
DatTypeOK ==
  /\ phase \in {"file", "rejected", "ready"}
  /\ phase = "ready" =>
       /\ index.codes \in Seq(Countries)
       /\ \A c, d \in DOMAIN index.codes : index.codes[c] = index.codes[d] => c = d
       /\ \A f \in Families : \A p \in 0..Width(f) :
            index.table[f][p] \in Seq([address : Address(f), code : DOMAIN index.codes])
  /\ country \in Countries \cup {Unknown}

\* The answer is the country of a longest CIDR of the file that covers the
\* address, none if there is none: masks, sorting, the binary search, the order
\* of lengths and, in mmap mode, the offsets fit together.
LongestPrefixWins ==
  query # Unknown =>
    LET covering == {i \in Visited(file) : Covers(file[i], query.family, query.ip)}
        longest  == {i \in covering : \A j \in covering : file[j].prefix <= file[i].prefix}
    IN IF covering = {} THEN country = Unknown ELSE country \in {file[i].code : i \in longest}
=============================================================================
