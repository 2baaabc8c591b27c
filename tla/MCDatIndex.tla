------------------------------ MODULE MCDatIndex ------------------------------
(* Small instances of DatIndex.tla for TLC: every file of up to two CIDRs   *)
(* of one country group each, and of three IPv4 CIDRs; groups that are     *)
(* skipped and CIDRs that are malformed.                                   *)
EXTENDS DatIndex

CONSTANTS us, ca, private

TwoCountries == {us, ca}

Cidr(c, f, a, p) == [code |-> c, family |-> f, ip |-> a, prefix |-> p]
Cidrs(c, f) == {Cidr(c, f, a, p) : a \in Address(f), p \in 0..Width(f)}

V4 == Cidrs(us, 4) \cup Cidrs(ca, 4)
V6 == {r \in Cidrs(us, 6) \cup Cidrs(ca, 6) : ~(r.ip[1] = 1 /\ r.ip[2] = 0)}
Odd == {Cidr(private, 4, <<0, 1>>, 2), Cidr(private, 4, <<0, 1>>, Unknown),
        Cidr(us, 4, <<0, 1>>, Unknown), Cidr(us, 4, <<0, 1>>, Width4 + 1),
        Cidr(us, 6, <<0, 1, 0, 1>>, Width(6) + 1),
        Cidr(us, Unknown, <<0, 1>>, 1), Cidr(Unknown, 4, <<0, 1>>, 1)}

ThreeV4 == {<<x, y, z>> : x \in Cidrs(us, 4), y \in V4, z \in Cidrs(ca, 4)}
TwoV6   == {<<x, y>> : x \in Cidrs(us, 6), y \in V6}
Mixed   == {<<x, y, z>> : x \in {Cidr(us, 6, <<0, 1, 0, 1>>, 3)}, y \in Cidrs(us, 4), z \in Cidrs(ca, 6)}
WithOdd == {<<x>> : x \in Odd} \cup {<<x, y>> : x \in Cidrs(us, 4), y \in Odd}

MCFiles == {<<>>} \cup ThreeV4 \cup TwoV6 \cup Mixed \cup WithOdd
=============================================================================
