------------------------------ MODULE MCHistory ------------------------------
(* A few rows and one reader, for TLC.                                      *)
EXTENDS History

Row(at, country, hit, ecs, failed) ==
  [at |-> at, country |-> country, hit |-> hit, ecs |-> ecs, failed |-> failed]

FourTimes ==
  <<Row(2, "", FALSE, "", TRUE), Row(1, "JP", TRUE, Null, FALSE),
    Row(4, "", TRUE, Null, FALSE), Row(3, "JP", FALSE, "JP", FALSE)>>

\* Two queries in the same instant.
SameTime == <<Row(1, "JP", FALSE, "JP", FALSE), Row(1, "JP", TRUE, "JP", FALSE)>>

JP == {"", "JP"}
=============================================================================
