----------------------------- MODULE MCLifecycle -----------------------------
(* Two DNS servers of one address, a query to each, one request to the API. *)
EXTENDS Lifecycle

CONSTANTS udp, tcp, q1, q2

MCDnsServers == <<udp, tcp>>
MCQueries == {q1, q2}
MCVia == [q \in MCQueries |-> IF q = q1 THEN udp ELSE tcp]

=============================================================================
