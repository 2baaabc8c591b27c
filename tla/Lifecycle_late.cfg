\* A DNS server that starts after its Shutdown has returned answers queries nobody records.
SPECIFICATION Spec
CONSTANTS
  udp = udp
  tcp = tcp
  q1 = q1
  q2 = q2
  DnsServers <- MCDnsServers
  Queries <- MCQueries
  Requests = {r1}
  Api = Api
  Via <- MCVia
INVARIANT EveryAnswerIsRecorded
CHECK_DEADLOCK FALSE
