\* The whole life of the process: startup, service, shutdown.
SPECIFICATION Spec
CONSTANTS
  udp = udp
  tcp = tcp
  q1 = q1
  q2 = q2
  DnsServers <- MCDnsServers
  Queries <- MCQueries
  Requests = {r1}
  Api = Api
  Via <- MCVia
INVARIANTS UsersEndFirst AnsweredIsRecorded ExitClosesAll
PROPERTIES FailureIsFatal SignalEnds
CHECK_DEADLOCK FALSE
