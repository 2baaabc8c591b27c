------------------------------ MODULE Lifecycle ------------------------------
(***************************************************************************)
(* The life of the process (src/src/main.go, run): the components are      *)
(* opened one after the other, each leaving a deferred Close; the          *)
(* listeners start in goroutines of their own; main waits for a signal or  *)
(* for a listener that fails, shuts the listeners down one by one and      *)
(* returns, which runs the deferred closes.                                *)
(*                                                                         *)
(* The module composes what shutting down relates: the DNS servers with    *)
(* their handlers (QueryHandler.tla), which look an address up and hand an *)
(* entry to the recorder; the recorder, by what it promises                *)
(* (QueryLog.tla, which Recorder.tla implements); GeoIP, which handlers    *)
(* and the recorder's retry goroutine use (GeoUpdate.tla has its own       *)
(* Close); the API server, whose requests may outlive the wait for them.   *)
(* Shutdown of the two libraries' servers is modelled from its use.  A     *)
(* kill (a crash, SIGKILL, a second signal) is a behaviour that stops; what *)
(* survives one is in Recorder.tla, ApiServer.tla and GeoUpdate.tla.       *)
(***************************************************************************)
EXTENDS Naturals, Sequences, FiniteSets, Functions

CONSTANTS
  DnsServers, \* dnsServers: the DNS servers in the order of newDNSServers
  Api,        \* the API server
  Queries,    \* DNS queries that reach a server and are recorded
  Via,        \* the server each of them reaches
  Requests    \* requests to the API

Servers   == Range(DnsServers)
Listeners == Servers \cup {Api}
Stages    == <<"store", "load", "geo", "recorder", "dashboard">>

\* There is a server at least, and each query reaches one.
ASSUME LifecycleAssumption ==
  /\ DnsServers \in Seq(Servers) \ {<<>>} /\ Api \notin Servers
  /\ Via \in [Queries -> Servers]

VARIABLES
  pc,        \* program point of run
  apiOn,     \* cfg.Server.API.Enabled
  open,      \* the components that are open
  defers,    \* the deferred calls of run, the last one registered first
  result,    \* the error run returns: "none" or "listener" or "startup"
  outcome,   \* how the process ended: "running", "ok", "error"
  turn,      \* the DNS server whose Shutdown is next
  signalled, \* the signal goroutine received its signal
  cancelled, \* ctx is done
  serveErr,  \* listeners whose error is in the channel
  listener,  \* state of each listener
  missed,    \* history: servers whose Shutdown came before they had started
  outlived,  \* history: API requests in progress when the five seconds were over
  qpc,       \* program point of each DNS query
  rpc,       \* program point of each API request
  status, dropped, phase, owed \* the recorder, as QueryLog has it

main  == <<pc, apiOn, open, defers, result, outcome, turn>>
net   == <<signalled, cancelled, serveErr, listener, missed, outlived>>
work  == <<qpc, rpc>>
log   == <<status, dropped, phase, owed>>
vars  == <<main, net, work, log>>

Log == INSTANCE QueryLog WITH Entries <- Queries

Init ==
  /\ pc = "store" /\ apiOn \in BOOLEAN /\ open = {} /\ defers = <<>>
  /\ result = "none" /\ outcome = "running" /\ turn = 1
  /\ signalled = FALSE /\ cancelled = FALSE /\ serveErr = {}
  /\ listener = [l \in Listeners |-> "none"] /\ missed = {} /\ outlived = {}
  /\ qpc = [q \in Queries |-> "none"]
  /\ rpc = [r \in Requests |-> "none"]
  /\ Log!Init

Running == outcome = "running"

-----------------------------------------------------------------------------
(* Startup.                                                                *)

\* return: the deferred calls run next.
Return(e) ==
  /\ result' = e
  /\ pc' = "defers"

\* Faulty variant: log.Fatal where the error should be returned.
FailFatal ==
  /\ result' = "startup"
  /\ pc' = "defers"
  /\ defers' = <<>>
  /\ UNCHANGED open

\* An error ends run before the component counts as open.
Fail == Return("startup") /\ UNCHANGED <<open, defers>>

\* Faulty variant: the deferred calls run in the order of their statements.
DeferInOrder(c) == Append(defers, c)

\* defer c: of the calls deferred so far, it is the first to run.
Defer(c) == <<c>> \o defers

Stage(c) == CHOOSE i \in DOMAIN Stages : Stages[i] = c

Started(c) ==
  /\ open' = open \cup ({c} \ {"load"})
  /\ pc' = IF Stage(c) = Len(Stages) THEN "serve" ELSE Stages[Stage(c) + 1]
  /\ UNCHANGED result

\* One stage of startup: it fails, or its Close is deferred.  "load" reads the
\* zones and the configuration, and opens nothing.
Open(c) ==
  /\ pc = c
  /\ \/ /\ Started(c)
        /\ defers' = IF c = "load" THEN defers ELSE Defer(c)
     \/ Fail
  /\ UNCHANGED <<apiOn, outcome, turn, net, work, log>>

\* Without the API there is no dashboard either.
SkipApi ==
  /\ pc = "dashboard" /\ ~apiOn
  /\ pc' = "serve"
  /\ UNCHANGED <<apiOn, open, defers, result, outcome, turn, net, work, log>>

Startup ==
  \/ \E c \in Range(Stages) : (c = "dashboard" => apiOn) /\ Open(c)
  \/ SkipApi

\* defer cancel(), then a goroutine for each listener.
Serve ==
  /\ pc = "serve"
  /\ defers' = Defer("cancel")
  /\ listener' = [l \in Listeners |-> IF l = Api /\ ~apiOn THEN "none" ELSE "starting"]
  /\ pc' = "wait"
  /\ UNCHANGED <<apiOn, open, result, outcome, turn, signalled, cancelled, serveErr, missed,
                 outlived, work, log>>

-----------------------------------------------------------------------------
(* The listeners and the signal goroutine.                                 *)

Busy(s) == \E q \in Queries : Via[q] = s /\ qpc[q] \in {"handling", "reply"}

SetListener(l, s) == listener' = [listener EXCEPT ![l] = s]

\* ListenAndServe binds its address, or returns the error.  A DNS server binds
\* even when Shutdown found it not started and gave up.
Bind(l) ==
  /\ Running /\ listener[l] = "starting"
  /\ \/ SetListener(l, "listening") /\ UNCHANGED serveErr
     \/ SetListener(l, "failed") /\ serveErr' = serveErr \cup {l}
  /\ UNCHANGED <<main, signalled, cancelled, missed, outlived, work, log>>

\* A read or an accept fails for good while the server runs.  The API server's
\* ListenAndServe returns the error at once.
Break(l) ==
  /\ Running /\ listener[l] = "listening"
  /\ \/ l \in Servers /\ SetListener(l, "broken") /\ UNCHANGED serveErr
     \/ l = Api /\ SetListener(l, "failed") /\ serveErr' = serveErr \cup {l}
  /\ UNCHANGED <<main, signalled, cancelled, missed, outlived, work, log>>

\* That of a DNS server waits for its handlers first.
Report(l) ==
  /\ Running /\ listener[l] = "broken" /\ ~Busy(l)
  /\ SetListener(l, "failed")
  /\ serveErr' = serveErr \cup {l}
  /\ UNCHANGED <<main, signalled, cancelled, missed, outlived, work, log>>

\* The signal goroutine, started before the listeners, cancels ctx; once ctx
\* is done a signal changes nothing (or kills).
Signal ==
  /\ Running /\ pc \notin {"serve"} \cup Range(Stages) /\ ~cancelled
  /\ signalled' = TRUE /\ cancelled' = TRUE
  /\ UNCHANGED <<main, serveErr, listener, missed, outlived, work, log>>

-----------------------------------------------------------------------------
(* The work in progress.                                                   *)

QueryAt(q, p) == qpc' = [qpc EXCEPT ![q] = p]

\* A server hands a message to ServeDNS; its loop may do so once more before
\* it notices that it is being shut down.
Receive(q) ==
  /\ Running /\ qpc[q] = "none" /\ listener[Via[q]] \in {"listening", "draining"}
  /\ QueryAt(q, "handling")
  /\ UNCHANGED <<main, net, rpc, log>>

\* Resolve and the GeoIP lookups (a result or an error, the query goes on), then
\* Recorder.Enqueue, which neither blocks nor fails, not even after Close.
Enqueue(q) ==
  /\ Running /\ qpc[q] = "handling"
  /\ QueryAt(q, "reply")
  /\ Log!Offer(q)
  /\ UNCHANGED <<main, net, rpc>>

\* WriteMsg, and ServeDNS returns.
Reply(q) ==
  /\ Running /\ qpc[q] = "reply"
  /\ QueryAt(q, "done")
  /\ UNCHANGED <<main, net, rpc, log>>

Query(q) == Enqueue(q) \/ Reply(q)

\* The recorder's goroutines; Recorder.tla has their steps.
Record(q) ==
  /\ Running /\ "recorder" \in open
  /\ Log!Settle(q)
  /\ UNCHANGED <<main, net, work>>

\* An API request begins and, some day, ends.
Request(r) ==
  /\ Running
  /\ \/ /\ rpc[r] = "none" /\ listener[Api] = "listening"
        /\ rpc' = [rpc EXCEPT ![r] = "running"]
     \/ /\ rpc[r] = "running"
        /\ rpc' = [rpc EXCEPT ![r] = "done"]
  /\ UNCHANGED <<main, net, qpc, log>>

-----------------------------------------------------------------------------
(* Shutdown.                                                               *)

\* Faulty variant: the error is assigned to a shadow of listenerErr.
WaitShadowed ==
  /\ Running /\ pc = "wait" /\ (cancelled \/ serveErr # {})
  /\ pc' = "shutdown"
  /\ cancelled' = TRUE
  /\ UNCHANGED <<apiOn, open, defers, result, outcome, turn, signalled, serveErr, listener,
                 missed, outlived, work, log>>

\* The select of run: when both cases are ready either may be taken.
Wait ==
  /\ Running /\ pc = "wait"
  /\ pc' = "shutdown"
  /\ \/ cancelled /\ UNCHANGED <<cancelled, serveErr, result>>
     \/ \E l \in serveErr :
          /\ serveErr' = serveErr \ {l}
          /\ result' = "listener"
          /\ cancelled' = TRUE
  /\ UNCHANGED <<apiOn, open, defers, outcome, turn, signalled, listener, missed, outlived,
                 work, log>>

\* Faulty variant: the loop stops one server short.
NextServerShort ==
  /\ turn' = turn + 1
  /\ pc' = IF turn' < Len(DnsServers) THEN "shutdown"
           ELSE IF apiOn THEN "apiShutdown" ELSE "defers"

\* The loop over dnsServers, then the API server, then return.
NextServer ==
  /\ turn' = turn + 1
  /\ pc' = IF turn' <= Len(DnsServers) THEN "shutdown"
           ELSE IF apiOn THEN "apiShutdown" ELSE "defers"

\* server.Shutdown: of a server that has not started, an error which is
\* ignored; of a running one, closed and waited for without a limit.
ShutdownDns ==
  /\ Running /\ pc = "shutdown"
  /\ LET s == DnsServers[turn] IN
       \/ /\ listener[s] = "starting"
          /\ missed' = missed \cup {s}
          /\ NextServer /\ UNCHANGED listener
       \/ /\ listener[s] = "listening"
          /\ SetListener(s, "draining")
          /\ UNCHANGED <<missed, pc, turn>>
       \/ /\ listener[s] \in {"draining", "broken", "failed"} /\ ~Busy(s)
          /\ listener' = IF listener[s] = "draining"
                         THEN [listener EXCEPT ![s] = "stopped"] ELSE listener
          /\ NextServer /\ UNCHANGED missed
  /\ UNCHANGED <<apiOn, open, defers, result, outcome, signalled, cancelled, serveErr, outlived,
                 work, log>>

\* Faulty variant: apiSrv.Shutdown(context.Background()).
ApiTimeoutNever == FALSE /\ UNCHANGED <<main, outlived>>

\* The five seconds of shutdownCtx are over: requests in progress go on.
ApiTimeout ==
  /\ pc' = "defers"
  /\ outlived' = {r \in Requests : rpc[r] = "running"}
  /\ UNCHANGED <<apiOn, open, defers, result, outcome, turn>>

\* apiSrv.Shutdown: no new connection; then every request has ended, or the
\* five seconds are over.
ShutdownApi ==
  /\ Running /\ pc = "apiShutdown"
  /\ \/ /\ listener[Api] \in {"starting", "listening"}
        /\ SetListener(Api, IF listener[Api] = "listening" THEN "draining" ELSE "stopped")
        /\ UNCHANGED <<main, outlived>>
     \/ /\ listener[Api] \notin {"starting", "listening"}
        /\ \/ /\ \A r \in Requests : rpc[r] # "running"
              /\ pc' = "defers"
              /\ UNCHANGED <<apiOn, open, defers, result, outcome, turn, outlived>>
           \/ ApiTimeout
        /\ UNCHANGED listener
  /\ UNCHANGED <<signalled, cancelled, serveErr, missed, work, log>>

\* Recorder.Close: closing, then every entry it owes is settled.
CloseRecorder ==
  \/ Log!BeginClose /\ UNCHANGED <<main, net, work>>
  \/ /\ Log!EndClose
     /\ open' = open \ {"recorder"}
     /\ defers' = Tail(defers)
     /\ UNCHANGED <<pc, apiOn, result, outcome, turn, net, work>>

\* The deferred calls, in the reverse order of their statements.
RunDeferred ==
  /\ Running /\ pc = "defers" /\ defers # <<>>
  /\ LET c == Head(defers) IN
       IF c = "recorder" THEN CloseRecorder
       ELSE /\ open' = open \ {c}
            /\ cancelled' = (cancelled \/ c = "cancel")
            /\ defers' = Tail(defers)
            /\ UNCHANGED <<pc, apiOn, result, outcome, turn, signalled, serveErr, listener,
                           missed, outlived, work, log>>

\* main: log.Fatal on an error, else the end of the program.
Exit ==
  /\ Running /\ pc = "defers" /\ defers = <<>>
  /\ outcome' = IF result = "none" THEN "ok" ELSE "error"
  /\ UNCHANGED <<pc, apiOn, open, defers, result, turn, net, work, log>>

Main == Running /\ (Startup \/ Serve \/ Wait \/ ShutdownDns \/ ShutdownApi \/ RunDeferred \/ Exit)

Next ==
  \/ Main
  \/ \E l \in Listeners : Bind(l) \/ Break(l) \/ Report(l)
  \/ Signal
  \/ \E q \in Queries : Receive(q) \/ Query(q) \/ Record(q)
  \/ \E r \in Requests : Request(r)

\* run and the goroutines of the listeners run on, a DNS handler returns (its
\* lookups are bounded, its reply fits the socket), the recorder settles what
\* it accepted.  An API request may last for ever; nothing forces a signal.
Fairness ==
  /\ WF_vars(Main)
  /\ \A l \in Listeners : WF_vars(Report(l))
  /\ \A q \in Queries : WF_vars(Query(q)) /\ WF_vars(Record(q))

Spec == Init /\ [][Next]_vars /\ Fairness

-----------------------------------------------------------------------------
(* What the order of startup and shutdown must give.                       *)

TypeOK ==
  /\ pc \in Range(Stages) \cup {"serve", "wait", "shutdown", "apiShutdown", "defers"}
  /\ apiOn \in BOOLEAN /\ signalled \in BOOLEAN /\ cancelled \in BOOLEAN
  /\ open \subseteq {"store", "geo", "recorder", "dashboard"}
  /\ Range(defers) \ {"cancel"} \subseteq open
  /\ result \in {"none", "listener", "startup"}
  /\ outcome \in {"running", "ok", "error"}
  /\ turn \in 1 .. Len(DnsServers) + 1
  /\ serveErr \subseteq Listeners /\ missed \subseteq Servers /\ outlived \subseteq Requests
  /\ listener \in [Listeners -> {"none", "starting", "listening", "broken", "failed",
                                 "draining", "stopped"}]
  /\ qpc \in [Queries -> {"none", "handling", "reply", "done"}]
  /\ rpc \in [Requests -> {"none", "running", "done"}]
  /\ Log!TypeOK

\* The queries of the servers that Shutdown could stop.
Waited == {q \in Queries : qpc[q] # "none" /\ Via[q] \notin missed}

\* A component is closed only after what uses it has ended: no DNS handler that
\* Shutdown waited for still needs GeoIP or the recorder; no API request still
\* needs any of them, but for those that outlived the five seconds; and the
\* recorder, whose retry goroutine looks addresses up, is closed before GeoIP,
\* all before the store (main.go: the deferred closes against the Shutdowns).
UsersEndFirst ==
  Running =>
    /\ \A q \in Waited : qpc[q] # "done" => {"geo", "recorder"} \subseteq open
    /\ \A r \in Requests \ outlived :
         rpc[r] = "running" => {"store", "geo", "recorder", "dashboard"} \subseteq open
    /\ "recorder" \in open => "geo" \in open
    /\ open # {} => "store" \in open

\* However the process ends by itself, every query whose server Shutdown
\* could stop is in the database or in the drop counter: none is accepted
\* after the recorder stopped reading its channel (main.go, recorder.go
\* Enqueue and Close).
AnsweredIsRecorded ==
  ~Running =>
    \A q \in Waited : qpc[q] = "done" /\ status[q] \in {"stored", "dropped"}

\* The same for every query, those of a server that started after its
\* Shutdown had returned included.
EveryAnswerIsRecorded ==
  ~Running =>
    \A q \in Queries : qpc[q] = "done" => status[q] \in {"stored", "dropped"}

\* An exit, also one out of the middle of startup, leaves nothing open that
\* startup had opened (run: the deferred closes).
ExitClosesAll == ~Running => open = {} /\ phase # "closing"

\* "A listener failure is fatal" (main.go:211): the process ends, however many
\* queries and requests are in progress, and it reports success only if a
\* signal had asked it to stop anyway (run, main).
FailureIsFatal == serveErr # {} ~> outcome = "error" \/ (outcome = "ok" /\ signalled)

\* A signal ends the process, although a request to the API never returns.
SignalEnds == signalled ~> outcome # "running"

=============================================================================
