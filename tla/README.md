# A TLA+ verification project for CaliDNS

CaliDNS is an authoritative DNS server written in Go. It answers from zones that
an HTTP API edits, routes answers by the country of the client, records queries
in SQLite or PostgreSQL, and can run as a master with slaves. This directory
holds TLA+ models of its own logic, TLC configurations that check them, and TLAPS
proofs of what matters most in them. Paths below are relative to the repository (`src/src`
is the Go module).

## The system

| component | state | operations | talks to |
|---|---|---|---|
| query recorder, `src/src/recorder/recorder.go` | channels `ch`, `taskCh`, `retryCh`, `stop`; `dropped`; a collector, 4 workers, a retry goroutine | `Enqueue`, `Close`, `New` | called by DNS handlers; writes the database, asks GeoIP |
| recorder database, `recorder.go`, `sqlite.go` | tables `queries` and `edns` | inserts, `DeleteQueries`, `DeleteEDNS`, updates of retries, history reads | recorder, API |
| resolver, `src/src/resolver/resolver.go` | the zone table and defaults under one `RWMutex` | `Resolve`, `GetZone`, `UpsertZone`, `RemoveZone`, `RemoveCountry`, `DumpZones`, `ReplaceZones`, `UpdateDefaults` | DNS handler, API, startup |
| HTTP API, `src/src/api/server.go` | the shared `*config.Config`, no lock of its own | zones, countries, server defaults; history and Geo cache endpoints | resolver, store, recorder, GeoIP, slaves |
| store, `src/src/dnsdata/store.go` | `dns_data.db`: defaults and zones | `SaveSnapshot`, `LoadDefaults`, `LoadZones` | API, startup |
| DNS handler, `src/src/handler/dns.go` | none between queries | `ServeDNS` | resolver, GeoIP, recorder |
| GeoIP, `src/src/geo/geo.go` | maps `cache`, `v6Cache`, `flights`; table `geo_cache`; the index of `geoip.dat` | `Lookup`, `DeleteCache`, `ListCache`, purge loop | DNS handler, recorder, API, an HTTP provider |
| geoip.dat, `src/src/geo/dat.go`, `update.go` | an mmap index, the file, the update loop | open, lookup, download, rename, swap | GeoIP |
| cluster, `server.go`, `src/src/main.go` | master URL or slaves in the configuration | forward each change; fetch the configuration at startup | API of other nodes |
| lifecycle, `src/src/main.go` | listeners, signal handling | start, shutdown, deferred `Close` | everything |
| dashboard, `src/internal/dashboard/dashboard.go` | static files | serve, update | API |

DNS queries and API requests run each on a goroutine of its own; `net/http` and
the DNS library bound neither. What is hard in this code follows from that:

* the pipeline of the recorder must lose nothing and stop in order while channels
  fill up and the database fails (`Recorder`);
* the two tables of the recorder are tied by no foreign key, and a retry holds a
  row id for minutes (`RecorderDB`);
* a change of the API is an edit of the table, an assignment to the configuration
  and a transaction of the store with no lock around them, undone by hand when the
  last fails (`ApiServer`);
* a query resolves twice with a network call in between (`QueryHandler`);
* the GeoIP cache is a map before a table before coalesced network calls, with
  deletions and a purge beside them (`GeoCache`);
* forwards to slaves are not ordered, not repeated, and a slave is deaf while it
  synchronises (`Cluster`);
* geoip.dat is replaced under running lookups that may hold a mapped index, by calls
  each of which can fail, in a process that can be killed between any two (`GeoUpdate`);
* the index of geoip.dat is masks, a sort, a binary search and offsets into a packed
  file that all have to agree (`DatIndex`);
* readers count in one statement and fetch in another, page after page, while rows
  arrive out of order (`History`);
* the components are opened and closed in an order, around handlers that still run
  (`Lifecycle`).

Hazards are listed one by one, with the line and the property that would catch
each, in `PROJECT.json`.

## Modules

`X.tla` is a component, `MCX.tla` its small instances for TLC, `*.cfg` the runs.
Every component module keeps, beside an action, the *faulty variants* of it: a
plausible bug in the same code, with which the properties are tested. They are
not part of any specification.

**Recorder** models `recorder.go` from `New` to `Close`. The three channels are
sequences with their capacities. `Enqueue` is the non-blocking send;
`Collector...` are the two selects of `collect` (its receive and its blocking send
are separate steps, `hand` is the entry in between), with the drain loop after
`stop`; `WorkerTake`, `InsertOk`, `InsertFail`, `QueueRetry`, `WorkerExit` are
`worker` and `insertOne`; `Retry...` are `geoRetryWorker` and `retryGeo` with its
attempts and back-off; `BeginClose` and `FinishClose` are `Close` around
`wg.Wait`. `Restart` is a crash or a clean stop followed by `New`, at any point.
A row is named by its entry. The sets `calls`, `refused`, `early`, `skipped` and
`gone` are history and influence no guard, except that an entry is enqueued once.

**QueryLog** is what callers may rely on: entries are new, pending, stored,
dropped or gone with a process, one atomic step each; the log closes when it owes
nothing. `Recorder!ImplementsLog` is the refinement: `rows`, `refused` and `gone`
give the status of an entry, everything in the channels and in hands is pending.

**RecorderDB** models the rows. The type of the database is chosen in the initial
state. On SQLite (`SetMaxOpenConns(1)`) `conn` is the one connection, and a
transaction keeps every other statement waiting. On PostgreSQL each statement sees
what is committed; rows a transaction has deleted are `doomed`: still visible,
locked against other writers, gone at its commit and back at its rollback. Row
ids come from AUTOINCREMENT or a sequence. A row has the *names* of what its geo
columns were looked up for: the client, the EDNS subnet (`dns.go:103` puts its
country in the query's row), or nothing. `DeleteQueries` is Begin, two DELETEs
and Commit; `insertOne` one statement or one transaction; a retry two updates.

**Zones** has the pure operators on the zone table that two components share:
`UpsertZone`, `RemoveZone`, `RemoveCountry`, `GetZone`, `DumpZones`, `LoadZones`
(`New`, `ReplaceZones`), `Resolve`, `BuildRRs`, `ValidRecordSet`. Which names a pattern
matches is a parameter (`Matching`), so is the order of patterns by length
(`Sorted`).

**ApiServer** extends it with the handlers. A step is a call that takes the
resolver's lock, a write of one field of the configuration, or a transaction of the
store: `StartZone` (decode, `previous := GetZone`), `ApplyZone`, `Dump`, `Assign`,
`ReadArguments` and `SaveSnapshot` (`persistDNSData`), `UndoZone`, `DumpUndone`,
`AssignUndone` (`restoreZone`), `SetTTL`, `SetResponse`, `SetRecord`, `ReadDefaults`,
`UpdateDefaults`, `UndoTTL`, `UndoResponse`, `UndoRecord`, `UndoUpdate`
(`updateServerConfig`), `Reply`.
`Restart` kills the process anywhere and builds it again from the store.
Three history variables say how far a claim may reach: `alone[h]`, no other request
ran beside this one; `mixed`, two requests have overlapped since the process
started; `halfway`, it has refused a PUT whose TTL was assigned. `before[h]` is what was in
force when a request began that runs alone. `Configs` are the values a ZoneConfig may have, closed under the removal of a
country. `promised` holds the acknowledged changes; a request takes its own zone's
promise back, and so does `Spoiled`: a handler that undoes a failed save of a zone may
put back a copy taken before another request's acknowledged change of that zone.

**History** has the readers `QueryHistory`, `QueryEDNS` and `GetStats` and a client
that walks the pages. `Ask` is the request, `Count`, `Fetch` and `CountHits` are the
statements, `Page` is LIMIT and OFFSET, `Sorted` any order that ORDER BY allows. The
tables change between any two of them: `Insert`, `Enrich` and `EnrichEdns` (a retry),
`DeleteQueries`, `DeleteEDNS`, each at once, as a reader sees what RecorderDB does.

**QueryHandler** is `ServeDNS` beside an API that edits zones and defaults
between any two of its steps, `default_record` and the response for unknown names
among them. GeoIP may answer any country, none, or an error, for the client and for the
EDNS subnet. `switched[h]` is history: `DefaultRecord` was set to true while the query was
between its two reads of it.

**GeoCache** is `Lookup`, `lookupProvider`, `DeleteCache` and the purge. A map access
under `mu`, a statement of SQLite, a section under `flightMu` is one step. A key is a
/24 network or an IPv6 address; a result is named by the provider call it came
from. Every statement may fail: a row that cannot be read passes for none, a row that cannot be
written fails the lookup, `Lookup` and the purge go on when a deletion fails, and
`DeleteCache` ends with the memory as it was. `carried` is
history: the keys whose results some lookup carried when the deletion began.

**GeoUpdate** has the file geoip.dat, the index that lookups read under `localMu`, and
the goroutine `updateLoop`. `Start` is `NewLookuper`; `Fire`, `RetryFires` and
`Cancelled` are `waitForGeoIPUpdate` and the wait after a failure; `Request`,
`CreateTemp`, `Copy`, `LoadDatIndex`, `Chtimes`, `Rename`, `Swap` and `CloseOld` are the
calls of `updateDat`, `Fails` any of them failing; `RLock`, `Search`, `Return` a lookup
in the index; `Stop`, `WorkersDone`, `CloseIndex` are `Close`. `Kill` ends the process
at any step, `PowerFailure` also loses a rename or data that was not synced; both leave the
download file of the attempt they interrupt behind (`litter`). Ages and
timers stop at `Interval` and at zero, so time has no bound.

**DatIndex** is the data of that index: `BuildIndex` from the CIDRs of a file (codes,
masks, one sorted table per family and prefix length), `MapCompactIndex` (the packed
file: where each record is written and where each table is read), `Lookup` (the search,
lengths from the longest). An address is its bits, so that masks and the order are those of
the code and a prefix is a number of bits. The library is taken at its word: `InOrder` is what `sort.Slice` promises
(equal elements in any order), `SearchFirst` what `sort.Search` does. The
actions load a file, or refuse it, and ask for an address.

**Cluster** has the nodes' tables, the forwards of each request (reaching the slave,
failing, or timing out and arriving late) and the phases of a slave's start. One
request inside one node is atomic here; `ApiServer` is its inside. Two history variables name,
for each slave, the zones that may differ from the master's: `lost`, a forward
of the zone failed or came late; `crossed`, two forwards of it were under way at once. The next change
of a zone that nothing crosses takes it out of both, and so does a synchronisation beside which no older
forward of it is under way.

**Lifecycle** is `run` in `main.go`: `Open` and `SkipApi` are the stages of startup, each
of which may fail; `Serve` starts the listeners; `Wait` is the select; `ShutdownDns`
and `ShutdownApi` are the loop over the servers and the five seconds of the API;
`Defer` registers a deferred call, last first; `RunDeferred` and `Exit` are the deferred calls and
the status. `Bind`, `Break` and `Report` are
the listeners, `Signal` the signal goroutine. `missed` and `outlived` are history: the servers
whose `Shutdown` found them not started, and the API requests that still ran when the five seconds
were over. It composes the module with the
recorder's promise: `Log == INSTANCE QueryLog WITH Entries <- Queries`, whose `Offer`,
`Settle`, `BeginClose` and `EndClose` are the recorder here, and which `Recorder` implements.

**XProofs** has the theorems about `X`: Recorder, RecorderDB, ApiServer (with the zone table),
QueryHandler, GeoCache, GeoUpdate, Lifecycle and Cluster have one.

## Runs

| run | what it asks | bounds | states |
|---|---|---|---|
| `recorder_pipeline` | the invariants, the refinement of QueryLog and the liveness of the recorder | 3 entries, 2 workers, capacities 1, 2 attempts, 1 restart | 142k |
| `db_tables` | tables in step on SQLite; updates of retries hit their own row on both databases | 2 clients (one with EDNS), 2 workers, 2 deletions, ids 1..2 | 361k |
| `history` | pages, totals and statistics while rows come, change and go | 4 rows that arrive in any order, page sizes 1 and 2, 5 pages of a walk | 1.9M |
| `api` | requests that overlap, saves that fail, a restart | 2 handlers, 2 patterns, 3 requests, refused ones among them, 1 restart | 2.7M |
| `api_lost_update` | counterexample: two saves in the reverse order | 2 requests | |
| `dns_answers` | replies and records while the API edits zones and defaults | 2 queries at once, 2 edits | 2.2M |
| `geo_cache` | safety of lookups, a deletion, the purge | 1 IPv4 key, 1 IPv6 key, 2 lookups, 2 provider answers, clock 0..1, TTL 1 | 1.4M |
| `geo_liveness` | lookups return, IPv4 entries leave memory | 2 IPv4 keys (one in geoip.dat), 2 lookups, clock 0..2 | 238k |
| `geo_update` | the replacement of geoip.dat under lookups, failures, kills | 2 valid contents, 2 lookups, 4 index objects, interval 1, retry 1, mmap on | 101k |
| `dat_index` | the search against the longest matching prefix | IPv4 of 2 bits, IPv6 of 2 bytes of 2 bits, every file of at most 3 CIDRs, with and without mmap | 691k |
| `lifecycle` | startup, service, shutdown and exit | 2 DNS servers, 2 queries, 1 API request, API on or off | 424k |
| `cluster` | slaves follow the master | 2 handlers, 1 slave, 2 patterns, 2 configurations, 3 requests, 2 starts | 760k |

Why the bounds are enough: with capacities of 1 and three entries each channel is
empty, full, and refused a send while every goroutine also holds an entry; two
workers, handlers or lookups give every race between two of a kind, and the properties
relate at most two of a kind; two ids with AUTOINCREMENT against two deletions reach
the reuse of an id that the faulty variant shows; a TTL of one tick lets an entry be
fresh, at its expiry and, at clock 2, past it. Slaves do not interact, so one is
enough. Four index objects are more than two lookups, `local`, `fresh` and `old` ever
refer to at once. Two bytes of two bits give an IPv6 prefix that ends before, at,
inside and behind a byte, and three CIDRs give a table of more than one record beside a
shorter or a longer match. Four rows with pages of one and two give a walk a first,
a middle, a partial and an empty page. An interval of one tick has an age at which the file is
due and one at which it is not, and a wait after a failure that ends before, at and after it;
three requests of two handlers overlap on one zone, on two, and before and after a
synchronisation.

The bounds `MaxRestarts`, `MaxRequests`, `MaxEdits`, `MaxQueries`, `MaxId`,
`MaxDeletes`, `MaxCalls`, `MaxClock`, `MaxStarts`, `MaxPages` and the rows `Arriving` are
guards of the models and of nothing in the code. Deadlock checking is off where a system may stop:
a recorder that is closed, a process that has exited (`lifecycle`), an address that
has been looked up (`dat_index`), or a model that has used up its requests, ids or
queries. It is on for GeoCache, GeoUpdate and History. Symmetry is used for handlers,
lookups, workers and deletions, and for patterns and configurations of the cluster, where the
model treats them alike; never with a liveness property.

What the properties say of the code:

* **Recorder.** `ExactlyOnce`: each entry handed to `Enqueue` is in exactly one
  place and `dropped` is exact. `CloseFlushes`: once the database is closed all that
  was accepted before `stop` is stored or counted, whichever ready case the collector's
  select took. `CloseIsQuiet`: no goroutine still needs the database. `RetryOnlyStored`:
  retries are for committed rows that need one, one job a row. `Settled`,
  `CloseTerminates`, `RetrySettles`: liveness.
* **RecorderDB.** `NoOrphanEdns`, `EdnsKept` on SQLite; `UpdatesOwnRow` on both.
* **History.** `WalkMissesNothing`: a walk to the empty page has seen each row that
  matched all the time, if no matching row has left and no two rows have one `created_at`;
  arrivals only push rows to later pages. `TotalFits`: the two numbers of an answer, total and page or queries and hits,
  disagree by what changed between the two statements and by nothing else.
* **ApiServer.** `PromisedInForce`: an acknowledged change is what the resolver
  answers from until another request changes that zone, or undoes its own change of it.
  `Agreed`: idle, the table, the configuration and the store have the same zones, unless requests
  overlapped, and the same defaults, unless they did or a PUT was refused with its TTL assigned.
  `FailureLeavesNoTrace`: a 400, 404 or 500 of a request that ran alone leaves the rows of the
  table, their order, the defaults and the store as they were. It names the two traces the code does
  leave: the TTL of a PUT whose response is refused (`server.go:657-664`), and the place of a
  zone whose DELETE could not be saved: `restoreZone` appends it to the table, so that of two patterns
  that match a name another may now come first. `NoDuplicatePatterns` holds whatever overlaps.
* **QueryHandler.** `AnswerConsistent`: a reply is `Resolve` of *one* table that was
  in force while the query ran, for the country looked up. `EnrichedOrDeferred`: what is
  recorded, by its zone or by default, is marked for the recorder exactly if it was not looked up or
  a lookup failed, the client's or the subnet's. Excepted (`Excused`) is what was not marked because
  recording by default was off at `dns.go:115`, and recorded because it was on at `dns.go:123`.
* **GeoCache.** `AnswerForKey`, `NoStaleAnswer`: an answer is for the address and was
  fresh at some moment of the lookup. `SingleFlight`: one provider call an address.
  `DeletedV4Gone`: after a deletion no IPv4 entry of its keys is in the table or in memory
  but what a lookup carried or fetched since. `Answered`, `MemoryReclaimed`: liveness.
* **GeoUpdate.** `AnswerOfActive`: a lookup answers from an index that was active
  during it, never from an unmapped one. `AlwaysStarts`: after a kill or a power failure at
  any step the file loads. `IndexFollowsFile`, `NothingLeaks`: file and index agree
  outside the swap; between attempts the process has nothing mapped but the active index, and no
  download file of its own. What a kill or a power failure interrupts stays on the disk for good: no
  later start removes `.geoip-download-*`. `OnlyWhenDue`: the schedule survives restarts and is
  kept. `Refreshed`: a file that is due is replaced, if time passes. `CloseReturns`: `Close` returns
  although no timer need ever run out, so it waits for none.
* **DatIndex.** `LongestPrefixWins`, with a definition of prefixes by bits that shares nothing
  with the masks of the code.
* **Lifecycle.** `UsersEndFirst`: nothing is closed before what uses it: no handler of a server that
  `Shutdown` stopped still needs the recorder or GeoIP, and no API request still needs any component,
  but those that outlived the five seconds, which run on beside the deferred calls.
  `AnsweredIsRecorded`: what a server answered that `Shutdown` could stop is stored or counted
  at the exit. `ExitClosesAll`; `FailureIsFatal`: a listener that fails ends the process, with
  an error unless a signal came too; `SignalEnds`.
* **Cluster.** `InSync`: with any requests at once, a zone on a slave that is up is its master's whenever
  no request is under way, but for the zones in `lost` or `crossed`. So what a lost,
  late or overtaking forward does is confined to its own zone, and is over with the next change of the zone or the next
  synchronisation, deletions missed while the slave was offline included.

Each module has a type invariant `TypeOK`. No run spends a property on it: those of the
modules with proofs are theorems (`TypeCorrect`, or a conjunct of the inductive invariant), and TLC confirms all
of them under the constants of the runs when they are added to a configuration.

### Fairness

Weak fairness on what is never blocked by choice: the collector, each worker, the retry
goroutine and the end of `Close` of the recorder (Go schedules every runnable
goroutine; a database call and a lookup return with a result or an error, both of
which the fair action allows); each lookup (the provider has an HTTP timeout) and
the purge, whose ticker fires every hour. Nothing forces a query, a request, `Close`,
a restart, a signal or, in GeoCache, a tick of the clock. `Settled` and
`CloseTerminates` allow a restart to intervene.

In GeoUpdate the goroutine and lookups run on, and `Close` goes on once called. That time passes
(`TimePasses`, WF on `Tick`) is a premise of `Refreshed` alone: `CloseReturns` holds in behaviours in which it
stands still. Strong fairness on the successful calls of `updateDat`, one by one, says
that of the attempts that come to a call again and again some see it succeed; without it
the download may fail for ever and `Refreshed` is false. It is an assumption on network and disk;
the code's part is to go on trying. In Lifecycle `run` goes on, a
listener reports its end, handlers return (their lookups are bounded) and the recorder
settles what it accepted; an API request may last for ever.

## Counterexamples

One is a run. The configurations of the others stay here for whoever changes the
code; each checks one property and TLC finds it violated
(`tlc -config X.cfg MCY`).

| configuration (module) | property | what happens |
|---|---|---|
| `Api_lost_update` (MCApiServer), the run | `AcknowledgedSaved` | Of two concurrent requests the older dump is saved last: an acknowledged change is missing from dns_data.db (`API_EN.md:81`). |
| `Recorder_retry_full` (MCRecorder) | `SkippedRetriedOnRestart` | `recorder.go:718` says a job skipped for lack of room "will be retried on next restart"; `New` queues nothing. |
| `DB_orphan` (MCRecorderDB) | `AssociatedEdnsDeleted` | On PostgreSQL a row whose insert commits between the two DELETEs keeps its edns row for ever. |
| `Geo_delete_v6` (MCGeoCache) | `DeletedIsGone` | `DeleteCache` without filters leaves `v6Cache` (`API_EN.md:188`: it deletes the entire cache). |
| `Geo_delete_race` (MCGeoCache) | `DeletedIsGone` | A lookup that has read the row stores it in memory after the deletion. |
| `Geo_purge_v6` (MCGeoCache) | `MemoryReclaimed` | Nothing ever removes an entry of `v6Cache`. |
| `Geo_coalesce` (MCGeoCache) | `Coalesced` | A lookup that missed the cache before a flight landed leads another after it. |
| `Api_refused` (MCApiServer) | `RefusedChangesNothing` | PUT /api/server with a good TTL and a bad response is answered 400 and has set the TTL. |
| `DNS_deferred` (MCQueryHandler) | `AlwaysDeferred` | `DefaultRecord` is set between its reads at `dns.go:115` and `dns.go:123`. |
| `DNS_country` (MCQueryHandler) | `RecordsClientCountry` | The EDNS subnet's country is recorded as the client's (`API_EN.md:144`). |
| `DNS_alias` (MCQueryHandler) | `AliasAlone` | `other: "CNAME target."` passes `ValidateRecordSet` beside addresses. |
| `Cluster_reorder` (MCCluster) | `ForwardsSuffice` | Forwards of two concurrent requests on one zone arrive in the other order: a slave that got every forward in time differs from its master. |
| `Cluster_window` (MCCluster) | `NothingLingers` | A deletion after the slave fetched and before it listens never reaches it. |
| `Lifecycle_late` (MCLifecycle) | `EveryAnswerIsRecorded` | A DNS server that binds only after its `Shutdown` gave up answers queries that the closed recorder never stores or counts. |
| `History_ties` (MCHistory) | `WalkMissesNothing` | With equal `created_at` two pages may order rows differently: one comes twice, one never. |
| `History_deleted` (MCHistory) | `WalkMissesNothingAtAll` | A deletion between two pages moves the rows behind it over the edge of the page. |
| `History_stats` (MCHistory) | `HitsArePart` | `GetStats` reports more cache hits than queries when a row arrives between its counts. |

Three disagreements are only noted: `API_EN.md:53` says `dropped` counts failed inserts,
it also counts a full queue; `EdnsKept` fails on PostgreSQL when a retry changes the
country of a row between the two DELETEs of a deletion by country;
`geo.go:293` deletes an expired row by its subnet, so a fresh row stored meanwhile goes too (it is
looked up again).

## Proofs

Each theorem holds for every value of the constants that satisfies the named assumption of
the module: any number of goroutines, requests, entries, keys or addresses, any bound. The
assumptions say that the special values (`None`, `Bad`, ...) are no value of another kind, that
bounds are numbers, and what is listed below; TLC evaluates them in every run. None of the properties is
inductive by itself. Each module has its strengthening `IInv` (`ReaderInv` and `WalkInv` for History, `DatInv` for DatIndex),
checked by TLC on the run's instance (`DatInv` on fewer files) before it was proved; `Inductive` is `Spec => []IInv`, one lemma per action, and the theorems follow
from it. History variables (`seen`, `carried`, `owed`, `alone`, `lost`, `outlived`) are as in the models.

The proofs about the readers (History) follow those of the recorder in RecorderProofs, the proofs about the
index (DatIndex) those of the lookup that uses it in GeoCacheProofs. Each of these modules extends two
specifications, so History and DatIndex name theirs `ReaderSpec` and `DatSpec`.

| module | theorem | states | hypotheses |
|---|---|---|---|
| RecorderProofs | `TypeCorrect`, `NoEntryLost`, `CloseLosesNothing`, `CloseLeavesNoWork`, `RetriesOnlyStoredRows` | `TypeOK`, `ExactlyOnce`, `CloseFlushes`, `CloseIsQuiet`, `RetryOnlyStored` | positive capacities and attempts, a worker, finitely many entries |
| | `Refinement` | `ImplementsLog` | |
| | `TotalFitsAlways`, `ReaderTypeCorrect` | `TotalFits`, `ReaderTypeOK` of History | page sizes are positive |
| | `WalkMissesNothingAlways` | `WalkMissesNothing` of History | `DistinctTimes` |
| RecorderDBProofs | `DeletionTakesEdns`, `DeletionTakesNoMore`, `RetryHitsItsOwnRow` | `NoOrphanEdns`, `EdnsKept`, `UpdatesOwnRow` | |
| ApiServerProofs | `TableHasNoDuplicates`, `PromisesAreKept` | `NoDuplicatePatterns`, `PromisedInForce` | |
| | `ZonesAgree` | table, configuration and store have the same zones when idle and nothing overlapped | |
| | `EverythingAgrees`, `FailuresLeaveNoTrace` | `Agreed`, `FailureLeavesNoTrace` | |
| QueryHandlerProofs | `RepliesAreConsistent` | `AnswerConsistent` | |
| | `RecordedIsEnriched` | `EnrichedOrDeferred` | |
| GeoCacheProofs | `AnswersAreForTheKey`, `AnswersAreFresh`, `OneFlightPerKey`, `DeletionIsComplete` | `AnswerForKey`, `NoStaleAnswer`, `SingleFlight`, `DeletedV4Gone` | |
| | `LongestPrefixWinsAlways`, `DatTypeCorrect` | `LongestPrefixWins`, `DatTypeOK` of DatIndex | |
| GeoUpdateProofs | `AnswersAreOfTheActive`, `FileAlwaysLoads`, `MemoryFollowsFile`, `NothingStaysMapped` | `AnswerOfActive`, `AlwaysStarts`, `IndexFollowsFile`, `NothingLeaks` | more index objects than lookups plus one |
| | `DownloadsWhenDue` | `OnlyWhenDue`, an action property | |
| LifecycleProofs | `ClosedAfterItsUsers`, `NothingAcceptedIsLost`, `EveryExitCloses` | `UsersEndFirst`, `AnsweredIsRecorded`, `ExitClosesAll` | |
| ClusterProofs | `SlavesFollow` | `InSync` | |

### The hypotheses

No theorem but one has a hypothesis beside the assumption of its module. Where the code does not promise
a property without exception, the exception is part of the formula that the run checks, by name
(`TableKept`, `DefaultsKept`, `halfway`, `mixed`, `Spoiled`, `Excused`, `litter`, `missed`, `outlived`, `lost`,
`crossed`), and a configuration above shows the claim without it to be false where the documents make it. The one is

* `DistinctTimes`: no two rows have the same `created_at`. QueryHistory and QueryEDNS order by
  `created_at` alone, and two pages may order equal rows differently; `History_ties` is the trace. The run checks
  the same without ties.

That `Ids` of GeoUpdate has more than `Cardinality(Lookups) + 1` members is no restriction of the code: the
numbers stand for addresses of objects, of which the garbage collector never runs out; the assumption says that
the model always finds one that nothing refers to (`NewIdUnused`).

### The inductive invariants

* **Recorder**, `TypeOK /\ Control /\ ExactlyOnce`. Whether the collector may return depends on
  what it holds, and a closed database leaves entries behind unless the program points forbid
  it. `Control` says so: which program points hold an entry, that `taskCh` is closed only by a
  collector that has returned, what a finished goroutine leaves in its channel, and that the
  entries owed by Close are in flight or settled until then. `CloseLosesNothing` and
  `CloseLeavesNoWork` follow by the exit of the goroutines (`QuietAfterClose`);
  `RetriesOnlyStoredRows` has an induction of its own on top (`RInv`); `Refinement` maps each action
  to a step of QueryLog or a stutter.
* **RecorderDB**. `OneConnection`: on SQLite who is in a transaction has the connection.
  `Deleting`: what a deletion has taken is still what its filter selects, which needs the
  former. `Fresh`: ids above `last` were never given out. `Retrying`: the rows under the id
  of a retry job are its own entry's or gone, which needs `Fresh`.
* **History**. `Counting`: between the two statements of an answer the rows selected are as many as
  were counted, plus those that came, minus those that went; `TotalFits` follows from the page being a stretch of
  them. `Ahead`: while no matching row has left, each row the walk still owes has at least as many rows before it,
  in the order of the page, as the walk has skipped. A row that arrives above only adds to them, one that
  arrives below changes nothing, and a page that is fetched takes exactly the rows in its stretch
  (the index of a row in the sorted list is the number of rows above it).
* **ApiServer**. The first part proves what the edits of the table do, from the loops of the code to
  a function of patterns (`UpsertSets`, `RemoveRemoves`, `CountryEdits`), and that `LoadZones` and
  `DumpZones` are inverse on tables without duplicates (`LoadLoads`, `DumpDumps`); the
  second part uses only that. `PromisedInForce` is inductive with `NotPromised` while requests
  overlap; over a restart it needs `PromisedSaved`, the store has the promises. `ZonesSync` says how
  table, configuration and store differ at each point of a request, `Trace` and `DefaultsSync` the same for
  failed requests and for the defaults.
* **QueryHandler**. `Marked`: at each point between the lookups and the record, the mark in hand is the one
  the lookups call for, or the default was switched on. `Underway`: the table in force is among those the query has seen. `Consistent`: from
  the second `Resolve` on, or when it is skipped, the answer in hand is that of one seen table for the country
  in hand.
* **GeoCache**. `Holding`, `Caches`, `Flights` say what is held and stored where; `Deletion`, that nothing a
  deletion owes is in the table, in memory or in a hand once the respective step is done.
  `Unique` is needed for the flight that lands in the middle of a deletion: its result is nowhere else, so
  it can be none of the entries owed.
* **GeoUpdate**. `FilesGood`: what is renamed was synced, then validated, in this order.
  `IndexesGood`, `MappedGood`: the active, the new and the retired index are distinct, nothing else is
  mapped. `ReadersGood`: a reader has the active index, because the swap waits for it. `TimerGood`: the timer of
  the loop never fires before the file is due.
* **DatIndex**. `DatInv`: a loaded index `IsIndex` of its file, which says of each table that it is
  sorted, and complete and sound against the CIDRs of the file. The lemmas go along the code:
  both masks keep the first p bits (`MaskKeepsPrefix`, over whole bytes and a rest), so masked addresses are
  equal iff the bits are (`MaskedAlike`); the order of addresses is total (`LessOrder`); sorting lists each
  record once (`InOrderLists`, `TableBuilt`); no two records are written to the same place and
  each table is read where it was written (`WrittenAt`, `WrittenOnce`), so the mapped index is the built one
  (`MappedIsBuilt`); the search finds a record if there is one (`FindAnswers`); the first length with a record
  is the longest that covers (`LookupAnswers`).
* **Lifecycle**. `Stack`: the deferred calls on the stack are exactly those of the stages passed, and what is
  open is what they close. `Turns`: the servers whose turn is over are stopped with their handlers
  returned, or were missed. `Requesting`: once the deferred calls run, the API serves no more and only requests
  that outlived its `Shutdown` run. `Recording`: the log closes in its turn and owes what the handlers handed it.
* **Cluster**. `Forwarding`: a forward under way of a zone that is not crossed carries what the
  master has. `Behind`: of the zones not marked, a slave lacks only what it is being sent. `InSync` is `Behind` when
  nothing is.

The lemmas on operators are stated once and cited: sequences (`AppendFacts`, `TailFacts`, `EmptyFacts`, the
stacks of Lifecycle), what workers are inserting (`Inserting...`), rows and jobs, the zone table.

### Only model-checked

* Liveness: `Settled`, `CloseTerminates`, `RetrySettles`, `Answered`, `MemoryReclaimed`, `Refreshed`,
  `CloseReturns`, `FailureIsFatal`, `SignalEnds`. Fairness and ENABLED are out of the prover's reach.
* What the parameters stand for: regular expressions, parsing, the addresses in a query.

Every other property of the passing runs is a theorem. The modules use no RECURSIVE operator, and no proof an
induction over data: where one is needed (order of addresses, the search, sorted lists) the argument is by
a least counterexample (`LeastOf`, from the well-foundedness of the numbers) or by counting a finite set. That
`sort.Slice` sorts and that `sort.Search` ends at a boundary is the library's part.

## What the models take for granted

* An insert that returns an error has written no row. A commit whose answer is lost
  would make `dropped` count a stored row.
* Recorder and RecorderDB retry as with a GeoIP database; without one (`r.geo == nil`)
  no job is queued, which is `GeoFailed = {}`.
* No torn reads: each field of `cfg.Server` is read and written in one step, although
  the code takes no lock.
* GeoCache: whether geoip.dat knows a country is fixed per /24 network; a country filter
  of `DeleteCache` is any set of keys, the same for rows and memory. With an address and
  a country, the memory entry of the address goes whatever its country; the model has it so.
  An address that is no IP returns at once and is left out.
* GeoUpdate: a rename replaces the file or does not; after a power failure the directory may
  have the old name, and a file that was synced has its data. Nothing else writes geoip.dat.
* DatIndex: two countries with the same CIDR answer with either, the sort is not stable.
  Codes are two capital letters, so there are never more than the 65,536 that a record can number.
  The protobuf bytes are abstracted to the CIDRs they yield, or to the error.
* History: a client goes on behind the last item it received. On PostgreSQL an edns row
  without its query is possible, which is why deletions may leave one.
* Lifecycle: `Shutdown` of a DNS server waits for its handlers without a limit, as the library is
  called here; a second signal, which kills, is a behaviour that stops.
* Cluster: zones change through the master only; deletion of a country and the server
  defaults are forwarded by the same code and left out. A forward is applied atomically.
* PostgreSQL runs READ COMMITTED with row locks; a deadlock between transactions is
  a statement that fails, so a rollback.

Not modelled: parsing and defaults of the YAML configuration and the generation of a
default file (once, at startup, no state afterwards); parsing of DNS records and of
addresses; regular expressions (a parameter of `Zones`); authentication, CORS, health
and listing endpoints (they keep no state); the HTTP exchange with the provider;
the contents of the dashboard (the choice of files in the ZIP is string handling, the
handler swaps one pointer under a lock after a download that validated; its opening and
`Close` are a stage of Lifecycle); `DeleteBefore`, `Disable` and the functions of the store
that nothing calls.

## Plan

1. Done: Recorder, QueryLog, RecorderDB, Zones, ApiServer, QueryHandler, GeoCache,
   Cluster, GeoUpdate, DatIndex, History, Lifecycle, and the proofs above.
   Every invariant and every action property of the runs is proved.
2. A module for the dashboard's swap of files, if its handler gains more state.
