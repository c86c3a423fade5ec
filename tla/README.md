# Verification of twinflow

TLA+ models of twinflow: the discrete-event receiving line, the Sparkplug node of
a device with its messages, wire codec and conformance runner, the container
around it and the two networks, the historian with its paged readers, the archive
of recorded runs, the dashboard's write path, the autonomy session and the tools
of the agent, the sensors, the kernel's clocks, registries and scenario, the
configuration, and the roadmap tool that projects the plan onto the tracker. TLC
checks each on small instances. TLAPS proves for every value of their constants the
safety properties of the line and its refinement of a first in, first out line, and
those of the session, the container, the two networks, the historian with its
readers, the command path, the autonomy session and the archive. `PROJECT.json` lists the components, the
runs, the definition-to-source map, the mutants, the hazards and the theorems.

Paths below are relative to the repository; `twin/station.py` stands for
`packages/twinflow-twin/src/twinflow/twin/station.py`, and so on for the other
packages.

## 1. Inventory

| Component | State it keeps | Operations that change it | Talks to |
|---|---|---|---|
| Station line, `twin/station.py` | pallet states, running unit totals, server counts, state spells, the tape; SimPy's queue, one Store, one Resource | the steps of a pallet process and of a putaway server between two yields; `run` | SimPy; its tape is what the historian records |
| Edge node session, `sensors/sparkplug.py` | connected, bdSeq, seq, births | connect, disconnect, node/device birth, data, death, rebirth | hands messages to its caller, who publishes them |
| Device container, `sensors/__main__.py` | a session and a network | announce, hold, farewell | MqttNetwork, a broker |
| Bus and MQTT adapter, `kernel/_impl/network.py`, `real/mqtt.py` | clients, wills, subscriptions | connect, publish, subscribe, disconnect, drop; paho's reconnection | every publisher and subscriber |
| Historian, `storage/historian.py` | events, held hash, arrivals, next sequence per producer, sealed | append, hash, seal, read | a clock; producers; the api |
| Event pages, `api/pagination.py`, `cursor.py`, `app.py` | none on the server; a cursor with the client | page_of, the events and stream routes | the historian |
| Run archive, `storage/adapters/files.py` | four files per run directory | write_run, read_run, discover_runs | the historian; the api at its start |
| Command path, `dashboard/app.py`, `commands.py`, `assets/index.html` | a counter per page; CommandLog's counter and memory of ids | POST /api/command | the sink, which is the run's historian |
| Autonomy session, `agent/autonomy.py` | the live grant, its question count, the audit trail | authorize, request, approve, refuse, revoke, note_question, attribute_change; expiry on every read | the simulated clock; the api |
| Clock and paced clock, `kernel/_impl/time.py`, `paced.py` | the instant; the pace | advance_to, timeout, set speed | everything that stamps |
| Stream and hook registries, `rng/registry.py`, `derive.py`, `kernel/_impl/environment.py` | declared names, handouts, hooks | register, get, register_hook | the kernel's processes |
| Scenario runner, `kernel/_impl/scenario.py`, `__main__.py` | the clock, the log, one generator per station | run_scenario, simulate | clock, registry |
| Portal and temperature sensors, `sensors/portal.py`, `temperature.py` | an inventory with a cap, counts of what was left out, a filter | observe, read, publish, fault | the session |
| Wire codec and conformance runner, `sensors/wire.py`, `conformance.py` | none | encode, decode; play one session and rule on every assertion | the session |
| Tools and local model, `agent/tools.py`, `local_model.py` | registered specs, a metrics file read once, bound calls | register, bind, bind_structured, invoke | the autonomy tiers; a model daemon |
| Namespace, profile and metrics, `config/_impl/*` | none | parse, validate, resolve | files that people edit |
| Schema versions, `schemas/compat.py` | none | compare_schemas | the schemas that are published |
| Roadmap tool, `tools/roadmap` | roadmap.yaml, the register, the issue tracker | validate, coverage, sync, drift | gh |

What is hard to test in them, and what makes them correct:

* **Ties of the event queue** (station line). A staging put hands the pallet to a
  waiting putaway server before the pallet's own process has marked it `STAGED`,
  and only the insertion order of two events of one tick keeps the server from
  raising. Correct: no illegal transition, units conserved and attributed,
  capacities kept, no lost wake-up, a gapless trace, everything stored.
* **Births, deaths and drops** (session and container). The number that
  correlates a birth with its death moves at connect, the will is registered
  before the births, and the link may drop between any two messages. Correct:
  nobody holds a dead node for alive for ever, data is always readable, a
  discontinuity always means loss.
* **An unreliable link into an append-only log** (historian). Events come late,
  twice, out of order, from the future, from a producer that has restarted, and
  the log has no repair. Correct: the log always passes its own gate, the held
  hash is never stale, a sealed run's sidecar stays true, the log plays back.
* **Reading while the log grows** (pages). Late events land before the cursor.
  Correct: INV-K16, nothing that existed is skipped and nothing comes twice.
* **Four files, no transaction** (archive). The writer may stop within any file,
  over an older run, while a reader reads. Correct: what loads is one recording.
* **At-least-once posts** (command path). Answers get lost, pages collide, the
  sink refuses, the server restarts. Correct: a 202 means one event on the log.
* **Expiry without a timer** (autonomy). A grant ends by questions, by time or by
  revocation, and time is looked at on read only. Correct: nothing above the
  default tier outside what the audit trail shows as granted at that point.

* **Requests in threads** (autonomy). The api runs `propose_config` in a thread
  pool and no lock guards the session. Correct: whatever the interleaving, a
  request is told no tier but that of a grant held meanwhile.
* **Handlers that call back** (bus). The loop over the subscriptions is live while
  a handler publishes, subscribes and leaves. Correct: each match is served once,
  a will tells a loss and nothing else.
* **Two threads and one list** (MQTT adapter). paho replays the list while the
  caller adds to it. Correct: what was subscribed is heard after every reconnection.
* **Many calls, no transaction** (roadmap sync). Each call of gh may fail or time
  out with its effect in place, and runs overlap. Correct: an apply that reports
  success has made the tracker the projection of the plan.

`PROJECT.json` "hazards" gives each of these at its line.

## 2. Modules

| Module | Models | Composes |
|---|---|---|
| `ReceivingLine` | what the line promises: the state table, three capacities, a first in first out buffer; no clock and no queue | |
| `StationLine`, `MCStationLine` | `_Line`, its processes and the state trace, on SimPy's queue | implements `ReceivingLine` |
| `StationLineProofs` | theorems: the handover, the ledger, trace and samples, counters and wake-ups; the line implements `ReceivingLine` | extends `StationLine` |
| `EdgeNodeSession` | `EdgeNodeSession` with one client of `InMemoryBus` and a subscriber | |
| `EdgeNodeSessionProofs` | theorems | extends `EdgeNodeSession` |
| `SparkplugWire` | the codec of `wire.py`, byte by byte | |
| `SparkplugMessages` | the messages of `sparkplug.py`: topics, aliases, metrics, mirror | |
| `ConformanceTable`, `Conformance`, `ConformanceRunner` | the table of assertions, the checks and the report of `conformance.py` | `SparkplugWire`, `SparkplugMessages` |
| `SparkplugEdgeNode`, `MCSparkplugEdgeNode` | the conformance runner's node in any order of calls | the four above; implements `EdgeNodeSession` |
| `SparkplugEdgeNodeProofs` | theorems: the mirror, the aliases, conformance; the node implements `EdgeNodeSession`, and what `EdgeNodeSessionProofs` proves holds of it | extends `SparkplugEdgeNode`; instance of `EdgeNodeSessionProofs` |
| `DeviceService` | `main` of the sensors package, MqttNetwork, broker | extends `EdgeNodeSession` |
| `DeviceServiceProofs` | theorems | extends `DeviceService` |
| `Historian` | `Historian`, producers on a link, a client of the event pages | historian, producers, reader |
| `HistorianProofs` | theorems | extends `Historian` |
| `RunArchive`, `MCRunArchive` | `write_run` and `read_run`, file by file | assumes what `Historian`'s `ArrivalsReplayable` gives |
| `CommandPath`, `MCCommandPath` | pages, `create_app`'s command route, `CommandLog`, the sink | pages, server, historian |
| `CommandPathProofs` | theorems | extends `CommandPath` |
| `AutonomySession` | `AutonomySession` and its audit trail, call by call | |
| `SessionThreads` | the same session under requests in threads, read by read | session, api |
| `ToolRegistry` | `tools.py` and `local_model.py` | the tiers |
| `PortalReader`, `TemperatureSensor` | the two sensors | |
| `TopicFilters`, `InMemoryBus`, `MqttNetwork` | matching, the bus, the subscriptions of the adapter | |
| `RunRegistries`, `SimTime`, `ScenarioRun` | streams and hooks, the clocks, the scenario | |
| `UnifiedNamespace`, `FacilityConfig`, `SchemaCompat` | UNS paths, the loaders, compare_schemas | `UnifiedNamespace` uses `TopicFilters` |
| `RoadmapRules` | `dag.py`, the rules of `roadmap.py`, `coverage.py`, `append_only.py` | |
| `RoadmapSync`, `MCRoadmapSync` | `sync.py`, `command_sync`, `drift.py`, the tracker | several runs of the tool, editors |
| `MCComponents` | one component at a time of the ones that share no state | the fifteen modules from `RunArchive` on, without `CommandPath` |
| `ComponentsProofs` | theorems about `AutonomySession`, `SessionThreads`, `ToolRegistry`, `RunArchive`, `InMemoryBus`, `MqttNetwork` | extends `MCComponents` |
| `RunProofs` | theorems about `RunRegistries`, `SimTime`, `ScenarioRun`, `SchemaCompat`, `UnifiedNamespace`, `FacilityConfig`, `RoadmapSync` | extends `ComponentsProofs` |

How state and actions correspond to the code:

**StationLine.** Every process waits for at most one event, so SimPy's heap is
two functions: `pc`, what each process waits for, and `ev`, the tick and the
insertion number of that event. One action is one event taken off the heap
together with all its callbacks, in SimPy's order; `Fires` is the heap's choice
and `Schedule` what the step pushes. SimPy is external: `TriggerPut`,
`TriggerGet` and `TriggerRequest` serve at most the head of their queue, as its
triggers do. `Arrive`, `StartUnload`, `FinishUnload` (with the immediate and the
blocked put), `Stage` and `Freed` are the stretches of `_pallet_process`;
`StartServer`, `StartPutaway` and `FinishPutaway` those of `_putaway_server`;
`Finish` is the end of `run`. The distributions become the set of ticks a draw
may round to, zero included.

**EdgeNodeSession.** The fields keep their names. A call puts what it hands back
into `outbox`; `Publish` delivers one message, `Drop` may fall between any two.
`view` is an observer that believes the births and deaths it sees. `Orderly`
states three things the code leaves to its caller: one node birth per connect,
a death only of a born device, and a reconnect only on a closed transport. The
device container, its one caller outside tests and conformance probes, keeps them.

**DeviceService.** `pc` walks through `main`. `ConnectPacket` is what a broker
does with a CONNECT (take-over with the old will published, new will held);
`Reconnect` is paho's, underneath the caller. A QoS 0 publish without a link is
lost, as `MqttNetwork.publish` ignores paho's answer.

**Historian.** `sent` never shrinks: whatever a producer emitted may arrive at any
time, any number of times, or never. `accepts` is the conjunction of the five
refusals in their order, `Record` the assignments after them. A digest is the
sequence it was taken over. The client keeps `existing`, what its walk owes it,
and `seen`; `BreakOff` keeps a prefix of a page and resumes from the cursor of
its last row, which is what Last-Event-ID carries.

**RunArchive.** Writing a file is two steps: open, with any prefix of lines or an
unparsable rest left on disk, and finish. `Crash` ends the call in between. The
reader reads in the order of `read_run` and replays through the historian's
own checks.

**CommandPath.** The handler has no await after the body is read, so a request is
one step, split by outcome: `Refuse`, `Replay`, `Accept`, `SinkRefuses`. `wire`
never shrinks (any post may be repeated) and an answer may be lost. The sink
refuses when the run is sealed, when the historian's clock is behind the stamp,
and when the number is out of turn.

**AutonomySession.** `Settled*` is the session after `_expire_if_stale`, which
every call but `revoke` makes first; `LiveAfter(n)` reconstructs from the first
n events of the trail which grant was live.

**SessionThreads.** A step is one read or write of `_grant`, a read of the clock or
the append to the audit log, in the order of `_expire_if_stale`, `_retire`,
`allowed_tier_for` and `effective_tier`. Reading an attribute of a grant that
another thread has cleared is the step `AttributeError`.

**SparkplugEdgeNode.** The session is a record and its methods are functions of it
(`SparkplugMessages`), the same ones that `Conformance` plays; the module adds the
caller, the transport, the subscriber's book of aliases and the retained mirror.
`ImplementsSession` reads the bdSeq and the births out of the messages' metrics
and finds the abstract session in them, so what is proved of `EdgeNodeSession`
(for any number of devices) is about these messages too. Names are numbers in byte
order, a text is one byte and integer fields are a few bits wide, which puts every
edge of the encodings within reach. A data call may name any metric of the table,
the two control metrics included, or none. The rebirth command is numbered there
and its birth withholds the number, so `DataResolves` leaves it, and it alone,
unresolved.

**ConformanceRunner.** The table keeps the identifier, the profile and the exclusion
of each of the assertions, each check is a predicate on the trace of `play`, and
the report counts them. `MCComponents` evaluates the report on the one session that
the runner plays, as an assumption TLC checks before the search: no failure, and a
verdict for exactly the assertions in scope. Its other assumption encodes and
decodes every birth and death at the edges of the varints. `FramesConform` says the
per-message assertions of every session: a message that is not data is one of
the frames the codec restores.

**InMemoryBus.** An activation of `_deliver` is an entry of `stack`; between two of
its steps the handler it called may do whatever a client can do, which gives the
re-entrant calls of the code. `frames` keeps what each frame was owed.

**MqttNetwork.** `subscribe` is two steps, because the loop thread may replay the
list between its append and its send. `at_broker` is what a broker of a clean
session holds.

**PortalReader, TemperatureSensor.** The running mean and the filter are exact
fractions; the property compares them with the definition over all records taken.
Records come in any order of their own instants, with the caller's instant or
without. `SilenceIsReal` is exact in both cases: without it, SILENT may follow from
a late record as well.

**ToolRegistry.** `loop` is a call of `structured` with its attempts, and each answer
of the model one of the outcomes the code tells apart.

**RunRegistries, ScenarioRun, SimTime.** A generator is its address and entropy
words; a station's draws come from the tape of its address, and the scenario is
taken event by event. `round()` is half to even, `duration_from_seconds` half
away from zero.

**UnifiedNamespace, FacilityConfig, SchemaCompat.** Functions of a document, applied
to documents that an author builds edit by edit. What a pattern makes of a name is
given as its form; an area or a line without equipment is not represented. A sorted
list (`from_facility`, `Printed` of `ScenarioRun`) is given by counting what comes before
each place, which is what sorting makes of it and what a proof can use.

**RoadmapSync.** A run of the tool is begin, two more reads, and one step for each
call of gh; `settled` marks the state after an apply from a checkout that ended
with 0 and had the tracker to itself. gh is external (`gh_accepts`, `gh_call`).
The limits on the lists of labels (200 and 500) are left out, and so are the
`brick:` and `gate:` labels, which behave as `req:` ones.

**RoadmapRules.** Pure functions of roadmap.yaml and requirements.yaml, which are
written entry by entry; `Reached`, the reference definition of a path, is bounded
by the three packages of the instance.

**MCComponents.** `part` names the component that runs in a behaviour; the variables
of the others are parked. It is a sum, not a composition: these components share
no state in the code either.

## 3. Runs

| Run | Instance | Shows |
|---|---|---|
| `station_line` | 6 pallets, 2 unload servers, 2 places, 2 putaway servers, services of 0 or 2 ticks, releases at 0 or 1, horizon 3 or none | all the properties of the line, `AllStored`, and the refinement `ImplementsLine` |
| `session` | 2 devices, modulus 4 | no false gap, no unreadable data, the subscriber's model equals the session's, every birth is covered by its will |
| `device_service` | 3 starts, 3 link losses, modulus 3 | `BirthIsCovered`, a crash is reported, a stop is not an outage |
| `device_reconnect` | the same | violation: alive over a standing connection |
| `historian_log` | 2 producers, 2 numbers each, a restart, skew 1, another run's events, 3 log entries | the log stays valid, hash and sidecar stay true, it plays back, producer order |
| `historian_walk` | 4 log entries, pages of 1 or 2, one walk with breaks | INV-K16 and `WalkEnds` |
| `archive_half_written` | 2 writes | violation: a half-written directory loads |
| `commands` | 2 pages, 2 commands each, 4 payloads, lag, sealing, a restart | what the write path keeps under which fault |
| `commands_two_pages` | 2 pages, one command each | violation: a 202 without an event |
| `edge_node` | the runner's node: 2 devices, 4 metrics, one value and null, modulus 3, 2 instants | every message conforms, every alias that a birth declares resolves, the mirror agrees, `ImplementsSession` |
| `components` | seventeen parts, below | the properties of the components that share no state |
| `roadmap_sync` | 2 packages, 2 overlapping runs, one hand edit, one failure | violation: the plan after an apply is not empty |

The parts of `components` and their bounds:

| `part` | Instance | Property |
|---|---|---|
| autonomy | 2 grants of different tier, scope and limits, 3 that are refused, clock to 2, 3 trail events | `AuditTellsGrant`, `ElevationIsCovered` |
| threads | 2 threads, 3 requests, 2 grants of different scope, clock to 2 | `ElevationIsCovered` (`RequestsFailClosed`) |
| tools | two names with every tier, effect and budget, 2 calls, 0 or 1 retries, two versions of the metrics file | `ToolsAreGoverned` |
| portal, temperature | cap of one tag, 3 records out of seven kinds; 4 readings around both edges of the band | `SensorsTellTheReadings` |
| bus, mqtt | 2 clients, 2 subscriptions, 2 nested frames, wills; 2 subscriptions, 3 reconnections, 2 messages | `NetworksDeliver` |
| registries, time, scenario | 5 names, 3 handouts; five speeds, 3 instants; 4 lists of stations, with a spread above the mean and an id twice | `RunsRepeat` |
| namespace, profile, metrics, schema | 2 declared pieces of equipment; 3 edits of a profile; 3 edits of a metrics file; 3 versions of a schema of 2 properties | `ConfigurationResolves` |
| archive | 3 recordings of one id, 3 writes with crashes, a reader | `ArchiveReadsBack` |
| sync, rules | as `roadmap_sync`, with the shipped configuration; 2 phases and every dependency graph over 3 packages, 4 versions of the register | `RoadmapIsProjected` |

A property of `components` is a conjunction of its modules' own, one per
component, each with its comment in the module.

Every property of a passing run has a mutant, a plausible slip in the code that
TLC finds under the same configuration.

**Why the bounds are enough.** With six pallets the line can hold two in putaway,
two in the buffer, two unloaded and blocked at once, so every wait of every
process occurs, with ties (services of zero ticks) and without; the horizon at 3
stops it in the middle. A modulus of 4 with three births per rebirth wraps seq
inside a rebirth, and 3 does so across reconnections. Two producers are enough
for a tie broken by producer id, two numbers for a gap, three log entries for a
late arrival between two others. Four log entries with pages of at most two give
a first, a middle and an exactly full last page with growth in between. Three
writes are needed for a torn write over a complete one over an older one. Two
pages and two commands give a collision of ids with a counter that has moved on.
Two grants give an approval after an expiry of another, and two threads with
three requests let a thread that is late retire the grant that followed. Two
subscriptions and two nested frames are a handler that publishes within a
delivery and one that subscribes within it; three reconnections come before,
between and after the two steps of a subscribe. Three versions of a schema are a
chain whose first and last were never compared. Two runs of the sync overlap in
every way, and with one edit and one failure a run is disturbed at every point.
Three packages have every cycle of up to three nodes and every shape of two
layers. Bounds on counters are named constants (`Max...`), and appear in guards
only.

**Deadlock.** `station_line`, `device_service`, `device_reconnect`, `roadmap_sync`
and `components` turn the check off: a run returns, a container stops for good,
and the parts end at their bounds. In `station_line` the
liveness property `AllStored` takes its place.

**Fairness.** `StationLine`: `WF_vars(Next)`, because `env.run` takes events off
the queue until it returns. `DeviceService`: weak fairness of the broker's
keepalive timer alone; nothing makes a stopped container start, a link come back
or a process end. `Historian`'s `WalkSpec`: weak fairness of `FetchPage(1)`, a
client that keeps asking; producers and breaks are under no fairness, and the
walk ends because the log is bounded.

## 4. Proofs

Every theorem is about the specification the runs use, for every value of its
constants: any number of pallets, devices, producers, pages, threads or recordings,
any capacities, times and moduli, any length of a behaviour.

| Theorem | States | Assumptions |
|---|---|---|
| `StationLineProofs!HandoverCorrect`, `TransitionsLegal` | `check_transition` never raises | `SpecAssumption`, the field constraints of the line's specification |
| `StationLineProofs!TypeCorrect`, `MaterialConserved` | types; INV-TWIN-01 | the same |
| `StationLineProofs!SpellsPartitionTime`, `RecordsAreCurrent` | INV-TWIN-09: the spells of a station partition its time; no stretch of time is charged to a stale record | the same |
| `StationLineProofs!WakeupsNotLost`, `CountersCorrect` | nobody waits for what is there; running totals and server counts are those of the pallets | the same |
| `StationLineProofs!OrderCorrect`, `LineImplemented` | one order of the pallets; the line implements `ReceivingLine` | the same |
| `EdgeNodeSessionProofs!TypeCorrect`, `DeathCorrelates`, `StreamCorrect` | counters in their byte; a live view is covered by a will of its bdSeq; no false gap, readable data, the subscriber's model agrees | `NodeAssumption`; `Orderly` where named |
| `EdgeNodeSessionProofs!BirthsOpenAtZero` | every birth of the node, a rebirth's too, has seq 0 | the same, `Orderly` |
| `SparkplugEdgeNodeProofs!WireInvariance`, `MirrorNeverDisagrees` | what is on the wire are messages of the session as it counts now; the mirror shows what the subscriber read, and a null of bad quality for an announced death | `MessageAssumption`, `BoundAssumption`; any caller |
| `SparkplugEdgeNodeProofs!ImplementsAbstractSession`, `SessionInvariance` | the node with its full messages implements `EdgeNodeSession`, whose inductive invariant therefore holds of it | the same; `Orderly` for the second |
| `SparkplugEdgeNodeProofs!AliasesResolve`, `EveryFrameConforms` | a subscriber resolves the aliases of a data message to what its sender meant, all but the rebirth command's, which no birth declares; every frame passes every assertion of the conformance table that is about it | the same and `EpochAssumption`, `Orderly` |
| `DeviceServiceProofs!ServiceCorrect`, `BirthsCovered`, `StopsQuietly` | a live view over a standing link is covered by the will; a stop is not reported as an outage (action property) | `NodeAssumption` |
| `HistorianProofs!TypeCorrect`, `LogStaysValid`, `HashStaysTrue`, `LogReplays`, `EmissionOrder` | the log's properties | `HistorianAssumption` |
| `HistorianProofs!WalkComplete`, `CursorKept` | INV-K16 as an invariant, and for each step as an action property | the same |
| `CommandPathProofs!PathCorrect`, `RetriesKeepPosition`, `CommandsRecordedOnce`, `AcknowledgedAreRecorded` | what a 202 means, under which fault | `CommandAssumption` |
| `ComponentsProofs!SessionCorrect`, `AuditCorrect`, `RequestsCorrect`, `ElevationCorrect` | the trail tells the grant; nothing above the default tier outside a live grant, by calls and by threads | `AutonomyAssumption` |
| `ComponentsProofs!ArchiveCorrect`, `ArchiveLoads` | what loads is one recording, what was written to the end reads back | `RecordingsAssumption`; `OneOrder` for `ArchiveLoads` |
| `ComponentsProofs!BusCorrect`, `SubscriptionsHeard`, `NetworksCorrect` | each frame is handed once, in order, to the subscriptions that select it; wills tell losses; nothing that was subscribed goes quiet | `BusAssumption`, `MqttAssumption`; `HashIsLast` |
| `ComponentsProofs!ToolsCorrect` | an effect has the tier it needs, repairs are bounded, a session answers from one version of the metrics | `ToolAssumption` |
| `RunProofs!RegistriesCorrect` | one address, one stream; the catalog accounts for every generator in use | `RegistryAssumption` |
| `RunProofs!RoundingNearest`, `PacingCorrect` | the nearest tick, for every fraction; pacing delays and never reorders | none; `TimeAssumption` |
| `RunProofs!RunCorrect` | a station's draws are its own address's; the log of a run is dense, in order, each departure after its arrival by the ticks it tells, one for every arrival of the scenario, and printed as it is | `ScenarioAssumption` |
| `RunProofs!RunsRepeatCorrect` | the three above together, as the run asks them | as above |
| `RunProofs!MajorCorrect` | what a chain of compatible schema versions keeps | `SchemaAssumption` |
| `RunProofs!NamespaceCorrect` | the list of addresses does not depend on the order of the mapping; each address reads back; a subscription covers what lies below it | `NamespaceAssumption` |
| `RunProofs!ConfigCorrect` | a profile that loads has no dangling name; a spec limit names one metric or is reported | none |
| `RunProofs!ConfigurationResolvesCorrect` | the three above together, as the run asks them | as above |
| `RunProofs!ProjectionCorrect` | one issue per package; only the release workflow changes the tracker unattended | `ListLimitAssumption`, `RoadmapAssumption` |

**The line: the handover.** That a server never pulls a pallet that is not yet
`STAGED` is not inductive: the server's get event is decided in the pallet's put.
`IInv` adds what makes it so. Every scheduled event is in the present or the future
and not newer than the counter (`QueueInv`); where a process waits determines its
pallet's state (`PcInv`); whoever stands in a resource's queue waits there once
(`WaitInv`); what is in the buffer is staged or has its put pending at the
current tick (`ItemsInv`); and a pallet handed to a server is staged or its put
event is before the server's get event in the heap (`HandedInv`). The heap order
then gives the claim: the get event is never the minimum while the put is
pending. The proof has a lemma per action, and `HandoverFrame` and `GetFrame` for
what several of them share. TLC checks `IInv` itself in `station_line`.
`MaterialConserved` needs only the types and `held[s]` being a pallet.

**The line: its records.** `SpellInv` adds to the partition that the open spell has
begun and differs from the one closed last. `CurrentInv` says exactly when a record
may lag behind its counts: while a pallet's put was granted at once and its process
has not resumed, an event of the current tick. `WakeInv` is the argument why serving
one waiter per trigger is enough: what is there for the waiters of a resource never
exceeds the number of pending events of this tick that will trigger it again, so at
the end of the tick nothing is left for anyone who waits. `DockInv` and `CountInv`
tie the resource's users and the server counts to where the pallets' processes
stand. Units are counted as a set of pairs of pallet and number, so that a total
changes by the quantity of the one pallet that moves.

**The line: the refinement.** A pallet passes the buffer in four events: its put into
the store, its handing over to a server, its marking as `STAGED`, and the server's
pull; between them other pallets pass. The buffer of `ReceivingLine` is the log of
staged pallets without its first `Cardinality(Taken)` entries, and a step maps to
`Pull` only if the pallet pulled is the next of the log. `Rank` is the position a
pallet has in the log or, while its put is pending, will have behind it, by the order
of the put events. `FifoInv` says that the store, the servers in the order of their
get events, and the log have the pallets in the same order. That `Stage` finds room
is not a matter of the store's capacity: the store has let the pallet in when it
handed an older one over, which the abstract buffer still holds. `RoomInv` counts,
for every pending put, the pallets of lower rank that will not have been pulled by
then (`Ahead`), and shows them to be fewer than the places. TLC checks `OrderInv`
on the instance of `station_line`.

**The session.** `DeathIsCovered` needs `CoverInv`: while the bus holds a will it
is that of the current bdSeq and so is every message on its way, because bdSeq
moves only in `Connect`, with an empty outbox. The stream needs `StreamInv`: with
the link up, either everything is published and the view is the session's record,
or one message is on its way and is the next the view expects, or the outbox is
the rest of a rebirth, numbered modulo the modulus from where the view stands.
`WrapNext` (wrapping commutes with counting) carries the last case for a rebirth
longer than the modulus. A session that is not told of a drop may go on handing
back messages; they are lost with the link and disturb nothing.

**The full messages.** `WireInv` is about any caller. A message is on its way only
while its session still counts as it did when the message was made (`Sent`), because
`Connect`, which moves bdSeq, and the clock, which moves the timestamps, wait for an
empty outbox; a data message comes alone, and its aliases stand for the keys its
caller named (`MeantInv`). That needs the alias table to be injective, and `sorted()`
over the names to give each name once: `InByteOrder` is defined by counting, so both
are facts about cardinalities. `HostInv` says that the subscriber's book has every
metric of whatever it holds for born, by the births it has taken in. The mirror is
written by the publisher and the book by the subscriber, in the same step; the
refinement shows that no device is in both `born` and `lost`.

**The node implements the session.** The refinement drops the metrics, aliases and
values. `Connect`, the births, deaths, data, commands, `Publish` and `Drop` each map to
the action of the same name, `Tick` to a stutter, and the metrics of a message are seen
to determine the kind, the seq and the bdSeq of the abstract one. `SessionInvariance`
then carries the inductive invariant of `EdgeNodeSessionProofs` over: when data is at
the head of the wire, the subscriber has had the births before it (`HeadReadable`), and
with `HostInv` its book has the aliases. `EveryFrameConforms` goes through the assertions
kind by kind; those about births take `BirthsOpenAtZero` from the session, since a
second `node_birth` of a session carries another seq (section 5).

**The container.** `ServiceInv` rests on each process connecting its session once:
every will and every birth carries the first count, whichever process sent it, and a
standing link is one whose CONNECT brought the will. A process that left over a
standing link has had its will discarded, which makes its stop quiet.

**The historian.** `LogInv` says that the entries of a producer are exactly the
numbers below `next_seq`, each at one position, and that `received` holds
exactly their ids; the gate's three rules follow. `ArrivalInv` bounds the
arrivals by the clock and orders them along the log. `LinkInv` relates the
stamps on the link to the numbers, while nothing has restarted. `HashInv` is the
held hash and the sidecar. `WalkInv` splits what the walk owes into what the
client has and what is strictly after its cursor; `ResumeSplits`, that a cursor
at the last element of a prefix selects exactly the rest, is where the strict
boundary of `page_of` is used, and needs the key order to be total on the log,
which `LogInv` gives.

**The command path.** `NumberInv`: a page's counter is above what it has posted and a
number tells its commands apart. `SourceInv`: what is answered or recorded was posted,
and the dispatch table decides a payload the same way each time. `MemoryInv`, until
the server restarts: a 202 names the position its id still holds, each event lies at
the position of its id, and as long as the counter has not run ahead of the log
every position in the memory is on the log. A refusing sink is exactly what makes the
counter run ahead, hence the condition of `AcknowledgedWhileInStep`.

**Autonomy.** `SessionInv` carries more than `TrailTellsGrant`: every change on the
trail, and the last call, is covered by what was live after the events before it, and
that does not change when the trail grows. Under threads `ThreadsInv` says that a
grant held has been decided and not ended, that a grant about to be retired is held
no more once its thread has cleared the session (it cannot come back, since a grant
is approved once), and that a request is told only of grants held since it began.

**The archive.** `WriterInv`, `DiskInv` and `CompleteInv` say what is in each file
while and after a call writes, `ReaderInv` what a reader has taken from them, and
`BasisInv` that a reader no call has overtaken reads the complete recording. With
files of several recordings on disk, the sidecar's hash and count decide. `log_hash`
sorts the events before it digests them, while `events.jsonl` has them as they were
appended; a torn file of one recording could hold the events of another in a different
order, and pass. `OneOrder`, that recordings of one run id append the events they share
in the same order, excludes it. It holds of repetitions of a deterministic run, and
the code does not enforce it; `ArchiveCorrect` says what holds without it.

**The networks.** `topic_matches` decides at the first level that tells;
`MatchesIsSelects` shows that this is MQTT's rule. On the bus `LoopIsAt` says of an
activation that it has served what fits before its place in the live list and nothing
else; `StackInv` that activations deliver frames of their own, so that a nested publish
or subscribe cannot disturb the loops below it; `ServedInv` what remains of a loop that
has ended. `JoinedInv`, `HeldWillInv` and `ToldInv` tie the joined identities, the wills
held and the wills delivered to the sessions; they do not depend on which client holds
an identity, since a client that is being dropped still names one that another may have
taken. For the adapter `BrokerInv` says that a filter on the list is at the broker or
owed to it by one of the threads, and `HearInv` where the hand-out of a message has come.
`HashIsLast`, that an accepted filter has `#` only at its end, is stated as a hypothesis:
`filter_levels` looks at the last level alone and lets `#/#` pass, which the walk then
takes for `#`.

**The tools.** `ToolInv`: what is registered was declared under the rule of `ToolSpec`,
a loop under way has used as many attempts as it has been answered, and every result
is what the document the registry closed over answers. While that document is not loaded
no tool but `query_metric` is there and nothing has been answered, which is why one
version is enough for a session: loading happens once, before the first answer.

**Registries, clock and scenario.** A stream is its resolved address and the two words
of its seed and replication; `IssuedInv` keeps the arguments of each handout, so that
two resolved addresses are equal only if the arguments are. `RoundingNearest` reduces the
division by floor to its remainder. `TimeInv` carries the inequality of pacing for
every emission at once; a new one satisfies it because the guard of `Advance` is the
rounded wait of `_wait_ns`. `StepInv` says where the scenario's loops stand in the tape
of their station and at the end of the log, from which `DrawsDoNotMove` follows
although stations may share an id. `TallyInv` counts: the departures told are as many as
the arrivals of the stations already passed and of the one under way
(`ServedArrivals`), and when the run is done those are all. The print is in the order
of instant and sequence number; since both rise along the log, the event at a place
has exactly the ones before it ahead of it (`PrintedAsIs`).

**Schema versions.** `compare_schemas` sees two versions at a time. `StandsIn` compares
every version with the oldest, and a range is followed only through versions that
leave it closed (`NeverOpened`): a bound that opened once may go anywhere afterwards.

**Namespace and loaders.** Both invariants are the types of the documents, and the work
is in the functions of a document. `Flattened` and `Gathered` say that a flattened
sequence holds what was put in and nothing else; so a check that reports nothing found
nothing at any place (`AcceptedMeans`, `ReferencesFound`, `MetricsLoad`).
The sorted list gives each place a path with fewer places before it and enough that are
not behind it: `EachPlaceIsTaken` finds one from the order being transitive
(`BeforeIsOrder`), and because only numbers of places count, the list of a mapping
read backwards is the same (`MirrorKeeps`, `MirrorProjects`). No name that passes is a
wildcard (`NamespaceAssumption`), so that `topic_matches` decides a subscription at the
first level that differs, or at its `#` (`SubscriptionMatches`).

**The sync.** `SyncInv` says, while no two runs overlap and the list is whole, that the
operations a run has still to carry out open each title once and none that the tracker has
(`FitsTracker`), and that the titles of the tracker are different. It is preserved by a
call that fails, one that takes effect after the run has given up, and hand edits, none
of which opens an issue of its own. Two things
carry it: a plan's titles are different (`RoadmapAssumption`, what the
rule WP-DUP of `roadmap check` refuses; the sync does not look), and the operations of a
plan are made package by package. The latter is a flattened sequence,
which the library defines by recursion and of which it states nothing. `FlatteningIs` and
the lemmas after it say where each of its elements comes from, by taking the least prefix
for which that fails. `OnlyTheReleaseWorkflow` follows from the contexts that
have applied being among those the configuration allows.

The theorems of `ComponentsProofs` and `RunProofs` are proved about the component and
lifted to `PartsSpec`, in which the other parts stand still.

**Left to TLC.** Liveness (`AllStored`, `CrashIsReported`, `WalkEnds`) and with it
fairness is outside the prover. The rest is what recurs over data:

* `SparkplugWire`'s codec over its bytes (`FramesRestored`), and `GraphsAreRead`, which
  compares a walk of a graph with its definition.
* `SensorsTellTheReadings`: a running mean and a filter are folds, to be shown equal to
  their closed form.
* `RoadmapIsProjected` is a theorem for `OneIssuePerPackage` and
  `OnlyTheReleaseWorkflow`; that an apply leaves the projection (`AppliedIsProjected`) and
  `PlanIsSound` sum up the operations and walk the dependency graph.

## 5. Findings

Four runs show the code at odds with what it or its design says.

* `device_reconnect`: after a lost link the broker publishes the NDEATH, paho
  reconnects, `_on_connect` replays subscriptions and nothing repeats the births.
  `main`: "the broker's view of the device is alive for exactly as long as this
  connection is".
* `archive_half_written`: `_verify` compares `snapshot.json` with itself and
  nothing covers `arrivals.jsonl`, so a write over an older run that stops after
  its first file loads with the new snapshot and the old log. The module: "A run
  directory that has been edited, truncated, or half-written fails to load".
* `commands_two_pages`: pages number their commands from one and the server keys
  its memory by that id alone, so a second page's first command gets a 202 and is
  not on the log. `create_app`: "a dropped command that returned 202 would be an
  audit-log hole that nothing observes".

* `roadmap_sync`: a reordered package is given the label `moved`, which is not among
  the labels that `build_plan` compares, so every plan relabels the issue again;
  `--add-label` never takes a stale label away, and an issue opened for a package
  that is done is closed only by the next apply. `docs/design/roadmap.md:1310`:
  "`apply(plan)` followed by `plan` returns an empty plan". From
  the first reordered package on every plan holds an issue operation, and the
  release workflow's sync (`.github/workflows/release.yml:329`), which may perform
  none, ends BLOCKED on every release.
  `AppliedIsProjected` says what remains true.

Smaller divergences met while modelling. Each is visible in the models, and no
run is spent on it.

* `queue_units` of a wip sample goes stale when a putaway server pulls a pallet
  (`twin/station.py:663` takes no sample; `:550` "one lands per change").
  `RecordIsCurrent` says what remains true.
* A second `node_birth` of a session carries a seq other than 0
  (`sensors/sparkplug.py:766`; `:769` "`seq` is 0, per iot-fleet 5.4 step 4"). The
  models birth a node once per connect (`Orderly`).
* After one DDEATH the session refuses NDATA and every other device's DDATA
  (`sparkplug.py:711`; `:883` "this device is gone while the edge node stays up").
* `farewell` publishes no NDEATH and discards the will (`sensors/__main__.py:164`;
  `sparkplug.py:727` "publishes its own death rather than leaving it to the
  broker's will delivery").
* bdSeq starts at 0 in every process (`sparkplug.py:585`; `docs/design/iot-fleet.md:1465`
  "A duplicate `bdSeq` after a reboot is a defect"). `BirthIsCovered` holds all
  the same, because a take-over publishes the old will before the new birth.
* A late event is read before rows a reader already has (`storage/historian.py:401`;
  `:399` "sees the same events in the same places on a later call"). INV-K16,
  which is weaker, is proved.
* A command the sink refused is answered with a 202 when it is posted again
  (`dashboard/app.py:149`; `:150` "so its event is already on the log"), and it
  leaves the counter ahead of the log, so that the historian refuses every later
  command (`commands.py:238`; `:193`). After a restart of the server a repeated
  post may be recorded a second time (`commands.py:202`; `:214`).
  `AcknowledgedWhileInStep` and `RecordedOnce` state their conditions accordingly.
* A grant that has ended may be approved again (`agent/autonomy.py:500`; `:496`
  "There is no renewal path that skips a fresh approval"), and `revoke`, which
  settles nothing first, records a grant that has run out as revoked (`:538`).
* `node_data({"Node Control/Rebirth": ...})` is accepted and sends an alias that no
  birth declared (`sparkplug.py:859`; `:864` "a metric absent from a birth may never
  appear in a data message"): `_assign_aliases` numbers the control metrics and
  `_birth_metric` withholds that one's alias (`:812`). `DataResolves` says that a
  subscriber resolves everything else.
* A late read handed to the portal reader without an instant moves the last read
  back, so a portal that has read since is SILENT (`sensors/portal.py:486`; `:72` "the
  reader answers and reads nothing"). A reader that never kept a read is never SILENT
  (`:491` counts from now; `:26` "a reader that is reachable but has read nothing").
  `SilenceIsReal` states both.
* A data message cannot be put on the wire: NDATA and DDATA carry no datatype, as
  the message rules ask, and `encode_metric` refuses a metric without one
  (`sensors/wire.py:448`; `to_frame`, `sensors/__main__.py:102`). The
  round trip is asked of births and deaths only. No caller publishes data yet.
* An NDEATH, or a drop, writes no tombstones into the mirror, and a DBIRTH mirrors
  a null as good (`sparkplug.py`, `mirror_records`). `MirrorAgrees` is about nodes
  that are alive and about announced device deaths.
* `build_session` leaves the epoch at 0, so a container's timestamps fail the
  runner's UTC assertion (`sensors/__main__.py:127`).
* `filter_levels` accepts `#/#`, since it looks at the last level only
  (`kernel/_impl/network.py:105`; `:115` "legal only as the final level"), and a
  refused connection raises in paho's thread, away from the caller of `connect`
  (`real/mqtt.py:56` "fails loudly").
* `cycles` says "Every cycle reachable" and finds one cycle for each closing edge of
  a depth first walk (`tools/roadmap`, `dag.py:17`). `GraphsAreRead` says that it
  finds one whenever there is one.
* `check_coverage` calls the order of the file build order, and raises TypeError when
  one requirement has two different entries at one place (`coverage.py:106`).
* `E2E-RMAP-06` (`docs/design/roadmap.md:1338`) says of a refused operation "no
  tracker call is made"; milestones and labels of the same plan have been created
  by then (`sync.py:485`).
* Overlapping applies open an issue twice, and a list that `--limit 500` cuts off
  opens again what it does not show. `OneIssuePerPackage` states both conditions.
* `compare_schemas` says nothing of a bound, an enum or a pattern that is added
  (`schemas/compat.py:83`; `docs/design/foundations.md:1524`), and `load_facility`
  runs the plausibility stage on a document whose shape it has refused, which ends
  in AttributeError (`config/_impl/loader.py:292`).
* Under threads the session loses some of what it keeps call by call: a request may
  end in AttributeError on a grant cleared meanwhile, one expiry may be recorded
  twice, a late thread may clear the grant approved after the one it retires while
  the trail shows it live, and a request may match its tool against the scope of one
  grant and be told the tier of the next. `AuditLog.emit` reads its counter before it
  is raised, so two events may carry one number. All of it fails closed except the
  scope, which `AnswerWasHeld` states as it is.

## 6. Not modelled

The parts with status `not_modelled` in `PROJECT.json`, each with its reason:

* `scripts/demo/ten_minute_demo.py` calls the packages in one order and prints what
  they return; a model would be that order.
* `scripts/checks`, `scripts/hooks`, the generators and the roadmap tool's renderer,
  markers, gates and splits read files and compare text, without state between runs.
* Object naming, problem documents, severity, accessibility and the dashboard's
  configuration are validation of one string or one record.
* REST routes without state; rendering; deployment files.

Within the modelled parts these are left out: wording, positions and layout of
diagnostics and reports, the level and the text of an assertion, digests' bytes
(taken as injective), floating point (means, filters and speeds are exact
fractions, the float field of the codec is its bytes), cursor encoding, HTTP
headers and exchanges (an outcome of the call), and draws from distributions.

## 7. Plan

Done: the line with its abstract specification and its handover theorem; session
and container; historian, pages and archive; the command path; the autonomy
session by calls and by threads; the full messages, codec and conformance of the
node and their refinement of the session; the networks; sensors; tools; clocks,
registries and scenario; configuration and schema versions; the roadmap tool.

Every safety property a run checks is a theorem, as a whole or in the parts section 4
names, except `SensorsTellTheReadings` and the round trip of the codec.

Left, should the prover learn to induct over data: `AppliedIsProjected`, the sums of the
sensors, the codec. Not modelled yet: the rest of section 6, none of which keeps state.
