----------------------------- MODULE MCComponents -----------------------------
(***************************************************************************)
(* The components that keep their state to themselves, each in its own     *)
(* behaviours: `part` is the one that runs, and the variables of the       *)
(* others are parked.                                                      *)
(***************************************************************************)
EXTENDS AutonomySession, ToolRegistry, PortalReader, TemperatureSensor, InMemoryBus,
        MqttNetwork, RunRegistries, SimTime, ScenarioRun, UnifiedNamespace, FacilityConfig,
        SchemaCompat, MCRunArchive, MCRoadmapSync, RoadmapRules,
        SessionThreads

VARIABLE part

Parts == {"autonomy", "tools", "portal", "temperature", "bus", "mqtt", "registries", "time",
          "scenario", "namespace", "profile", "metrics", "schema", "archive",
          "sync", "rules", "threads"}

Parked == <<>>
-----------------------------------------------------------------------------
(* The agent: grants for one question and for two, for one tool and both,  *)
(* for another session, and two that cannot be constructed; tools of       *)
(* every tier and effect.                                                  *)

Human(name) == [kind |-> "human", id |-> name]
Agent(name) == [kind |-> "agent", id |-> name]

Grant(id, tier, scope, n, until) ==
    [id |-> id, session |-> "s1", tier |-> tier, requester |-> Agent("a"),
     approver |-> Human("h"), scope |-> scope, questions |-> n, until |-> until]

MCOffered == {
    Grant("g1", 3, {"apply_change"}, 2, 2),
    Grant("g2", 2, {"apply_change", "simulate"}, 1, 1),
    [Grant("g3", 3, {"apply_change"}, 1, 2) EXCEPT !.session = "s2"],
    [Grant("g4", 3, {"apply_change"}, 1, 2) EXCEPT !.approver = Agent("b")],
    [Grant("g5", 3, {"apply_change"}, 1, 2) EXCEPT !.approver = Human("a")]}

MCToolSpecs ==
    {[name |-> n, tier |-> t, side_effects |-> s, sim_budget |-> b, deadline_sim_s |-> 1,
      args_forbid_extra |-> f, has_result_ids |-> TRUE] :
        n \in {"simulate", "query_metric"}, t \in {1, 3}, s \in {"write_config", "simulate"},
        b \in {"none", "per_run"}, f \in BOOLEAN}

Selection(dimensions, grain, end) ==
    [metric |-> "oee", dimensions |-> dimensions, grain |-> grain, start_sim_ticks |-> 0,
     end_sim_ticks |-> end, limit |-> 100]

MCSelections == {Selection({"shift"}, "none", 1), Selection({}, "line", 1), Selection({}, "none", 0)}
MCMetricFiles == {[oee |-> {"shift"}], [oee |-> {"shift", "line"}]}
MCMaxRetries == {-1, 0, 1}
MCAdapters ==
    {[kind |-> "pydantic"], [kind |-> "ollama", scheme |-> "http", host |-> "localhost"],
     [kind |-> "ollama", scheme |-> "http", host |-> "elsewhere"]}

MCThreadGrants == {[id |-> "g1", until |-> 1, scope |-> {"config"}],
                   [id |-> "g2", until |-> 2, scope |-> {"other"}]}
-----------------------------------------------------------------------------
(* The sensors: a reader that tracks one tag of one zone; records of       *)
(* three tags, on two antennas, late, out of the zone and too weak.        *)

MCReader == [sensitivity_dbm |-> -80, silence_threshold_ticks |-> 1, max_epcs |-> 1,
             epc_prefix |-> <<TRUE, <<1>>>>]

AirRead(epc, port, rssi, count, ts) ==
    [epc |-> epc, antenna_port |-> port, rssi_dbm |-> rssi, phase_deg |-> 0,
     read_count |-> count, sim_ts |-> ts]

MCAirReads == {
    AirRead(<<1, 0>>, 1, -40, 1, 0), AirRead(<<1, 0>>, 1, -50, 2, 1), AirRead(<<1, 0>>, 2, -60, 1, 2),
    AirRead(<<1, 1>>, 1, -45, 1, 0), AirRead(<<1, 1>>, 1, -55, 1, 1),
    AirRead(<<0, 1>>, 1, -45, 1, 0), AirRead(<<1, 0>>, 1, -90, 1, 0)}

MCABSOLUTE_ZERO_C == -273
MCBand == [low_c |-> 0, high_c |-> 100]
MCEwmaAlpha == <<1, 4>>
MCRawReadings == {-1, 0, 40, 100, 101}
-----------------------------------------------------------------------------
(* The networks.                                                           *)

MCTopics == {<<>>, <<"a">>, <<"a", "b">>, <<"+">>}
MCFilters == {<<>>, <<"a", "#">>, <<"a", "+">>, <<"#", "a">>}
MCWillTopic == <<"a">>
MCCallerFilters == {<<"a", "#">>, <<"a">>, <<"#", "a">>}
MCMessageTopics == {<<"a">>, <<"b">>}
-----------------------------------------------------------------------------
(* The kernel.  The registry's names: a device stream with a slot, one     *)
(* without, and two that the grammar refuses.                              *)

Text(t) == [kind |-> "text", of |-> t]
Slot == [kind |-> "slot", of |-> "id"]
Stream(segments) == [segments |-> segments, version |-> 0]
MCStreamNames == {Stream(<<Text("a"), Text("b")>>), Stream(<<Text("a"), Slot>>),
                  Stream(<<Slot, Slot>>),
                  Stream(<<Text("a")>>), Stream(<<[kind |-> "bad", of |-> "b"], Slot>>)}

MCSpeeds == {<<0, 1>>, <<1, 2>>, <<1, 1>>, <<2, 1>>, <<1, 200>>}
MCMIN_SPEED == <<1, 100>>
MCMAX_SPEED == <<100, 1>>

Station(id, arrivals, mean, spread) ==
    [id |-> id, arrivals |-> arrivals, mean |-> mean, spread |-> spread]

MCStationLists ==
    LET d == Station("d", 2, 2, 1)
        u == Station("u", 2, 3, 1)
    IN  {<<d>>, <<u, d>>, <<Station("u", 1, 1, 3), d>>, <<d, d>>}
-----------------------------------------------------------------------------
(* The configuration.                                                      *)

MCFormOf == [acme |-> "plain", dock |-> "kebab", rate |-> "snake", temp |-> "plain",
             A |-> "other", any |-> "wildcard"]
MCNameRank == [A |-> 0, acme |-> 1, any |-> 2, dock |-> 3, rate |-> 4, temp |-> 5]
MCParameterLists == {<<>>, <<"temp", "rate">>, <<"dock">>, <<"rate">>}

NumberForm(lower, upper, open, required, default) ==
    [type |-> "number", lower |-> lower, upper |-> upper, enum |-> Absent, pattern |-> Absent,
     open_range |-> open, open_enum |-> FALSE, required |-> required, default |-> default,
     any_of_null |-> FALSE]

MCPropertyForms ==
    {NumberForm(Absent, hi, open, FALSE, FALSE) : hi \in {Absent, <<1>>, <<2>>}, open \in BOOLEAN}
    \cup {NumberForm(Absent, <<1>>, open, FALSE, TRUE) : open \in BOOLEAN}
    \cup {NumberForm(<<1>>, <<2>>, FALSE, TRUE, TRUE)}
-----------------------------------------------------------------------------
(* The roadmap: two phases with a tag that is no semver, one that does not *)
(* rise and a phase that depends on itself; every graph over three         *)
(* packages, one of them with the id of another.                           *)

PhaseEntry(id, tag, depends_on) == [id |-> id, tag |-> tag, depends_on_phases |-> depends_on]
MCPhaseForms == <<
    {PhaseEntry("P0", 1, {}), PhaseEntry("P0", 0, {}), PhaseEntry("P0", 2, {})},
    {PhaseEntry("P1", 2, {"P0"}), PhaseEntry("P1", 2, {"P1"}), PhaseEntry("P0", 3, {})}>>

Entry(id, phase, wave, depends_on, covers) ==
    [id |-> id, phase |-> phase, wave |-> wave, depends_on |-> depends_on, covers |-> covers]
Partly == [id |-> "C1", partial |-> TRUE]
Wholly == [id |-> "C1", partial |-> FALSE]
Places == {<<"P0", 1>>, <<"P0", 2>>, <<"P1", 1>>}

\* Any dependencies at one place, those on earlier packages at every place.
EntriesFor(id, place, earlier) ==
    {Entry(id, place[1], place[2], d, {}) : d \in SUBSET {"a", "b", "c"}}
    \cup {Entry(id, p[1], p[2], d, {}) : p \in Places, d \in SUBSET earlier}
    \cup {Entry(id, place[1], place[2], {}, c) : c \in {{Partly}, {Wholly}, {Partly, Wholly}}}

MCPackageForms == <<
    EntriesFor("a", <<"P0", 1>>, {}),
    EntriesFor("b", <<"P0", 2>>, {"a"}) \cup {Entry("a", "P1", 1, {"b"}, {Wholly})},
    EntriesFor("c", <<"P1", 1>>, {"a", "b"}) \cup {Entry("a", "P0", 2, {}, {Partly})}>>
-----------------------------------------------------------------------------
(* The wire codec and the conformance runner keep no state: both are       *)
(* evaluated once, before the search, over a wrap of the sequence numbers  *)
(* and at the numbers where the length of a varint changes.                *)

Runner == INSTANCE ConformanceRunner WITH
    MaxVarintBytes <- 3, IntBits <- 10, LongBits <- 20, SEQUENCE_MODULUS <- 8,
    TickHz <- 2, UTC_FLOOR_MS <- 1577, EPOCH_MS <- 1767

RunnerInstants == {0, 1}

\* The bytes of every birth and death read back as the message.
ASSUME FramesRestored ==
    \A m \in Runner!FramesOf({0, 1, 127, 128, 255}, RunnerInstants) : Runner!Restores(m)

\* The runner finds no failure, and its table rules on exactly the assertions in
\* its scope.
ASSUME ReportIsClean ==
    \A t \in RunnerInstants :
        LET report == Runner!run_edge_node_conformance(t)
        IN  /\ Runner!conformant(report)
            /\ DOMAIN report.results = {a.id : a \in Runner!in_scope_assertions}
-----------------------------------------------------------------------------
(* One part runs.                                                          *)

AutonomyParked ==
    /\ clock = Parked /\ grant = Parked /\ questions = Parked /\ trail = Parked
    /\ call = Parked

ToolsParked ==
    /\ specs = Parked /\ metrics_file = Parked /\ document = Parked /\ loop = Parked
    /\ bound = Parked /\ results = Parked /\ model_calls = Parked

PortalParked ==
    /\ aggregates = Parked /\ epcs = Parked /\ dropped_epcs = Parked /\ dropped_reads = Parked
    /\ filtered_reads = Parked /\ last_read_ts = Parked /\ portal_now = Parked
    /\ stamped = Parked /\ read_log = Parked

TemperatureParked ==
    /\ ewma = Parked /\ readings = Parked

BusParked ==
    /\ subs = Parked /\ joined = Parked /\ wills = Parked /\ identity = Parked
    /\ deliveries = Parked /\ stack = Parked /\ frames = Parked /\ sessions = Parked

MqttParked ==
    /\ client = Parked /\ subscriptions = Parked /\ calling = Parked /\ linked = Parked
    /\ at_broker = Parked /\ replay = Parked /\ fan_out = Parked /\ messages = Parked
    /\ handled = Parked /\ reconnects = Parked

RegistriesParked ==
    /\ declared = Parked /\ handouts = Parked /\ issued = Parked /\ hooks = Parked

TimeParked ==
    /\ sim_now = Parked /\ speed = Parked /\ run_start = Parked /\ pacer_start = Parked
    /\ wall = Parked /\ waiting = Parked /\ emitted = Parked

ScenarioParked ==
    /\ stations = Parked /\ tapes = Parked /\ at = Parked /\ index = Parked
    /\ generator = Parked /\ drawn = Parked /\ service = Parked /\ run_now = Parked
    /\ sequence = Parked /\ run_log = Parked /\ at_step = Parked

NamespaceParked ==
    /\ facility = Parked

ConfigParked ==
    /\ profile = Parked /\ metrics = Parked /\ limits = Parked /\ edits = Parked

SchemaParked ==
    /\ versions = Parked

ArchiveParked ==
    /\ disk = Parked /\ writing = Parked /\ step = Parked /\ opened = Parked
    /\ begun = Parked /\ complete = Parked /\ writes = Parked
    /\ pc = Parked /\ got = Parked /\ basis = Parked

SyncParked ==
    /\ config = Parked /\ roadmap = Parked /\ milestones = Parked /\ labels = Parked
    /\ issues = Parked /\ syncs = Parked /\ started = Parked /\ tracker_edits = Parked
    /\ failures = Parked /\ settled = Parked /\ overlapped = Parked /\ unattended = Parked

RulesParked ==
    /\ phase_list = Parked /\ packages = Parked /\ register = Parked

ThreadsParked ==
    /\ thread_clock = Parked /\ session_grant = Parked /\ audit = Parked
    /\ requests = Parked /\ served = Parked

PartsInit ==
    /\ part \in Parts
    /\ IF part = "autonomy" THEN Init ELSE AutonomyParked
    /\ IF part = "tools" THEN ToolInit ELSE ToolsParked
    /\ IF part = "portal" THEN PortalInit ELSE PortalParked
    /\ IF part = "temperature" THEN TemperatureInit ELSE TemperatureParked
    /\ IF part = "bus" THEN BusInit ELSE BusParked
    /\ IF part = "mqtt" THEN MqttInit ELSE MqttParked
    /\ IF part = "registries" THEN RegistryInit ELSE RegistriesParked
    /\ IF part = "time" THEN PacedInit ELSE TimeParked
    /\ IF part = "scenario" THEN ScenarioInit ELSE ScenarioParked
    /\ IF part = "namespace" THEN NamespaceInit ELSE NamespaceParked
    /\ IF part \in {"profile", "metrics"} THEN ConfigInit ELSE ConfigParked
    /\ IF part = "schema" THEN SchemaInit ELSE SchemaParked
    /\ IF part = "archive" THEN ArchiveInit ELSE ArchiveParked
    /\ IF part = "sync" THEN SyncInit ELSE SyncParked
    /\ IF part = "rules" THEN RulesInit ELSE RulesParked
    /\ IF part = "threads" THEN ThreadsInit ELSE ThreadsParked

\* The parts that do not run stand still.
OthersStill ==
    /\ UNCHANGED part
    /\ part # "autonomy" => UNCHANGED vars
    /\ part # "tools" => UNCHANGED tool_vars
    /\ part # "portal" => UNCHANGED portal_vars
    /\ part # "temperature" => UNCHANGED temperature_vars
    /\ part # "bus" => UNCHANGED bus_vars
    /\ part # "mqtt" => UNCHANGED mqtt_vars
    /\ part # "registries" => UNCHANGED registry_vars
    /\ part # "time" => UNCHANGED time_vars
    /\ part # "scenario" => UNCHANGED scenario_vars
    /\ part # "namespace" => UNCHANGED facility
    /\ part \notin {"profile", "metrics"} => UNCHANGED config_vars
    /\ part # "schema" => UNCHANGED versions
    /\ part # "archive" => UNCHANGED archive_vars
    /\ part # "sync" => UNCHANGED sync_vars
    /\ part # "rules" => UNCHANGED rules_vars
    /\ part # "threads" => UNCHANGED thread_vars

PartsNext ==
    \/ part = "autonomy" /\ Next /\ OthersStill
    \/ part = "tools" /\ ToolNext /\ OthersStill
    \/ part = "portal" /\ PortalNext /\ OthersStill
    \/ part = "temperature" /\ TemperatureNext /\ OthersStill
    \/ part = "bus" /\ BusNext /\ OthersStill
    \/ part = "mqtt" /\ MqttNext /\ OthersStill
    \/ part = "registries" /\ RegistryNext /\ OthersStill
    \/ part = "time" /\ PacedNext /\ OthersStill
    \/ part = "scenario" /\ ScenarioNext /\ OthersStill
    \/ part = "namespace" /\ NamespaceNext /\ OthersStill
    \/ part = "profile" /\ ProfileNext /\ OthersStill
    \/ part = "metrics" /\ MetricsNext /\ OthersStill
    \/ part = "schema" /\ SchemaNext /\ OthersStill
    \/ part = "archive" /\ ArchiveNext /\ OthersStill
    \/ part = "sync" /\ SyncNext /\ OthersStill
    \/ part = "rules" /\ RulesNext /\ OthersStill
    \/ part = "threads" /\ ThreadsNext /\ OthersStill

PartsSpec == PartsInit /\ [][PartsNext]_<<part, vars, tool_vars, portal_vars, temperature_vars,
    bus_vars, mqtt_vars, registry_vars, time_vars, scenario_vars, facility, config_vars, versions,
    archive_vars, sync_vars, rules_vars, thread_vars>>
-----------------------------------------------------------------------------
(* Properties.                                                             *)

\* AutonomySession: the audit trail tells the grant that the session holds, and a
\* grant that is held has questions left.
AuditTellsGrant == part = "autonomy" => TypeOK /\ TrailTellsGrant

\* AutonomySession: every call and every change above the default tier is under a
\* grant that the trail shows as live at that point.  SessionThreads: requests that
\* run at once are told no tier but that of a grant held meanwhile.
ElevationIsCovered ==
    /\ part = "autonomy" => ElevatedCallIsCovered /\ ElevatedChangeIsCovered
    /\ part = "threads" => RequestsFailClosed

\* ToolRegistry: effects need their tier, retries are bounded, and a session
\* answers from one version of the metrics file.
ToolsAreGoverned == part = "tools" => ToolsKeepTheirContract

\* The sensors: the inventory is a function of the records taken, and a derived
\* temperature of the good readings alone.
SensorsTellTheReadings ==
    /\ part = "portal" => InventoryIsTheReads
    /\ part = "temperature" => DerivedFromGoodReadings

\* The two networks: every subscription that matches is served once, a will tells
\* a loss and nothing else, and a subscription outlives the loss of the link.
NetworksDeliver ==
    /\ part = "bus" => BusKeepsItsPromises
    /\ part = "mqtt" => SubscriptionsAreHeard

\* A run repeats itself: a stream depends on its address alone, a station's draws
\* do not move when another is added, an instant is the nearest tick, and pacing
\* only delays.
RunsRepeat ==
    /\ part = "registries" => OneAddressOneStream /\ CatalogIsComplete
    /\ part = "scenario" => DrawsDoNotMove /\ LogTellsTheRun
    /\ part = "time" => NeverEarly /\ \A p \in -6..6, q \in {1, 2, 4} : NearestTick(p, q)

\* Names, references and versions that the configuration lets through resolve.
ConfigurationResolves ==
    /\ part = "namespace" => NamespaceIsTheFacility
    /\ part \in {"profile", "metrics"} => ConfigIsResolved
    /\ part = "schema" => MajorIsStable

\* RunArchive: what read_run returns is one recording as write_run was given it, and
\* a recording whose write_run ended reads back, whatever crashes went before.
ArchiveReadsBack == part = "archive" => LoadsOneRecording /\ CompleteReadsBack

\* RoadmapSync and RoadmapRules: a plan that passes its checks can be built and
\* loses no requirement, and what an undisturbed apply leaves on the tracker is its
\* projection.
RoadmapIsProjected ==
    /\ part = "sync" => TrackerIsProjected
    /\ part = "rules" => PlanIsSound
=============================================================================
