-------------------------- MODULE SparkplugMessages --------------------------
(***************************************************************************)
(* What an edge node puts on the wire (sparkplug.py of twinflow.sensors):  *)
(* topics and delivery flags, metrics and the alias table, the birth, data *)
(* and death messages of a session, and the JSON mirror derived from them. *)
(*                                                                         *)
(* The session is a record and each method a function of it and of the     *)
(* instant.  A node is [node, devices, epoch]: the metric specs of the     *)
(* node, of each device, and the UTC instant simulated time starts from.   *)
(* Device 0 is the node itself.  Names are numbers in the byte order of    *)
(* what they stand for; a topic is the sequence of its levels.             *)
(***************************************************************************)
EXTENDS SparkplugWire, FiniteSets

CONSTANTS
    SEQUENCE_MODULUS,   \* 256 in the code
    TickHz              \* ticks of the simulated clock to a second

ASSUME MessageAssumption == SEQUENCE_MODULUS \in Nat \ {0} /\ TickHz \in Nat \ {0}

\* Metric names in byte order: "Read_Rate" is a case variant of "read_rate".
REBIRTH_METRIC == 1
ReadRateCapital == 2
BDSEQ_METRIC   == 3
MotorTemp      == 4
ReadRate       == 5
DroppedRecords == 6
UniqueEpcs     == 7

CaseFold(name) == IF name = ReadRateCapital THEN ReadRate ELSE name

\* The keys of a property set in byte order.
QualityKey == 1
DescriptionKey == 2
EngHighKey == 3
EngLowKey  == 4
EngUnitKey == 5

NodeItself == 0

Quality == [bad |-> 0, good |-> 192, stale |-> 500]
-----------------------------------------------------------------------------
(* Topics.                                                                 *)

MessageTypes == {"NBIRTH", "NDATA", "NDEATH", "DBIRTH", "DDATA", "DDEATH", "NCMD", "DCMD", "STATE"}

DEVICE_MESSAGE_TYPES == {"DBIRTH", "DDATA", "DDEATH", "DCMD"}

\* The QoS and retain matrix.
QosByTopicClass ==
    [t \in MessageTypes |->
        IF t = "STATE" THEN [qos |-> 1, retain |-> TRUE]
        ELSE IF t = "NDEATH" THEN [qos |-> 1, retain |-> FALSE]
        ELSE [qos |-> 0, retain |-> FALSE]]

\* UnsPath.is_identifier: the identifiers of the model that break the grammar.
NotIdentifiers == {"bad+id", "bad#id", "bad/id", "Line-01", "Twinflow", ""}
IsIdentifier(v) == v \notin NotIdentifiers

\* SparkplugIds: the group is the sequence of its levels, "" no device.
ValidIds(group, edge, device) ==
    /\ \A i \in DOMAIN group : IsIdentifier(group[i])
    /\ Len(group) = 3
    /\ IsIdentifier(edge)
    /\ device # "" => IsIdentifier(device)

NoTopic == <<>>     \* the call is refused

topic_for(group, edge, type, device) ==
    IF \/ type = "STATE"
       \/ type \in DEVICE_MESSAGE_TYPES /\ device = ""
       \/ type \notin DEVICE_MESSAGE_TYPES /\ device # ""
       \/ device # "" /\ ~IsIdentifier(device)
    THEN NoTopic
    ELSE <<"spBv1.0", group, type, edge>> \o (IF device = "" THEN <<>> ELSE <<device>>)

state_topic_for(host) == IF IsIdentifier(host) THEN <<"spBv1.0", "STATE", host>> ELSE NoTopic

\* The six levels of an ISA-95 address and the three identifiers it maps to.
for_path(path)  == [group |-> SubSeq(path, 1, 3), edge |-> path[4], device |-> path[5]]
to_uns_path(ids, parameter) == ids.group \o <<ids.edge, ids.device, parameter>>
-----------------------------------------------------------------------------
(* Metrics and aliases.                                                    *)

\* MetricSpec.__post_init__.  wild marks a name that carries + or #.
ValidSpec(spec) ==
    /\ ~spec.wild
    /\ spec.low = Absent \/ spec.high = Absent \/ spec.low < spec.high

\* MetricSpec.properties: what was not declared is left out.
Properties(spec) ==
    LET declared == {k \in {EngUnitKey, QualityKey, EngLowKey, EngHighKey, DescriptionKey} :
                       /\ k = EngLowKey  => spec.low # Absent
                       /\ k = EngHighKey => spec.high # Absent
                       /\ k = DescriptionKey => spec.described}
    IN  [k \in declared |->
           CASE k = QualityKey -> <<"quality", Quality.good>>
             [] k = EngLowKey  -> <<"float", spec.low>>
             [] k = EngHighKey -> <<"float", spec.high>>
             [] OTHER          -> <<"str", k>>]

MetricSpec(name, datatype, low, high) ==
    [name |-> name, datatype |-> datatype, low |-> low, high |-> high,
     described |-> FALSE, wild |-> FALSE]

ControlMetrics == {[MetricSpec(BDSEQ_METRIC, "Int64", Absent, Absent) EXCEPT !.described = TRUE],
                   [MetricSpec(REBIRTH_METRIC, "Boolean", Absent, Absent) EXCEPT !.described = TRUE]}

SpecsOf(node, device) ==
    IF device = NodeItself THEN node.node \cup ControlMetrics ELSE node.devices[device]

\* The alias table is keyed by the owner and the name.
AliasKeys(node) ==
    UNION {{<<device, spec.name>> : spec \in SpecsOf(node, device)} :
             device \in {NodeItself} \cup DOMAIN node.devices}

\* Two names of one owner that differ only by case are refused.
CaseCollision(node) ==
    \E j, k \in AliasKeys(node) : j # k /\ j[1] = k[1] /\ CaseFold(j[2]) = CaseFold(k[2])

\* Mutant: every owner numbers its metrics by itself.
AliasesPerOwner(node) ==
    LET keys == AliasKeys(node)
    IN  [k \in keys |-> Cardinality({j \in keys : j[1] = k[1] /\ j[2] <= k[2]})]

\* The place of the key in the byte order of owner and name, from one.
assign_aliases(node) ==
    LET keys == AliasKeys(node)
    IN  [k \in keys |->
           Cardinality({j \in keys : j[1] < k[1] \/ (j[1] = k[1] /\ j[2] <= k[2])})]

\* The instant as UTC epoch milliseconds.
Now(node, ticks) == node.epoch + (ticks * 1000) \div TickHz

Metric(name, alias, datatype, value, ts, properties) ==
    [name |-> name, alias |-> alias, datatype |-> datatype, value |-> value,
     ts |-> ts, properties |-> properties]

NoProperties == <<>>
-----------------------------------------------------------------------------
(* The session.  A call the code refuses has its guard false.              *)

\* The count of births, kept for tests, is left out.
NewSession == [connected |-> FALSE, bdseq |-> -1, seq |-> 0, born |-> {}, node_born |-> FALSE]

Message(node, type, device, seq, metrics, ticks) ==
    [topic |-> topic_for(node.group, node.edge, type,
                         IF device = NodeItself THEN "" ELSE node.ids[device]),
     type |-> type, device |-> device, ts |-> Now(node, ticks), seq |-> seq,
     metrics |-> metrics, qos |-> QosByTopicClass[type].qos,
     retain |-> QosByTopicClass[type].retain]

\* _message() takes the next sequence number.
NextSeq(s) == [s EXCEPT !.seq = (s.seq + 1) % SEQUENCE_MODULUS]

BdSeqMetric(node, s, ticks) ==
    Metric(BDSEQ_METRIC, assign_aliases(node)[<<NodeItself, BDSEQ_METRIC>>], "Int64",
           <<"int", s.bdseq>>, Now(node, ticks), NoProperties)

\* The NDEATH of the will and of disconnect() carries bdSeq alone, and no seq.
DeathMessage(node, s, ticks) ==
    Message(node, "NDEATH", NodeItself, Absent, <<BdSeqMetric(node, s, ticks)>>, ticks)

Connected(s) ==
    [s EXCEPT !.bdseq = (s.bdseq + 1) % SEQUENCE_MODULUS, !.connected = TRUE,
              !.node_born = FALSE, !.born = {}, !.seq = 0]

WillRegistration(node, s, ticks) ==
    [message |-> DeathMessage(node, s, ticks), qos |-> QosByTopicClass["NDEATH"].qos,
     retain |-> QosByTopicClass["NDEATH"].retain]

Disconnected(s) == [s EXCEPT !.connected = FALSE, !.node_born = FALSE, !.born = {}]

CanBirthNode(s) == s.connected
CanBirthDevice(node, s, d) == s.connected /\ s.node_born /\ d \in DOMAIN node.devices
CanKill(node, s, d) == s.connected /\ d \in DOMAIN node.devices
AllBorn(node, s) == s.connected /\ s.node_born /\ DOMAIN node.devices \subseteq s.born

\* A metric no birth declared has no alias and is refused.
CanPublish(node, s, d, changed) ==
    /\ AllBorn(node, s)
    /\ d # NodeItself => d \in s.born
    /\ \A name \in changed : <<d, name>> \in AliasKeys(node)

BirthMetric(node, s, d, spec, ticks) ==
    LET own == d = NodeItself
    IN  Metric(spec.name,
               IF own /\ spec.name = REBIRTH_METRIC THEN Absent
               ELSE assign_aliases(node)[<<d, spec.name>>],
               spec.datatype,
               IF own /\ spec.name = BDSEQ_METRIC THEN <<"int", s.bdseq>>
               ELSE IF own /\ spec.name = REBIRTH_METRIC THEN <<"bool", 0>>
               ELSE Null,
               Now(node, ticks), Properties(spec))

\* The names, each at its place of the byte order.
InByteOrder(names) ==
    [i \in 1..Cardinality(names) |->
        CHOOSE n \in names : Cardinality({m \in names : m <= n}) = i]

SpecNamed(node, d, name) == CHOOSE spec \in SpecsOf(node, d) : spec.name = name

\* Every metric the owner will ever publish, in the byte order of the names.
BirthMetrics(node, s, d, ticks) ==
    LET names == InByteOrder({spec.name : spec \in SpecsOf(node, d)})
    IN  [i \in DOMAIN names |-> BirthMetric(node, s, d, SpecNamed(node, d, names[i]), ticks)]

NodeBirthMessage(node, s, ticks) ==
    Message(node, "NBIRTH", NodeItself, s.seq, BirthMetrics(node, s, NodeItself, ticks), ticks)

NodeBorn(s) == NextSeq([s EXCEPT !.node_born = TRUE])

DeviceBirthMessage(node, s, d, ticks) ==
    Message(node, "DBIRTH", d, s.seq, BirthMetrics(node, s, d, ticks), ticks)

DeviceBorn(s, d) == NextSeq([s EXCEPT !.born = s.born \cup {d}])

\* Mutant: data metrics keep the name beside the alias.
NamedDataMetrics(node, d, changed, value, ticks) ==
    LET names == InByteOrder(changed)
    IN  [i \in DOMAIN names |->
           Metric(names[i], assign_aliases(node)[<<d, names[i]>>], "none", value,
                  Now(node, ticks), NoProperties)]

\* Changed metrics by alias, the name and the datatype left out.
DataMetrics(node, d, changed, value, ticks) ==
    LET names == InByteOrder(changed)
    IN  [i \in DOMAIN names |->
           Metric(Absent, assign_aliases(node)[<<d, names[i]>>], "none", value,
                  Now(node, ticks), NoProperties)]

DataMessage(node, s, d, changed, value, ticks) ==
    Message(node, IF d = NodeItself THEN "NDATA" ELSE "DDATA", d, s.seq,
            DataMetrics(node, d, changed, value, ticks), ticks)

DeviceDeathMessage(node, s, d, ticks) == Message(node, "DDEATH", d, s.seq, <<>>, ticks)

\* Mutant: a dead device keeps its birth.
DeviceDiedKeepsBirth(s, d) == NextSeq(s)

DeviceDied(s, d) == NextSeq([s EXCEPT !.born = s.born \ {d}])

\* The sessions rebirth() goes through: at 0 the counter is reset, at d the
\* births up to device d are out.
RebirthSession(node, s) ==
    LET Step[d \in 0..Cardinality(DOMAIN node.devices)] ==
          IF d = 0 THEN NodeBorn([s EXCEPT !.seq = 0, !.born = {}])
          ELSE DeviceBorn(Step[d - 1], d)
    IN  Step

RebirthMessages(node, s, ticks) ==
    LET n == Cardinality(DOMAIN node.devices)
    IN  <<NodeBirthMessage(node, [s EXCEPT !.seq = 0, !.born = {}], ticks)>>
        \o [d \in 1..n |-> DeviceBirthMessage(node, RebirthSession(node, s)[d - 1], d, ticks)]

Reborn(node, s) == RebirthSession(node, s)[Cardinality(DOMAIN node.devices)]

\* handle_node_command: [name, value] acts only when it is the rebirth set true.
Acts(command) == command.name = REBIRTH_METRIC /\ command.value
-----------------------------------------------------------------------------
(* The mirror.                                                             *)

\* The key an alias stands for, resolved through the same table.
KeyOf(node, alias) ==
    LET aliases == assign_aliases(node)
    IN  CHOOSE k \in DOMAIN aliases : aliases[k] = alias

\* The device metrics of a message, one retained record each, good quality.
mirror_records(node, m) ==
    {[key |-> KeyOf(node, m.metrics[i].alias), value |-> m.metrics[i].value,
      quality |-> "good", ts |-> m.metrics[i].ts, seq |-> m.seq] :
        i \in {j \in DOMAIN m.metrics : /\ m.metrics[j].alias # Absent
                                        /\ KeyOf(node, m.metrics[j].alias)[1] # NodeItself}}

\* Mutant: a death leaves the retained records as they are.
TombstonesForgotten(node, d, ticks) == {}

\* A null of bad quality over every topic the device mirrors to.
mirror_tombstones(node, d, ticks) ==
    {[key |-> <<d, spec.name>>, value |-> Null, quality |-> "bad",
      ts |-> Now(node, ticks), seq |-> Absent] : spec \in node.devices[d]}
=============================================================================
