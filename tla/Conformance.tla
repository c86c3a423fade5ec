----------------------------- MODULE Conformance -----------------------------
(***************************************************************************)
(* The edge node conformance runner of twinflow.sensors (conformance.py):  *)
(* it plays one session of a node with two devices, keeps every message,   *)
(* and rules on each assertion of the table that is in scope.              *)
(*                                                                         *)
(* A check is a predicate; a check that raises has not held.  The          *)
(* observations it words for the report are left out.                      *)
(***************************************************************************)
EXTENDS SparkplugMessages, ConformanceTable, TLC

CONSTANTS
    UTC_FLOOR_MS,       \* 2020-01-01 as epoch milliseconds
    EPOCH_MS            \* 2026-01-01, the instant simulated time starts from

ASSUME EpochAssumption ==
    UTC_FLOOR_MS \in Nat /\ EPOCH_MS \in Nat /\ UTC_FLOOR_MS <= EPOCH_MS
-----------------------------------------------------------------------------
(* The fixture and the session it plays.                                   *)

Conveyor == 1
Portal   == 2

Group    == <<"twinflow", "dc-01", "receiving">>
EdgeNode == "inbound-line-01"

Node == [group |-> Group, edge |-> EdgeNode, epoch |-> EPOCH_MS,
         ids  |-> <<"conveyor-02", "portal-03">>,
         node |-> {MetricSpec(DroppedRecords, "UInt64", Absent, Absent)},
         devices |-> <<{MetricSpec(MotorTemp, "Double", Absent, Absent)},
                       {MetricSpec(ReadRate, "Float", 0, 1),
                        MetricSpec(UniqueEpcs, "UInt32", Absent, Absent)}>>]

\* fresh() and fresh_born(): sessions beside the one played.
Fresh     == NewSession
FreshBorn == DeviceBorn(DeviceBorn(NodeBorn(Connected(Fresh)), Conveyor), Portal)

play(ticks) ==
    LET opened  == Connected(Fresh)
        born    == NodeBorn(opened)
        first   == DeviceBorn(born, Conveyor)
        all     == DeviceBorn(first, Portal)
        told    == NextSeq(all)
        read    == NextSeq(told)
        lost    == DeviceDied(read, Conveyor)
    IN  [will    |-> WillRegistration(Node, opened, ticks),
         nbirth  |-> NodeBirthMessage(Node, opened, ticks),
         dbirths |-> <<DeviceBirthMessage(Node, born, Conveyor, ticks),
                       DeviceBirthMessage(Node, first, Portal, ticks)>>,
         ndata   |-> DataMessage(Node, all, NodeItself, {DroppedRecords}, <<"int", 3>>, ticks),
         ddata   |-> DataMessage(Node, told, Portal, {ReadRate}, <<"float", 94>>, ticks),
         ddeath  |-> DeviceDeathMessage(Node, read, Conveyor, ticks),
         rebirth |-> RebirthMessages(Node, lost, ticks)]
-----------------------------------------------------------------------------
(* The check factories.                                                    *)

declared_delivery(type, qos, retain) ==
    QosByTopicClass[type] = [qos |-> qos, retain |-> retain]

published_qos(m, qos)       == m.qos = qos
published_retain(m, retain) == m.retain = retain
published_delivery(m, qos, retain) == published_qos(m, qos) /\ published_retain(m, retain)

\* The node form of a topic and the device form.
NodeTopic(type)      == <<"spBv1.0", Group, type, EdgeNode>>
DeviceTopic(type, d) == Append(NodeTopic(type), Node.ids[d])

topic_is(m, expected) == m.topic = expected

payload_timestamp(m) == m.ts # Absent
seq_present(m)       == m.seq # Absent /\ m.seq \in 0..SEQUENCE_MODULUS-1
seq_follows(m, before) == m.seq = (before.seq + 1) % SEQUENCE_MODULUS

Reserved == {"bad+id", "bad#id", "bad/id"}
refuses_reserved(Valid(_)) == \A v \in Reserved : ~Valid(v)
GroupId(v)  == ValidIds(<<v, "dc-01", "receiving">>, "a", "")
EdgeId(v)   == ValidIds(Group, v, "")
DeviceId(v) == ValidIds(Group, EdgeNode, v)

\* Levels are counted from one here.
identifier_reaches_topic(m, level, expected) == Len(m.topic) > level /\ m.topic[level + 1] = expected

every_metric(m, Holds(_)) == \A i \in DOMAIN m.metrics : Holds(m.metrics[i])

\* Data over a session carried through its births.
Published(d, changed) == DataMessage(Node, FreshBorn, d, changed, <<"int", 1>>, 0)
only_changed(d, changed, expected) ==
    CanPublish(Node, FreshBorn, d, changed) /\ Len(Published(d, changed).metrics) = expected

NeverDeclared == 99
undeclared_refused(d) == ~CanPublish(Node, FreshBorn, d, {NeverDeclared})

data_before_all_births(d, changed) ==
    ~CanPublish(Node, DeviceBorn(NodeBorn(Connected(Fresh)), Portal), d, changed)

utc_timestamp(ts) == ts >= UTC_FLOOR_MS

\* Where a message has metrics under one name; most checks want the first.
Named(m, name)  == {i \in DOMAIN m.metrics : m.metrics[i].name = name}
Has(m, name)    == Named(m, name) # {}
metric(m, name) == m.metrics[CHOOSE i \in Named(m, name) : \A j \in Named(m, name) : i <= j]

bdseq_datatype(m) == Has(m, BDSEQ_METRIC) /\ metric(m, BDSEQ_METRIC).datatype = "Int64"
-----------------------------------------------------------------------------
(* Checks of topics and identifiers.                                       *)

check_topic_structure(t) ==
    /\ Len(t.nbirth.topic) = 4 /\ Len(t.dbirths[Portal].topic) = 5
    /\ t.nbirth.topic[1] = "spBv1.0" /\ t.dbirths[Portal].topic[1] = "spBv1.0"

check_namespace(t) == t.nbirth.topic # NoTopic /\ t.nbirth.topic[1] = "spBv1.0"

check_device_id_required ==
    \A type \in {"DBIRTH", "DDEATH", "DDATA", "DCMD"} :
        /\ topic_for(Group, EdgeNode, type, "") = NoTopic
        /\ Last(topic_for(Group, EdgeNode, type, Node.ids[Portal])) = Node.ids[Portal]

check_device_id_refused ==
    /\ \A type \in {"NBIRTH", "NDEATH", "NDATA", "NCMD"} :
          topic_for(Group, EdgeNode, type, Node.ids[Portal]) = NoTopic
    /\ topic_for(Group, EdgeNode, "STATE", "") = NoTopic

check_unique_device_id(t) == IsInjective([d \in DOMAIN t.dbirths |-> t.dbirths[d].topic])

check_ncmd_topic == topic_for(Group, EdgeNode, "NCMD", "") = NodeTopic("NCMD")
check_dcmd_topic == topic_for(Group, EdgeNode, "DCMD", Node.ids[Portal]) = DeviceTopic("DCMD", Portal)

check_dbirth_matches_node(t) ==
    /\ t.dbirths[Portal].topic[2] = t.nbirth.topic[2]
    /\ t.dbirths[Portal].topic[4] = t.nbirth.topic[4]

check_case_distinct_ids ==
    /\ ~ValidIds(<<"Twinflow", "dc-01", "receiving">>, "a", "")
    /\ ~ValidIds(Group, "Line-01", "")

\* A node that names one metric twice, apart by case, is not built.
check_case_distinct_metric_names ==
    CaseCollision([node |-> {}, devices |-> <<{},
        {MetricSpec(ReadRateCapital, "Float", Absent, Absent),
         MetricSpec(ReadRate, "Float", Absent, Absent)}>>])
-----------------------------------------------------------------------------
(* Checks of the sequence, the will and bdSeq.                             *)

check_nbirth_seq_zero(t) == t.nbirth.seq = 0

check_seq_always_present(t) ==
    /\ \A m \in {t.nbirth, t.ndata, t.ddata, t.ddeath} \cup ToSet(t.dbirths) : m.seq # Absent
    /\ t.will.message.seq = Absent

\* 300 messages in the code: 44 beyond one turn of the counter.
WrapSteps == SEQUENCE_MODULUS + 44

check_seq_wraps ==
    LET after[k \in 1..WrapSteps] == IF k = 1 THEN FreshBorn ELSE NextSeq(after[k - 1])
        seen == [k \in 1..WrapSteps |->
                   DataMessage(Node, after[k], NodeItself, {DroppedRecords}, <<"int", k - 1>>, 0).seq]
    IN  /\ \A k \in 2..WrapSteps : seen[k] = (seen[k - 1] + 1) % SEQUENCE_MODULUS
        /\ {0, SEQUENCE_MODULUS - 1} \subseteq ToSet(seen)

check_ndeath_payload(t) ==
    Len(t.will.message.metrics) = 1 /\ t.will.message.metrics[1].name = BDSEQ_METRIC

check_ndeath_seq_absent(t) == t.will.message.seq = Absent
check_will_is_ndeath(t)    == t.will.message.type = "NDEATH"
check_will_qos(t)          == t.will.qos = 1
check_will_retain(t)       == ~t.will.retain

check_bdseq_present(t) == Has(t.nbirth, BDSEQ_METRIC)

check_bdseq_matches_will(t) ==
    /\ Has(t.nbirth, BDSEQ_METRIC) /\ Has(t.will.message, BDSEQ_METRIC)
    /\ metric(t.nbirth, BDSEQ_METRIC).value = metric(t.will.message, BDSEQ_METRIC).value

\* Two sessions more than the counter has values.
check_bdseq_increments ==
    LET opened[k \in 1..SEQUENCE_MODULUS + 2] == Connected(IF k = 1 THEN Fresh ELSE opened[k - 1])
        seen(k) == metric(WillRegistration(Node, opened[k], 0).message, BDSEQ_METRIC).value[2]
    IN  /\ seen(1) = 0
        /\ \A k \in 2..SEQUENCE_MODULUS + 2 : seen(k) = (seen(k - 1) + 1) % SEQUENCE_MODULUS
-----------------------------------------------------------------------------
(* Checks of the metrics.                                                  *)

check_rebirth_metric_present(t) == Has(t.nbirth, REBIRTH_METRIC)
check_rebirth_metric_datatype(t) ==
    check_rebirth_metric_present(t) /\ metric(t.nbirth, REBIRTH_METRIC).datatype = "Boolean"
check_rebirth_metric_value(t) ==
    check_rebirth_metric_present(t) /\ metric(t.nbirth, REBIRTH_METRIC).value = <<"bool", 0>>
check_rebirth_metric_unaliased(t) ==
    check_rebirth_metric_present(t) /\ metric(t.nbirth, REBIRTH_METRIC).alias = Absent

Births(t) == {t.nbirth} \cup ToSet(t.dbirths)
Data(t)   == {t.ndata, t.ddata}

\* Of one birth message; the command metric is outside the alias table.
NamedAndAliased(m) ==
    every_metric(m, LAMBDA x : x.name = REBIRTH_METRIC \/ (x.name # Absent /\ x.alias # Absent))
AliasedOnly(m) == every_metric(m, LAMBDA x : x.alias # Absent /\ x.name = Absent)

check_birth_metrics_named_and_aliased(t) == \A m \in Births(t) : NamedAndAliased(m)
check_data_metrics_aliased_only(t)       == \A m \in Data(t) : AliasedOnly(m)

check_alias_uniqueness ==
    LET table == assign_aliases(Node)
    IN  IsInjective(table) /\ \A k \in DOMAIN table : table[k] >= 1

check_metric_timestamps(t) ==
    \A m \in Births(t) \cup Data(t) : every_metric(m, LAMBDA x : x.ts # Absent)

check_datatype_enumerated(t) ==
    \A m \in Births(t) : every_metric(m, LAMBDA x : Contains(DataTypes, x.datatype))

check_quality_codes(t) ==
    LET codes == {Quality[q] : q \in DOMAIN Quality}
    IN  /\ codes = {0, 192, 500}
        /\ every_metric(t.nbirth, LAMBDA x : QualityKey \in DOMAIN x.properties =>
                                               x.properties[QualityKey][2] \in codes)

Chronological(m) == \A i, j \in DOMAIN m.metrics : i < j => m.metrics[i].ts <= m.metrics[j].ts
check_chronological(m, follow) == Chronological(m) /\ Chronological(follow)
-----------------------------------------------------------------------------
(* Checks of the order of calls and of the rebirth.                        *)

check_connect_first == ~CanBirthNode(Fresh)
check_will_returned == Connected(Fresh).connected
check_birth_first   == ~CanPublish(Node, Connected(Fresh), NodeItself, {DroppedRecords})
check_dbirth_after_nbirth == ~CanBirthDevice(Node, Connected(Fresh), Portal)

check_ddeath(t) == t.ddeath.type = "DDEATH" /\ Last(t.ddeath.topic) = Node.ids[Conveyor]

check_rebirth_stops_data(t) == \A i \in DOMAIN t.rebirth : t.rebirth[i].type \notin {"NDATA", "DDATA"}

check_rebirth_sequence(t) ==
    /\ t.rebirth # <<>>
    /\ t.rebirth[1].type = "NBIRTH"
    /\ {Last(m.topic) : m \in ToSet(Tail(t.rebirth))} = ToSet(Node.ids)

check_rebirth_keeps_bdseq(t) ==
    metric(t.rebirth[1], BDSEQ_METRIC).value = metric(t.will.message, BDSEQ_METRIC).value

check_rebirth_request_name ==
    ~Acts([name |-> NeverDeclared, value |-> TRUE]) /\ Acts([name |-> REBIRTH_METRIC, value |-> TRUE])
check_rebirth_request_value ==
    ~Acts([name |-> REBIRTH_METRIC, value |-> FALSE]) /\ Acts([name |-> REBIRTH_METRIC, value |-> TRUE])

check_intentional_disconnect == DeathMessage(Node, FreshBorn, 0).type = "NDEATH"
-----------------------------------------------------------------------------
(* Checks of the encoded payload.                                          *)

encoded(m) == encode_payload(m)
decoded(m) == decode_payload(encoded(m))

\* An encoder that raises has failed the check.
is_protobuf_payload(m) ==
    LET wire     == encoded(m)
        restored == decode_payload(wire)
    IN  /\ wire # Refused
        /\ Len(restored.metrics) = Len(m.metrics)
        /\ restored.ts = m.ts /\ restored.seq = m.seq

birth_values_present_or_null(m) ==
    LET key(x) == IF x.name # Absent THEN x.name ELSE x.alias
        restored == decoded(m)
    IN  /\ encoded(m) # Refused
        /\ \A x \in ToSet(restored.metrics) :
              \E y \in ToSet(m.metrics) : key(x) = key(y) /\ (x.value = Null <=> y.value = Null)

FieldFourTag == 32

datatype_is_unsigned_varint(t) ==
    /\ Contains(encoded(t.nbirth), FieldFourTag)
    /\ \A x \in ToSet(decoded(t.nbirth).metrics) : CodeOf(x.datatype) >= 0

\* The metrics of the NBIRTH that declare properties, before and after.
propertyset_arrays_match(t) ==
    LET restored == decoded(t.nbirth)
        compared == {y \in ToSet(t.nbirth.metrics) : /\ DOMAIN y.properties # {}
                                                     /\ Has(restored, y.name)}
    IN  /\ compared # {}
        /\ \A y \in compared : Cardinality(DOMAIN metric(restored, y.name).properties)
                                 = Cardinality(DOMAIN y.properties)

property_type_is_enumerated(t) ==
    LET values == UNION {{x.properties[k] : k \in DOMAIN x.properties} :
                           x \in ToSet(decoded(t.nbirth).metrics)}
    IN  values # {} /\ Null \notin values /\ Raised \notin values

quality_is_int32(t) ==
    LET codes == {x.properties[QualityKey] :
                    x \in {y \in ToSet(decoded(t.nbirth).metrics) : QualityKey \in DOMAIN y.properties}}
    IN  /\ codes # {}
        /\ \A c \in codes : c[1] = "int" /\ c[2] >= -(2 ^ (IntBits - 1)) /\ c[2] < 2 ^ (IntBits - 1)
=============================================================================
