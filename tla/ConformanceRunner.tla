-------------------------- MODULE ConformanceRunner --------------------------
(***************************************************************************)
(* The check table and the report of the conformance runner                *)
(* (conformance.py): one verdict for each assertion identifier, and the    *)
(* coverage statement around them.                                         *)
(***************************************************************************)
EXTENDS Conformance

\* Assertions answered by one check.
By(check, ids) == [i \in ids |-> check]

EncodedChecks(t) ==
    By(is_protobuf_payload(t.will.message),
       {"message-flow-edge-node-birth-publish-will-message-payload"})
    @@ By(is_protobuf_payload(t.nbirth), {"message-flow-edge-node-birth-publish-nbirth-payload"})
    @@ By(is_protobuf_payload(t.dbirths[Portal]), {"message-flow-device-birth-publish-dbirth-payload"})
    @@ By(birth_values_present_or_null(t.nbirth), {"operational-behavior-data-publish-nbirth-values"})
    @@ By(birth_values_present_or_null(t.dbirths[Portal]), {"operational-behavior-data-publish-dbirth-values"})
    @@ By(datatype_is_unsigned_varint(t), {"payloads-metric-datatype-value-type"})
    @@ By(propertyset_arrays_match(t),
          {"payloads-propertyset-keys-array-size", "payloads-propertyset-values-array-size"})
    @@ By(property_type_is_enumerated(t),
          {"payloads-metric-propertyvalue-type-type", "payloads-metric-propertyvalue-type-value",
           "payloads-metric-propertyvalue-type-req"})
    @@ By(quality_is_int32(t), {"payloads-propertyset-quality-value-type"})

IdentifierChecks(t) ==
    By(identifier_reaches_topic(t.nbirth, 1, Group), {"intro-group-id-string"})
    @@ By(identifier_reaches_topic(t.nbirth, 3, EdgeNode), {"intro-edge-node-id-string"})
    @@ By(identifier_reaches_topic(t.dbirths[Portal], 4, Node.ids[Portal]), {"intro-device-id-string"})
    @@ By(refuses_reserved(GroupId),
          {"intro-group-id-chars", "topic-structure-namespace-valid-group-id"})
    @@ By(refuses_reserved(EdgeId),
          {"intro-edge-node-id-chars", "topic-structure-namespace-valid-edge-node-id"})
    @@ By(refuses_reserved(DeviceId),
          {"intro-device-id-chars", "topic-structure-namespace-valid-device-id"})
    @@ By(check_unique_device_id(t), {"topic-structure-namespace-unique-device-id"})
    @@ By(check_case_distinct_ids, {"case-sensitivity-sparkplug-ids"})
    @@ By(check_case_distinct_metric_names, {"case-sensitivity-metric-names"})

TopicChecks(t) ==
    By(check_topic_structure(t), {"topic-structure"})
    @@ By(check_namespace(t), {"topic-structure-namespace-a"})
    @@ By(check_device_id_required, {"topic-structure-namespace-device-id-associated-message-types"})
    @@ By(check_device_id_refused, {"topic-structure-namespace-device-id-non-associated-message-types"})
    @@ By(topic_is(t.nbirth, NodeTopic("NBIRTH")),
          {"topics-nbirth-topic", "message-flow-edge-node-birth-publish-nbirth-topic"})
    @@ By(topic_is(t.ndata, NodeTopic("NDATA")), {"topics-ndata-topic"})
    @@ By(topic_is(t.will.message, NodeTopic("NDEATH")),
          {"topics-ndeath-topic", "message-flow-edge-node-birth-publish-will-message-topic"})
    @@ By(check_ncmd_topic, {"topics-ncmd-topic"})
    @@ By(topic_is(t.dbirths[Portal], DeviceTopic("DBIRTH", Portal)),
          {"topics-dbirth-topic", "message-flow-device-birth-publish-dbirth-topic"})
    @@ By(topic_is(t.ddata, DeviceTopic("DDATA", Portal)), {"topics-ddata-topic"})
    @@ By(topic_is(t.ddeath, DeviceTopic("DDEATH", Conveyor)), {"topics-ddeath-topic"})
    @@ By(check_dcmd_topic, {"topics-dcmd-topic"})
    @@ By(check_dbirth_matches_node(t),
          {"message-flow-device-birth-publish-dbirth-match-edge-node-topic"})

DeliveryChecks(t) ==
    By(published_delivery(t.nbirth, 0, FALSE), {"topics-nbirth-mqtt"})
    @@ By(published_delivery(t.ndata, 0, FALSE), {"topics-ndata-mqtt"})
    @@ By(published_delivery(t.dbirths[Portal], 0, FALSE), {"topics-dbirth-mqtt"})
    @@ By(published_delivery(t.ddata, 0, FALSE), {"topics-ddata-mqtt"})
    @@ By(published_delivery(t.ddeath, 0, FALSE), {"topics-ddeath-mqtt"})
    @@ By(declared_delivery("NCMD", 0, FALSE),
          {"topics-ncmd-mqtt", "payloads-ncmd-qos", "payloads-ncmd-retain"})
    @@ By(declared_delivery("DCMD", 0, FALSE),
          {"topics-dcmd-mqtt", "payloads-dcmd-qos", "payloads-dcmd-retain"})
    @@ By(published_qos(t.nbirth, 0),
          {"payloads-nbirth-qos", "message-flow-edge-node-birth-publish-nbirth-qos"})
    @@ By(published_retain(t.nbirth, FALSE),
          {"payloads-nbirth-retain", "message-flow-edge-node-birth-publish-nbirth-retained"})
    @@ By(published_qos(t.dbirths[Portal], 0),
          {"payloads-dbirth-qos", "message-flow-device-birth-publish-dbirth-qos"})
    @@ By(published_retain(t.dbirths[Portal], FALSE),
          {"payloads-dbirth-retain", "message-flow-device-birth-publish-dbirth-retained"})
    @@ By(published_qos(t.ndata, 0), {"payloads-ndata-qos"})
    @@ By(published_retain(t.ndata, FALSE), {"payloads-ndata-retain"})
    @@ By(published_qos(t.ddata, 0), {"payloads-ddata-qos"})
    @@ By(published_retain(t.ddata, FALSE), {"payloads-ddata-retain"})
    @@ By(check_will_qos(t),
          {"payloads-ndeath-will-message-qos",
           "message-flow-edge-node-birth-publish-will-message-qos"})
    @@ By(check_will_retain(t),
          {"payloads-ndeath-will-message-retain",
           "message-flow-edge-node-birth-publish-will-message-will-retained"})
    @@ By(declared_delivery("STATE", 1, TRUE),
          {"host-topic-phid-birth-qos", "host-topic-phid-birth-retain"})

SequenceChecks(t) ==
    By(check_nbirth_seq_zero(t), {"topics-nbirth-seq-num"})
    @@ By(check_seq_always_present(t), {"payloads-sequence-num-always-included"})
    @@ By(seq_present(t.nbirth),
          {"payloads-sequence-num-req-nbirth", "payloads-nbirth-seq",
           "message-flow-edge-node-birth-publish-nbirth-payload-seq"})
    @@ By(check_seq_wraps, {"payloads-sequence-num-incrementing"})
    @@ By(seq_follows(t.dbirths[Conveyor], t.nbirth),
          {"topics-dbirth-seq", "payloads-dbirth-seq-inc",
           "message-flow-device-birth-publish-dbirth-payload-seq"})
    @@ By(seq_present(t.dbirths[Portal]), {"payloads-dbirth-seq"})
    @@ By(seq_follows(t.ndata, t.dbirths[Portal]), {"topics-ndata-seq-num", "payloads-ndata-seq-inc"})
    @@ By(seq_present(t.ndata), {"payloads-ndata-seq"})
    @@ By(seq_follows(t.ddata, t.ndata), {"topics-ddata-seq-num", "payloads-ddata-seq-inc"})
    @@ By(seq_present(t.ddata), {"payloads-ddata-seq"})
    @@ By(seq_follows(t.ddeath, t.ddata), {"topics-ddeath-seq-num", "payloads-ddeath-seq-inc"})
    @@ By(seq_present(t.ddeath), {"payloads-ddeath-seq", "payloads-ddeath-seq-number"})
    @@ By(check_ndeath_seq_absent(t), {"topics-ndeath-seq", "payloads-ndeath-seq"})

WillChecks(t) ==
    By(check_connect_first, {"message-flow-edge-node-birth-publish-connect"})
    @@ By(check_will_returned, {"message-flow-edge-node-birth-publish-will-message"})
    @@ By(check_will_is_ndeath(t), {"payloads-ndeath-will-message"})
    @@ By(check_ndeath_payload(t), {"topics-ndeath-payload"})
    @@ By(check_bdseq_matches_will(t), {"payloads-ndeath-bdseq"})
    @@ By(check_intentional_disconnect,
          {"payloads-ndeath-will-message-publisher",
           "operational-behavior-edge-node-intentional-disconnect-ndeath"})

BdSeqChecks(t) ==
    By(check_bdseq_present(t), {"topics-nbirth-bdseq-included", "payloads-nbirth-bdseq"})
    @@ By(check_bdseq_matches_will(t), {"topics-nbirth-bdseq-matching", "payloads-nbirth-bdseq-repeat"})
    @@ By(check_bdseq_increments, {"topics-nbirth-bdseq-increment"})
    @@ By(bdseq_datatype(t.will.message),
          {"message-flow-edge-node-birth-publish-will-message-payload-bdSeq"})
    @@ By(bdseq_datatype(t.nbirth), {"message-flow-edge-node-birth-publish-nbirth-payload-bdSeq"})

MetricChecks(t) ==
    By(every_metric(t.nbirth, LAMBDA m : m.name # Absent /\ m.datatype # "none"), {"topics-nbirth-metrics"})
    @@ By(every_metric(t.dbirths[Portal], LAMBDA m : m.name # Absent /\ m.datatype # "none"),
          {"topics-dbirth-metrics"})
    @@ By(every_metric(t.nbirth, LAMBDA m : m.name # Absent), {"payloads-name-requirement"})
    @@ By(check_birth_metrics_named_and_aliased(t), {"payloads-alias-birth-requirement"})
    @@ By(check_data_metrics_aliased_only(t), {"payloads-alias-data-cmd-requirement"})
    @@ By(check_alias_uniqueness, {"payloads-alias-uniqueness"})
    @@ By(check_metric_timestamps(t), {"payloads-name-birth-data-requirement"})
    @@ By(every_metric(t.dbirths[Portal], LAMBDA m : m.datatype # "none"), {"payloads-metric-datatype-req"})
    @@ By(every_metric(t.ddata, LAMBDA m : m.datatype = "none"), {"payloads-metric-datatype-not-req"})
    @@ By(check_datatype_enumerated(t), {"payloads-metric-datatype-value"})
    @@ By(check_quality_codes(t), {"payloads-propertyset-quality-value-value"})
    @@ By(undeclared_refused(NodeItself),
          {"topics-nbirth-metric-reqs", "operational-behavior-data-publish-nbirth"})
    @@ By(undeclared_refused(Portal),
          {"topics-dbirth-metric-reqs", "operational-behavior-data-publish-dbirth"})
    @@ By(check_rebirth_metric_present(t),
          {"topics-nbirth-rebirth-metric", "operational-behavior-data-commands-rebirth-name"})
    @@ By(check_rebirth_metric_value(t),
          {"payloads-nbirth-rebirth-req", "operational-behavior-data-commands-rebirth-value"})
    @@ By(check_rebirth_metric_datatype(t), {"operational-behavior-data-commands-rebirth-datatype"})
    @@ By(check_rebirth_metric_unaliased(t), {"operational-behavior-data-commands-rebirth-name-aliases"})

TimestampChecks(t) ==
    By(payload_timestamp(t.nbirth), {"topics-nbirth-timestamp", "payloads-nbirth-timestamp"})
    @@ By(payload_timestamp(t.dbirths[Portal]), {"topics-dbirth-timestamp", "payloads-dbirth-timestamp"})
    @@ By(payload_timestamp(t.ndata), {"topics-ndata-timestamp", "payloads-ndata-timestamp"})
    @@ By(payload_timestamp(t.ddata), {"topics-ddata-timestamp", "payloads-ddata-timestamp"})
    @@ By(payload_timestamp(t.ddeath), {"payloads-ddeath-timestamp"})
    @@ By(utc_timestamp(t.nbirth.ts), {"payloads-timestamp-in-UTC"})
    @@ By(utc_timestamp(metric(t.nbirth, BDSEQ_METRIC).ts), {"payloads-metric-timestamp-in-UTC"})

OrderingChecks(t) ==
    By(check_birth_first, {"principles-birth-certificates-order"})
    @@ By(check_dbirth_after_nbirth, {"message-flow-device-birth-publish-nbirth-wait"})
    @@ By(data_before_all_births(Portal, {ReadRate}), {"payloads-dbirth-order", "payloads-ddata-order"})
    @@ By(data_before_all_births(NodeItself, {DroppedRecords}), {"payloads-ndata-order"})
    @@ By(check_chronological(t.nbirth, t.ndata), {"operational-behavior-data-publish-nbirth-order"})
    @@ By(check_chronological(t.dbirths[Portal], t.ddata), {"operational-behavior-data-publish-dbirth-order"})

ExceptionChecks ==
    By(only_changed(Portal, {ReadRate}, 1),
       {"principles-rbe-recommended", "topics-ddata-payload",
        "operational-behavior-data-publish-dbirth-change"})
    @@ By(only_changed(NodeItself, {DroppedRecords}, 1),
          {"topics-ndata-payload", "operational-behavior-data-publish-nbirth-change"})

LifecycleChecks(t) ==
    By(check_ddeath(t), {"operational-behavior-device-ddeath"})
    @@ By(check_rebirth_stops_data(t), {"operational-behavior-data-commands-rebirth-action-1"})
    @@ By(check_rebirth_sequence(t), {"operational-behavior-data-commands-rebirth-action-2"})
    @@ By(check_rebirth_keeps_bdseq(t), {"operational-behavior-data-commands-rebirth-action-3"})
    @@ By(check_rebirth_request_name, {"operational-behavior-data-commands-ncmd-rebirth-name"})
    @@ By(check_rebirth_request_value, {"operational-behavior-data-commands-ncmd-rebirth-value"})

CHECKS(t) ==
    EncodedChecks(t) @@ IdentifierChecks(t) @@ TopicChecks(t) @@ DeliveryChecks(t)
    @@ SequenceChecks(t) @@ WillChecks(t) @@ BdSeqChecks(t) @@ MetricChecks(t)
    @@ TimestampChecks(t) @@ OrderingChecks(t) @@ ExceptionChecks @@ LifecycleChecks(t)
-----------------------------------------------------------------------------
(* The report.                                                             *)

\* The coverage statement around a set of results.
edge_node_coverage(results) ==
    LET edge == assertions_for("edge")
    IN  [spec_total |-> SPEC_ASSERTION_COUNT,
         edge_node_total |-> Cardinality(edge),
         edge_node_in_scope |-> Cardinality({a \in edge : a.exclusion = "none"}),
         in_scope_total |-> Cardinality(in_scope_assertions),
         passed |-> Cardinality({i \in DOMAIN results : results[i]}),
         failed |-> Cardinality({i \in DOMAIN results : ~results[i]}),
         out_of_scope |-> [r \in {a.exclusion : a \in ASSERTIONS} \ {"none"} |->
                             Cardinality({a \in ASSERTIONS : a.exclusion = r})]]

\* The clock is the caller's; the exit status is zero when nothing failed.
run_edge_node_conformance(ticks) ==
    LET results == CHECKS(play(ticks))
    IN  [results |-> results, coverage |-> edge_node_coverage(results),
         failures |-> {i \in DOMAIN results : ~results[i]}]

conformant(report) == report.failures = {}
-----------------------------------------------------------------------------
(* The frames of every session, beside the one the runner plays.           *)

\* The messages that carry datatypes, and so have a binary form: a birth or a
\* death of the node or of a device, whatever the counters and the instant.
FramesOf(numbers, instants) ==
    LET sessions == {[NewSession EXCEPT !.seq = q, !.bdseq = b] : q, b \in numbers}
        devices  == DOMAIN Node.devices
    IN  {NodeBirthMessage(Node, x, t) : x \in sessions, t \in instants}
        \cup {DeathMessage(Node, x, t) : x \in sessions, t \in instants}
        \cup {DeviceBirthMessage(Node, x, d, t) : x \in sessions, d \in devices, t \in instants}
        \cup {DeviceDeathMessage(Node, x, d, t) : x \in sessions, d \in devices, t \in instants}

\* The bytes of a frame read back as the frame, its nulls as nulls.
Restores(m) ==
    /\ is_protobuf_payload(m)
    /\ m.type \in {"NBIRTH", "DBIRTH"} => birth_values_present_or_null(m)
=============================================================================
