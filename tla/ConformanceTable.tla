-------------------------- MODULE ConformanceTable ---------------------------
(***************************************************************************)
(* The assertion table of twinflow.sensors (conformance.py): every         *)
(* assertion the Sparkplug B v3.0.0 specification anchors, the profile it  *)
(* constrains, and the reason it is left out here, if it is.  The prefix   *)
(* "tck-id-" of the identifiers, the requirement level and the wording are *)
(* not kept: nothing in the runner depends on them.                        *)
(***************************************************************************)
EXTENDS Naturals, FiniteSets

SPEC_ASSERTION_COUNT == 299

Exclusions == {"templates", "transport", "deployment", "primary host", "other profile"}

LeftOut(profile, reason, ids) ==
    {[id |-> i, profile |-> profile, exclusion |-> reason] : i \in ids}

Answered(profile, ids) == LeftOut(profile, "none", ids)
-----------------------------------------------------------------------------
\* Sections 1 to 3: identifiers, principles, components.
PrinciplesRows ==
    LeftOut("host", "other profile", {"intro-sparkplug-host-state", "components-ph-state"})
    \cup Answered("edge", {"intro-group-id-string", "intro-group-id-chars", "intro-edge-node-id-string",
             "intro-edge-node-id-chars", "intro-device-id-string", "intro-device-id-chars",
             "principles-rbe-recommended", "principles-birth-certificates-order"})
    \cup LeftOut("edge", "deployment", {"intro-edge-node-id-uniqueness"})
    \cup LeftOut("edge", "transport", {"principles-persistence-clean-session-311",
             "principles-persistence-clean-session-50"})

\* Section 4: topic structure and the NBIRTH.
NodeTopicRows ==
    Answered("edge", {"topic-structure", "topic-structure-namespace-a",
             "topic-structure-namespace-valid-group-id",
             "topic-structure-namespace-valid-edge-node-id",
             "topic-structure-namespace-valid-device-id",
             "topic-structure-namespace-unique-device-id",
             "topic-structure-namespace-device-id-associated-message-types",
             "topic-structure-namespace-device-id-non-associated-message-types",
             "topics-nbirth-topic", "topics-nbirth-mqtt", "topics-nbirth-seq-num",
             "topics-nbirth-timestamp", "topics-nbirth-metric-reqs", "topics-nbirth-metrics",
             "topics-nbirth-bdseq-included", "topics-nbirth-bdseq-matching",
             "topics-nbirth-bdseq-increment", "topics-nbirth-rebirth-metric"})
    \cup LeftOut("edge", "deployment", {"topic-structure-namespace-unique-edge-node-descriptor",
             "topic-structure-namespace-duplicate-device-id-across-edge-node"})
    \cup LeftOut("edge", "templates", {"topics-nbirth-templates"})

\* Section 4: NDATA, NDEATH and NCMD.
DataTopicRows ==
    Answered("edge", {"topics-ndata-topic", "topics-ndata-mqtt", "topics-ndata-seq-num",
             "topics-ndata-timestamp", "topics-ndata-payload", "topics-ndeath-topic",
             "topics-ndeath-payload", "topics-ndeath-seq", "topics-ncmd-topic"})
    \cup Answered("host", {"topics-ncmd-mqtt"})
    \cup LeftOut("host", "other profile", {"topics-ncmd-timestamp", "topics-ncmd-payload"})

\* Section 4: the device messages.
DeviceTopicRows ==
    Answered("edge", {"topics-dbirth-topic", "topics-dbirth-mqtt", "topics-dbirth-seq",
             "topics-dbirth-timestamp", "topics-dbirth-metric-reqs", "topics-dbirth-metrics",
             "topics-ddata-topic", "topics-ddata-mqtt", "topics-ddata-seq-num",
             "topics-ddata-timestamp", "topics-ddata-payload", "topics-ddeath-topic",
             "topics-ddeath-mqtt", "topics-ddeath-seq-num", "topics-dcmd-topic"})
    \cup Answered("host", {"topics-dcmd-mqtt"})
    \cup LeftOut("host", "other profile", {"topics-dcmd-timestamp", "topics-dcmd-payload"})

\* Section 4: the STATE topic of a host.
HostTopicRows ==
    LeftOut("host", "other profile", {"host-topic-phid-birth-message", "host-topic-phid-birth-topic",
             "host-topic-phid-birth-sub-required", "host-topic-phid-birth-required",
             "host-topic-phid-birth-payload", "host-topic-phid-birth-payload-timestamp",
             "host-topic-phid-death-qos", "host-topic-phid-death-retain",
             "host-topic-phid-death-topic", "host-topic-phid-death-required",
             "host-topic-phid-death-payload", "host-topic-phid-death-payload-timestamp-connect",
             "host-topic-phid-death-payload-timestamp-disconnect-clean",
             "host-topic-phid-death-payload-timestamp-disconnect-with-no-disconnect-packet"})
    \cup Answered("host", {"host-topic-phid-birth-qos", "host-topic-phid-birth-retain"})

\* Section 5: opening a session.
ConnectRows ==
    Answered("edge", {"case-sensitivity-sparkplug-ids", "case-sensitivity-metric-names",
             "message-flow-edge-node-birth-publish-connect",
             "message-flow-edge-node-birth-publish-will-message",
             "message-flow-edge-node-birth-publish-will-message-topic",
             "message-flow-edge-node-birth-publish-will-message-payload",
             "message-flow-edge-node-birth-publish-will-message-payload-bdSeq",
             "message-flow-edge-node-birth-publish-will-message-qos",
             "message-flow-edge-node-birth-publish-will-message-will-retained"})
    \cup LeftOut("host", "other profile", {"message-flow-phid-sparkplug-clean-session-311",
             "message-flow-phid-sparkplug-clean-session-50",
             "message-flow-phid-sparkplug-subscription",
             "message-flow-phid-sparkplug-state-publish",
             "message-flow-phid-sparkplug-state-publish-payload",
             "message-flow-phid-sparkplug-state-publish-payload-timestamp",
             "message-flow-hid-sparkplug-state-message-delivered"})
    \cup LeftOut("edge", "transport", {"message-flow-edge-node-ncmd-subscribe"})

\* Section 5: the birth and the end of an edge node.
NodeFlowRows ==
    LeftOut("edge", "primary host", {"message-flow-edge-node-birth-publish-phid-wait",
             "message-flow-edge-node-birth-publish-phid-wait-id",
             "message-flow-edge-node-birth-publish-phid-wait-online",
             "message-flow-edge-node-birth-publish-phid-wait-timestamp",
             "message-flow-edge-node-birth-publish-phid-offline",
             "operational-behavior-edge-node-termination-host-offline",
             "operational-behavior-edge-node-termination-host-offline-reconnect",
             "operational-behavior-edge-node-termination-host-offline-timestamp"})
    \cup Answered("edge", {"message-flow-edge-node-birth-publish-nbirth-topic",
             "message-flow-edge-node-birth-publish-nbirth-payload",
             "message-flow-edge-node-birth-publish-nbirth-payload-bdSeq",
             "message-flow-edge-node-birth-publish-nbirth-qos",
             "message-flow-edge-node-birth-publish-nbirth-retained",
             "message-flow-edge-node-birth-publish-nbirth-payload-seq",
             "operational-behavior-edge-node-intentional-disconnect-ndeath"})
    \cup LeftOut("edge", "transport", {"operational-behavior-edge-node-intentional-disconnect-packet",
             "message-flow-device-dcmd-subscribe"})
    \cup LeftOut("host", "other profile", {"operational-behavior-edge-node-termination-host-action-ndeath-node-offline",
             "operational-behavior-edge-node-termination-host-action-ndeath-node-tags-stale",
             "operational-behavior-edge-node-termination-host-action-ndeath-devices-offline",
             "operational-behavior-edge-node-termination-host-action-ndeath-devices-tags-stale"})

\* Section 5: devices, reordering, several servers.
DeviceFlowRows ==
    Answered("edge", {"message-flow-device-birth-publish-nbirth-wait",
             "message-flow-device-birth-publish-dbirth-topic",
             "message-flow-device-birth-publish-dbirth-match-edge-node-topic",
             "message-flow-device-birth-publish-dbirth-payload",
             "message-flow-device-birth-publish-dbirth-qos",
             "message-flow-device-birth-publish-dbirth-retained",
             "message-flow-device-birth-publish-dbirth-payload-seq",
             "operational-behavior-device-ddeath"})
    \cup LeftOut("host", "other profile", {"operational-behavior-edge-node-termination-host-action-ddeath-devices-offline",
             "operational-behavior-edge-node-termination-host-action-ddeath-devices-tags-stale",
             "operational-behavior-host-reordering-param",
             "operational-behavior-host-reordering-start",
             "operational-behavior-host-reordering-rebirth",
             "operational-behavior-host-reordering-success",
             "operational-behavior-primary-application-state-with-multiple-servers-state-subs",
             "operational-behavior-primary-application-state-with-multiple-servers-state"})
    \cup LeftOut("edge", "primary host", {"operational-behavior-primary-application-state-with-multiple-servers-single-server",
             "operational-behavior-primary-application-state-with-multiple-servers-walk",
             "operational-behavior-edge-node-birth-sequence-wait"})

\* Section 5: the session of a host.
HostFlowRows ==
    LeftOut("host", "other profile", {"operational-behavior-host-application-host-id",
             "operational-behavior-host-application-connect-will",
             "operational-behavior-host-application-connect-will-topic",
             "operational-behavior-host-application-connect-will-payload",
             "operational-behavior-host-application-connect-will-qos",
             "operational-behavior-host-application-connect-will-retained",
             "operational-behavior-host-application-connect-birth",
             "operational-behavior-host-application-connect-birth-topic",
             "operational-behavior-host-application-connect-birth-payload",
             "operational-behavior-host-application-connect-birth-qos",
             "operational-behavior-host-application-connect-birth-retained",
             "operational-behavior-host-application-multi-server-timestamp",
             "operational-behavior-host-application-termination",
             "operational-behavior-host-application-death-topic",
             "operational-behavior-host-application-death-payload",
             "operational-behavior-host-application-death-qos",
             "operational-behavior-host-application-death-retained",
             "operational-behavior-host-application-disconnect-intentional"})

\* Section 5: publishing and the rebirth metric.
PublishRows ==
    Answered("edge", {"operational-behavior-data-publish-nbirth",
             "operational-behavior-data-publish-nbirth-values",
             "operational-behavior-data-publish-nbirth-change",
             "operational-behavior-data-publish-nbirth-order",
             "operational-behavior-data-publish-dbirth",
             "operational-behavior-data-publish-dbirth-values",
             "operational-behavior-data-publish-dbirth-change",
             "operational-behavior-data-publish-dbirth-order",
             "operational-behavior-data-commands-rebirth-name",
             "operational-behavior-data-commands-rebirth-name-aliases",
             "operational-behavior-data-commands-rebirth-datatype",
             "operational-behavior-data-commands-rebirth-value"})
    \cup LeftOut("host", "other profile", {"operational-behavior-data-commands-ncmd-rebirth-verb"})
    \cup Answered("host", {"operational-behavior-data-commands-ncmd-rebirth-name",
             "operational-behavior-data-commands-ncmd-rebirth-value"})

\* Section 5: the rebirth and the commands.
CommandRows ==
    Answered("edge", {"operational-behavior-data-commands-rebirth-action-1",
             "operational-behavior-data-commands-rebirth-action-2",
             "operational-behavior-data-commands-rebirth-action-3"})
    \cup LeftOut("host", "other profile", {"operational-behavior-data-commands-ncmd-verb",
             "operational-behavior-data-commands-ncmd-metric-name",
             "operational-behavior-data-commands-ncmd-metric-value",
             "operational-behavior-data-commands-dcmd-verb",
             "operational-behavior-data-commands-dcmd-metric-name",
             "operational-behavior-data-commands-dcmd-metric-value"})

\* Section 6: timestamps, names, datatypes, properties.
PayloadRows ==
    Answered("edge", {"payloads-timestamp-in-UTC", "payloads-sequence-num-always-included",
             "payloads-sequence-num-req-nbirth", "payloads-sequence-num-incrementing",
             "payloads-name-requirement", "payloads-alias-uniqueness",
             "payloads-alias-birth-requirement", "payloads-alias-data-cmd-requirement",
             "payloads-name-birth-data-requirement", "payloads-metric-timestamp-in-UTC",
             "payloads-metric-datatype-value-type", "payloads-metric-datatype-value",
             "payloads-metric-datatype-req", "payloads-metric-datatype-not-req",
             "payloads-propertyset-keys-array-size", "payloads-propertyset-values-array-size",
             "payloads-metric-propertyvalue-type-type",
             "payloads-metric-propertyvalue-type-value",
             "payloads-metric-propertyvalue-type-req", "payloads-propertyset-quality-value-type",
             "payloads-propertyset-quality-value-value"})
    \cup LeftOut("host", "other profile", {"payloads-name-cmd-requirement"})

\* Section 6: data sets and template definitions.
DataSetRows ==
    LeftOut("edge", "templates", {"payloads-dataset-column-size", "payloads-dataset-column-num-headers",
             "payloads-dataset-types-def", "payloads-dataset-types-num",
             "payloads-dataset-types-type", "payloads-dataset-types-value",
             "payloads-dataset-parameter-type-req", "payloads-template-dataset-value",
             "payloads-template-definition-nbirth-only",
             "payloads-template-definition-is-definition", "payloads-template-definition-ref",
             "payloads-template-definition-members", "payloads-template-definition-nbirth",
             "payloads-template-definition-parameters",
             "payloads-template-definition-parameters-default"})

\* Section 6: template instances and parameters.
TemplateRows ==
    LeftOut("edge", "templates", {"payloads-template-instance-is-definition", "payloads-template-instance-ref",
             "payloads-template-instance-members", "payloads-template-instance-members-birth",
             "payloads-template-instance-members-data", "payloads-template-instance-parameters",
             "payloads-template-version", "payloads-template-ref-definition",
             "payloads-template-ref-instance", "payloads-template-is-definition",
             "payloads-template-is-definition-definition",
             "payloads-template-is-definition-instance",
             "payloads-template-parameter-name-required",
             "payloads-template-parameter-name-type", "payloads-template-parameter-value-type",
             "payloads-template-parameter-type-value", "payloads-template-parameter-type-req",
             "payloads-template-parameter-value"})

\* Section 6: the birth payloads.
BirthPayloadRows ==
    Answered("edge", {"payloads-nbirth-timestamp", "payloads-nbirth-seq", "payloads-nbirth-bdseq",
             "payloads-nbirth-bdseq-repeat", "payloads-nbirth-rebirth-req",
             "payloads-nbirth-qos", "payloads-nbirth-retain", "payloads-dbirth-timestamp",
             "payloads-dbirth-seq", "payloads-dbirth-seq-inc", "payloads-dbirth-order",
             "payloads-dbirth-qos", "payloads-dbirth-retain"})
    \cup LeftOut("edge", "deployment", {"payloads-nbirth-edge-node-descriptor"})

\* Section 6: the data and command payloads.
DataPayloadRows ==
    Answered("edge", {"payloads-ndata-timestamp", "payloads-ndata-seq", "payloads-ndata-seq-inc",
             "payloads-ndata-order", "payloads-ndata-qos", "payloads-ndata-retain",
             "payloads-ddata-timestamp", "payloads-ddata-seq", "payloads-ddata-seq-inc",
             "payloads-ddata-order", "payloads-ddata-qos", "payloads-ddata-retain"})
    \cup LeftOut("host", "other profile", {"payloads-ncmd-timestamp", "payloads-ncmd-seq", "payloads-dcmd-timestamp",
             "payloads-dcmd-seq"})
    \cup Answered("host", {"payloads-ncmd-qos", "payloads-ncmd-retain", "payloads-dcmd-qos",
             "payloads-dcmd-retain"})

\* Section 6: the death and STATE payloads.
DeathPayloadRows ==
    Answered("edge", {"payloads-ndeath-seq", "payloads-ndeath-will-message",
             "payloads-ndeath-will-message-qos", "payloads-ndeath-will-message-retain",
             "payloads-ndeath-bdseq", "payloads-ndeath-will-message-publisher",
             "payloads-ddeath-timestamp", "payloads-ddeath-seq", "payloads-ddeath-seq-inc",
             "payloads-ddeath-seq-number"})
    \cup LeftOut("edge", "transport", {"payloads-ndeath-will-message-publisher-disconnect-mqtt311",
             "payloads-ndeath-will-message-publisher-disconnect-mqtt50"})
    \cup LeftOut("host", "other profile", {"payloads-state-will-message", "payloads-state-will-message-qos",
             "payloads-state-will-message-retain", "payloads-state-will-message-payload",
             "payloads-state-subscribe", "payloads-state-birth", "payloads-state-birth-payload"})

\* Section 10: conformance of hosts and servers.
ServerRows ==
    LeftOut("host", "other profile", {"conformance-primary-host"})
    \cup LeftOut("server", "other profile", {"conformance-mqtt-qos0", "conformance-mqtt-qos1", "conformance-mqtt-will-messages",
             "conformance-mqtt-retained", "conformance-mqtt-aware-basic",
             "conformance-mqtt-aware-store", "conformance-mqtt-aware-nbirth-mqtt-topic",
             "conformance-mqtt-aware-nbirth-mqtt-retain",
             "conformance-mqtt-aware-dbirth-mqtt-topic",
             "conformance-mqtt-aware-dbirth-mqtt-retain",
             "conformance-mqtt-aware-ndeath-timestamp"})
-----------------------------------------------------------------------------
ASSERTIONS ==
    PrinciplesRows \cup NodeTopicRows \cup DataTopicRows \cup DeviceTopicRows
    \cup HostTopicRows \cup ConnectRows \cup NodeFlowRows \cup DeviceFlowRows
    \cup HostFlowRows \cup PublishRows \cup CommandRows \cup PayloadRows
    \cup DataSetRows \cup TemplateRows \cup BirthPayloadRows \cup DataPayloadRows
    \cup DeathPayloadRows \cup ServerRows

assertions_for(profile) == {a \in ASSERTIONS : a.profile = profile}

in_scope_assertions == {a \in ASSERTIONS : a.exclusion = "none"}

\* The identifiers of a profile under each reason for leaving them out.
exclusions_by_reason(profile) ==
    [reason \in Exclusions |-> {a.id : a \in {b \in assertions_for(profile) : b.exclusion = reason}}]
=============================================================================
