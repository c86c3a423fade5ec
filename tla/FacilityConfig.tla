---------------------------- MODULE FacilityConfig ----------------------------
(***************************************************************************)
(* The validation pipeline of twinflow.config: load_facility (loader.py)   *)
(* and load_metrics with resolve_spec_limits (metrics.py).                 *)
(*                                                                         *)
(* A profile is what the stages tell apart: what the YAML parser returns,  *)
(* the errors that the JSON schema finds (an external library), and the    *)
(* zones, stations and flows.  A diagnostic is its code; messages, lines,  *)
(* columns and suggestions are left out.                                   *)
(***************************************************************************)
EXTENDS Integers, Sequences, SequencesExt, FiniteSetsExt

CONSTANTS
    ZoneNames, StationNames, MetricIds,
    MaxEdits         \* bound on the edits of the two files

VARIABLES
    profile,         \* the facility file: [yaml, schema_errors, zones, stations, flows]
    metrics,         \* the metrics file: the sequence of its entries
    limits,          \* the keys of a spec_limits mapping
    edits

config_vars == <<profile, metrics, limits, edits>>

\* yaml: a mapping whose containers hold mappings; a document of another shape
\* (a list, a scalar, a station that is no mapping); an empty file; no YAML.
Yaml == {"mapping", "misshapen", "empty", "broken"}

Warnings == {"TF-C301"}
HasError(codes) == \E c \in ToSet(codes) : c \notin Warnings
-----------------------------------------------------------------------------
(* The stages, each with all of its findings.                              *)

\* parse: an empty file gives no document and no diagnostic.
parse(p) == IF p.yaml = "broken" THEN <<"TF-C001">> ELSE <<>>

\* validate_schema: one diagnostic for each error.  A document of the wrong shape
\* has at least the type error, and none of the three lists may be empty.
validate_schema(p) ==
    (IF \/ p.yaml = "misshapen"
        \/ p.zones = <<>> \/ p.stations = <<>> \/ p.flows = <<>>
     THEN <<"TF-C013">> ELSE <<>>) \o p.schema_errors

\* Mutant: flows are not resolved.
ReferencesOfStations(p) ==
    FlattenSeq([i \in DOMAIN p.stations |->
        IF p.stations[i].zone \notin ToSet(p.zones) THEN <<"TF-C106">> ELSE <<>>])

check_references(p) ==
    LET declared == {p.stations[i].id : i \in DOMAIN p.stations}
    IN  FlattenSeq([i \in DOMAIN p.stations |->
            IF p.stations[i].zone \notin ToSet(p.zones) THEN <<"TF-C106">> ELSE <<>>])
        \o FlattenSeq([i \in DOMAIN p.flows |->
            IF p.flows[i] \notin declared THEN <<"TF-C101">> ELSE <<>>])

check_plausibility(p) ==
    FlattenSeq([i \in DOMAIN p.stations |->
        IF p.stations[i].capacity = 0 THEN <<"TF-C301">> ELSE <<>>])

\* load_facility: how it ends, and the diagnostics it carries.  References are
\* resolved only in a document that matched its schema, and plausibility is
\* looked at in any document, so that one of another shape ends the load with an
\* AttributeError and loses the diagnostics of the schema.
load_facility(p, strict) ==
    LET shaped  == validate_schema(p)
        found   == shaped \o (IF HasError(shaped) THEN <<>> ELSE check_references(p))
                          \o check_plausibility(p)
    IN  CASE p.yaml \in {"broken", "empty"} -> [end |-> "config_error", codes |-> parse(p)]
          [] p.yaml = "misshapen"           -> [end |-> "attribute_error", codes |-> <<>>]
          [] OTHER ->
                [end   |-> IF HasError(found) \/ (strict /\ found # <<>>)
                           THEN "config_error" ELSE "loaded",
                 codes |-> found]
-----------------------------------------------------------------------------
(* The metric registry.  An entry: [id, form, deprecated, deprecated_in];  *)
(* METRIC_ID ends in $, so an id with a newline after it matches too.      *)

MetricForms == {"dotted", "dotted_newline", "other"}

check_metric_rules(ms) ==
    FlattenSeq([i \in DOMAIN ms |->
        (IF ms[i].form = "other" THEN <<"TF-C153">> ELSE <<>>)
        \o (IF \E j \in 1..i - 1 : ms[j].id = ms[i].id THEN <<"TF-C150">> ELSE <<>>)
        \o (IF ms[i].deprecated /\ ~ms[i].deprecated_in THEN <<"TF-C155">> ELSE <<>>)])

\* The rules run on any document, whatever the schema found.
load_metrics(ms) ==
    [end |-> IF check_metric_rules(ms) # <<>> THEN "config_error" ELSE "loaded",
     codes |-> check_metric_rules(ms)]

\* resolve_spec_limits: the keys that no entry declares.
resolve_spec_limits(keys, ms) == {k \in keys : \A i \in DOMAIN ms : ms[i].id # k}
-----------------------------------------------------------------------------
(* An author edits the files between two loads.                            *)

ConfigInit ==
    /\ \E z \in ZoneNames, id \in StationNames :
           profile = [yaml |-> "mapping", schema_errors |-> <<>>, zones |-> <<z>>,
                      stations |-> <<[id |-> id, zone |-> z, capacity |-> 1]>>,
                      flows |-> <<id>>]
    /\ metrics = <<>> /\ limits = {} /\ edits = 0

EditProfile(p) == edits < MaxEdits /\ edits' = edits + 1 /\ profile' = p
                  /\ UNCHANGED <<metrics, limits>>

AddZone(z) == EditProfile([profile EXCEPT !.zones = Append(@, z)])
DropZone   == profile.zones # <<>> /\ EditProfile([profile EXCEPT !.zones = Tail(@)])
AddStation(s) == EditProfile([profile EXCEPT !.stations = Append(@, s)])
DropStation == profile.stations # <<>> /\ EditProfile([profile EXCEPT !.stations = Tail(@)])
AddFlow(s)  == EditProfile([profile EXCEPT !.flows = Append(@, s)])
Misspell(code) == EditProfile([profile EXCEPT !.schema_errors = Append(@, code)])
Reshape(y)  == EditProfile([profile EXCEPT !.yaml = y])

AddMetric(m) ==
    /\ edits < MaxEdits /\ edits' = edits + 1
    /\ metrics' = Append(metrics, m)
    /\ UNCHANGED <<profile, limits>>

AddLimit(k) ==
    /\ k \notin limits
    /\ limits' = limits \cup {k}
    /\ UNCHANGED <<profile, metrics, edits>>

ProfileNext ==
    \/ \E z \in ZoneNames : AddZone(z)
    \/ DropZone \/ DropStation
    \/ \E id \in StationNames, z \in ZoneNames, c \in 0..1 :
           AddStation([id |-> id, zone |-> z, capacity |-> c])
    \/ \E id \in StationNames : AddFlow(id)
    \/ \E code \in {"TF-C011", "TF-C012", "TF-C013"} : Misspell(code)
    \/ \E y \in Yaml : Reshape(y)

\* The two files are loaded by themselves.
MetricsNext ==
    \/ \E id \in MetricIds, f \in MetricForms, d, i \in BOOLEAN :
           AddMetric([id |-> id, form |-> f, deprecated |-> d, deprecated_in |-> i])
    \/ \E k \in MetricIds : AddLimit(k)
-----------------------------------------------------------------------------
(* Properties.                                                             *)

\* A profile that loads has no dangling name in it, and what its caller is handed
\* are warnings; a strict load hands none; a profile of the wrong shape is not
\* told of references as well.
LoadedIsResolved ==
    \A strict \in BOOLEAN :
        LET r == load_facility(profile, strict)
        IN  /\ r.end = "loaded" =>
                 /\ \A i \in DOMAIN profile.stations :
                        profile.stations[i].zone \in ToSet(profile.zones)
                 /\ \A i \in DOMAIN profile.flows :
                        \E j \in DOMAIN profile.stations :
                            profile.stations[j].id = profile.flows[i]
                 /\ ToSet(r.codes) \subseteq Warnings
                 /\ strict => r.codes = <<>>
            /\ validate_schema(profile) # <<>> =>
                 ToSet(r.codes) \cap {"TF-C101", "TF-C106"} = {}

\* In a registry that loads an id names one entry, and a spec limit resolves to
\* exactly one, or is reported.
LimitsNameOneMetric ==
    load_metrics(metrics).end = "loaded" =>
        \A k \in limits :
            Cardinality({i \in DOMAIN metrics : metrics[i].id = k}) =
                IF k \in resolve_spec_limits(limits, metrics) THEN 0 ELSE 1

\* What the two loaders let through (load_facility, load_metrics).
ConfigIsResolved == LoadedIsResolved /\ LimitsNameOneMetric
=============================================================================
