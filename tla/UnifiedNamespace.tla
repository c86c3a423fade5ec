--------------------------- MODULE UnifiedNamespace ---------------------------
(***************************************************************************)
(* The unified namespace of twinflow.config (_impl/uns.py): the six-level  *)
(* telemetry address, its renderings, and the projection of a facility     *)
(* mapping onto the list of its addresses.                                 *)
(*                                                                         *)
(* A name is a model value of a small set; what the two patterns and the   *)
(* checks before them make of it is its form.  A topic is the sequence of  *)
(* its levels, as in TopicFilters.                                         *)
(***************************************************************************)
EXTENDS TopicFilters

CONSTANTS
    FormOf,        \* from names to the forms below
    NameRank,      \* the order of the names as strings
    ParameterLists, EquipmentIds, LineIds, AreaIds, Enterprises,
    MaxDeclared    \* bound on the equipment that a facility declares

TOPIC_LEVELS == 6

\* kebab: dc-01, snake: read_rate, plain: dc01, which both patterns take; other:
\* over-long, capitals, a separator, a colon, a trailing newline.
Forms == {"kebab", "snake", "plain", "wildcard", "empty", "not_string", "other"}

LevelNames == DOMAIN FormOf

\* A wildcard is no name that passes, as _check_no_wildcard sees to.
ASSUME NamespaceAssumption ==
    /\ FormOf \in [LevelNames -> Forms]
    /\ NameRank \in [LevelNames -> Nat]
    /\ \A m, n \in LevelNames : NameRank[m] = NameRank[n] => m = n
    /\ \A n \in LevelNames \cap {SINGLE_LEVEL, MULTI_LEVEL} : FormOf[n] = "wildcard"
    /\ EquipmentIds \cup LineIds \cup AreaIds \cup Enterprises \subseteq LevelNames
    /\ ParameterLists \subseteq Seq(LevelNames)

VARIABLES
    facility       \* the mapping: [enterprise, site, equipment], the equipment in
                   \* the order of its nested lists, [area, line, equipment, parameters];
                   \* an area or a line without equipment declares no address

NamingOK == "ok"
-----------------------------------------------------------------------------
(* The checks, by the code of the first one that fails.                    *)

\* _check_present, then _check_no_wildcard
PresentAndLiteral(name) ==
    CASE FormOf[name] \in {"not_string", "empty"} -> "TF-S001"
      [] FormOf[name] = "wildcard"                -> "TF-S002"
      [] OTHER                                    -> NamingOK

\* UnsPath.is_identifier and UnsPath.is_parameter
is_identifier(name) == FormOf[name] \in {"kebab", "plain"}
is_parameter(name)  == FormOf[name] \in {"snake", "plain"}

check_identifier(name) ==
    IF PresentAndLiteral(name) # NamingOK THEN PresentAndLiteral(name)
    ELSE IF is_identifier(name) THEN NamingOK ELSE "TF-S003"

check_parameter(name) ==
    IF PresentAndLiteral(name) # NamingOK THEN PresentAndLiteral(name)
    ELSE IF is_parameter(name) THEN NamingOK ELSE "TF-S004"

LevelChecks(levels) ==
    [i \in DOMAIN levels |->
        IF i = TOPIC_LEVELS THEN check_parameter(levels[i]) ELSE check_identifier(levels[i])]

\* The first check of a sequence that fails, or "ok".
FirstFailure(checks) ==
    LET failed == {i \in DOMAIN checks : checks[i] # NamingOK}
    IN  IF failed = {} THEN NamingOK ELSE checks[Min(failed)]

\* UnsPath.__post_init__: the five identifiers in order, then the parameter.
UnsPathCheck(levels) == FirstFailure(LevelChecks(levels))
-----------------------------------------------------------------------------
(* Renderings and builders.  A path is the sequence of its six levels.     *)

\* parse: the depth is looked at first.
ParseCheck(topic) == IF Len(topic) # TOPIC_LEVELS THEN "TF-S005" ELSE UnsPathCheck(topic)

\* from_prefix
FromPrefixCheck(prefix, parameter) ==
    IF Len(prefix) # TOPIC_LEVELS - 1 THEN "TF-S008"
    ELSE UnsPathCheck(Append(prefix, parameter))

\* with_equipment and with_parameter
Replaced(path, level, name) == [path EXCEPT ![level] = name]

SubscriptionCheck(depth) == IF depth \in 1..TOPIC_LEVELS THEN NamingOK ELSE "TF-S007"

subscription(path, depth) ==
    IF depth = TOPIC_LEVELS THEN path ELSE Append(SubSeq(path, 1, depth), MULTI_LEVEL)
-----------------------------------------------------------------------------
(* from_facility                                                           *)

\* sorted by topic.  No name of an instance is a proper prefix of another, so the
\* order of two topics as strings is the order of the first levels that differ.
TopicBefore(p, q) ==
    \E i \in 1..TOPIC_LEVELS :
        /\ \A j \in 1..i - 1 : p[j] = q[j]
        /\ NameRank[p[i]] < NameRank[q[i]]

\* The checks in the order of the nested loops: _required of an enterprise, a
\* site and every container on the way down, and then each path.
FacilityChecks(f) ==
    LET OfEquipment(e) ==
            [i \in 1..3 |-> check_identifier(<<e.area, e.line, e.equipment>>[i])]
            \o [k \in DOMAIN e.parameters |-> check_parameter(e.parameters[k])]
    IN  <<check_identifier(f.enterprise), check_identifier(f.site)>>
        \o FlattenSeq([i \in DOMAIN f.equipment |-> OfEquipment(f.equipment[i])])

FacilityCheck(f) == FirstFailure(FacilityChecks(f))

\* The parameters a facility declares, each by the places of its equipment and its own.
Declared(f) == UNION {{i} \X DOMAIN f.equipment[i].parameters : i \in DOMAIN f.equipment}

PathOf(f, place) ==
    LET e == f.equipment[place[1]]
    IN  <<f.enterprise, f.site, e.area, e.line, e.equipment, e.parameters[place[2]]>>

DeclaredPaths(f) == {PathOf(f, place) : place \in Declared(f)}

\* sorted() of the list of paths: the one at n has fewer than n before it and at least
\* n that are not behind it.
from_facility(f) ==
    LET Before(p)    == {place \in Declared(f) : TopicBefore(PathOf(f, place), p)}
        NotBehind(p) == {place \in Declared(f) : ~TopicBefore(p, PathOf(f, place))}
    IN  [n \in 1..Cardinality(Declared(f)) |->
            CHOOSE p \in DeclaredPaths(f) :
                Cardinality(Before(p)) < n /\ n <= Cardinality(NotBehind(p))]
-----------------------------------------------------------------------------
(* A facility grows by one piece of equipment at a time, as a profile is   *)
(* written.                                                                *)

NamespaceInit ==
    \E e, s \in Enterprises : facility = [enterprise |-> e, site |-> s, equipment |-> <<>>]

Declare(e) ==
    /\ Len(facility.equipment) < MaxDeclared
    /\ facility' = [facility EXCEPT !.equipment = Append(@, e)]

NamespaceNext ==
    \E a \in AreaIds, l \in LineIds, q \in EquipmentIds, ps \in ParameterLists :
        Declare([area |-> a, line |-> l, equipment |-> q, parameters |-> ps])
-----------------------------------------------------------------------------
(* Properties.                                                             *)

Projected == ToSet(from_facility(facility))

\* Every address of an accepted facility reads back as itself, and takes
\* no wildcard and no empty level with it.
AddressesRoundTrip ==
    \A p \in Projected : ParseCheck(p) = NamingOK /\ FrameTopic(p)
                         /\ FromPrefixCheck(SubSeq(p, 1, 5), p[6]) = NamingOK

\* A subscription at a depth delivers, by the rule that the bus matches with,
\* exactly the addresses that share that many levels.
SubscriptionsCover ==
    \A p, q \in Projected, depth \in 1..TOPIC_LEVELS :
        /\ SubscriptionCheck(depth) = NamingOK
        /\ FilterLevels(subscription(p, depth))
        /\ topic_matches(subscription(p, depth), q) <=>
               SubSeq(p, 1, depth) = SubSeq(q, 1, depth)
        /\ depth = TOPIC_LEVELS =>
               ~topic_matches(subscription(p, depth), Append(q, q[1]))

\* Two processes that read the same equipment in another order assign the same
\* aliases: the list does not depend on the order of the mapping.
OrderDoesNotMatter ==
    LET mirrored == [facility EXCEPT !.equipment = Reverse(@)]
    IN  /\ (FacilityCheck(facility) = NamingOK) = (FacilityCheck(mirrored) = NamingOK)
        /\ FacilityCheck(facility) = NamingOK =>
               from_facility(facility) = from_facility(mirrored)

\* The namespace is a projection of the facility (from_facility, subscription, parse).
NamespaceIsTheFacility ==
    /\ OrderDoesNotMatter
    /\ FacilityCheck(facility) = NamingOK => AddressesRoundTrip /\ SubscriptionsCover
=============================================================================
