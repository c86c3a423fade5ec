----------------------------- MODULE SchemaCompat -----------------------------
(***************************************************************************)
(* compare_schemas of twinflow.schemas (compat.py): what it reports of a   *)
(* new version of an event schema, and the versions of one major that are  *)
(* published when it reports nothing.                                      *)
(*                                                                         *)
(* A schema is a function from property names to records.  A keyword that  *)
(* is absent is <<>>, one that is present the sequence of its value; one   *)
(* lower and one upper bound stand for the four of each kind.  A finding   *)
(* is the property with the rule, its wording is left out.                 *)
(***************************************************************************)
EXTENDS Integers, Sequences, FiniteSets

CONSTANTS
    PropertyNames,
    PropertyForms,     \* the records a property may have
    Values,            \* the numbers an event may carry
    MaxVersions        \* bound on the versions of the major

VARIABLES versions     \* the versions published, oldest first

Absent == <<>>

\* A property is required or not, and a bound is a number.
ASSUME SchemaAssumption ==
    \A p \in PropertyForms :
        /\ p.required \in BOOLEAN
        /\ \A bound_of \in {p.lower, p.upper} : bound_of # Absent => bound_of[1] \in Int

\* _nullable
nullable(p) == p.type = "null" \/ p.any_of_null

\* The rules for one bound; wider(a, b) is "a admits more than b".
BoundFindings(before, after, open, wider(_, _)) ==
    CASE before # Absent /\ after # Absent ->
             (IF wider(before[1], after[1]) THEN {"narrowed"} ELSE {})
             \cup (IF wider(after[1], before[1]) /\ ~open THEN {"widened"} ELSE {})
      [] before # Absent /\ after = Absent /\ ~open -> {"dropped"}
      [] OTHER -> {}

\* The loop over the properties that both versions have.
PropertyFindings(before, after) ==
    (IF before.type # after.type THEN {"type changed"} ELSE {})
    \cup (IF before.enum # Absent /\ after.enum # Absent
          THEN (IF before.enum[1] \ after.enum[1] # {} THEN {"members removed"} ELSE {})
               \cup (IF after.enum[1] \ before.enum[1] # {} /\ ~before.open_enum
                     THEN {"members added"} ELSE {})
          ELSE {})
    \cup BoundFindings(before.lower, after.lower, before.open_range, LAMBDA a, b : a < b)
    \cup BoundFindings(before.upper, after.upper, before.open_range, LAMBDA a, b : a > b)
    \cup (IF before.pattern # Absent /\ before.pattern # after.pattern
          THEN {"pattern changed"} ELSE {})
    \cup (IF before.required /\ ~after.required THEN {"now optional"} ELSE {})
    \cup (IF ~before.required /\ after.required THEN {"now required"} ELSE {})

AddedFindings(p) ==
    IF p.required THEN {"added as required"}
    ELSE IF ~p.default /\ ~nullable(p) THEN {"added without a default"} ELSE {}

compare_schemas(old, new) ==
    {<<n, "removed">> : n \in DOMAIN old \ DOMAIN new}
    \cup (UNION {{<<n, f>> : f \in PropertyFindings(old[n], new[n])} :
                 n \in DOMAIN old \cap DOMAIN new})
    \cup (UNION {{<<n, f>> : f \in AddedFindings(new[n])} : n \in DOMAIN new \ DOMAIN old})
-----------------------------------------------------------------------------
Schemas == UNION {[names -> PropertyForms] : names \in SUBSET PropertyNames}

SchemaInit == \E s \in Schemas : versions = <<s>>

Newest == versions[Len(versions)]

\* A version of the same major is published when nothing is reported of it
\* against the one before it.
PublishVersion(s) ==
    /\ Len(versions) < MaxVersions
    /\ s # Newest
    /\ compare_schemas(Newest, s) = {}
    /\ versions' = Append(versions, s)

SchemaNext == \E s \in Schemas : PublishVersion(s)
-----------------------------------------------------------------------------
(* What a consumer is promised.                                            *)

\* The schema takes this value for the property.
InBounds(p, v) == (p.lower # Absent => p.lower[1] <= v) /\ (p.upper # Absent => v <= p.upper[1])

Oldest == versions[1]

\* A field of the oldest version is in every later one, with its type and as
\* required as it was, and what is added is optional: an event of an old
\* producer has every field that a new consumer may insist on, and an event of a
\* new producer every field that an old consumer insists on.
RequiredStands ==
    \A i \in DOMAIN versions :
        /\ DOMAIN Oldest \subseteq DOMAIN versions[i]
        /\ \A n \in DOMAIN versions[i] :
               IF n \in DOMAIN Oldest
               THEN /\ versions[i][n].required = Oldest[n].required
                    /\ versions[i][n].type = Oldest[n].type
               ELSE ~versions[i][n].required

\* The range of a field that no version opened is the range of the oldest, and so
\* no value outside it is published (rule "Widen a range on a closed-range field").
ClosedRangesStand ==
    \A n \in DOMAIN Oldest :
        (\A i \in DOMAIN versions : ~versions[i][n].open_range) =>
            \A v \in Values : InBounds(Newest[n], v) => InBounds(Oldest[n], v)

\* What compare_schemas keeps through a chain of versions that it accepts.
MajorIsStable == RequiredStands /\ ClosedRangesStand
=============================================================================
