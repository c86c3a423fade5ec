----------------------------- MODULE RoadmapRules -----------------------------
(***************************************************************************)
(* The rules that the roadmap tool holds a plan to: cycle detection and    *)
(* layering (dag.py), the phase and work package rules of                  *)
(* Roadmap.validate (roadmap.py), the coverage proof (coverage.py) and the *)
(* append-only rule over the requirement register (append_only.py).        *)
(*                                                                         *)
(* A package is [id, phase, wave, depends_on, covers], with covers a set   *)
(* of [id, partial]; a phase is [id, tag, depends_on_phases], with the     *)
(* release tag as one number and 0 for one that is not semver.  A          *)
(* finding is its rule with the ids it names.  Rules that look at one      *)
(* field of one entry (shapes, ids, notes, deliverables, gate fields) are  *)
(* left out.                                                               *)
(***************************************************************************)
EXTENDS Integers, Sequences, SequencesExt, FiniteSetsExt

CONSTANTS
    PHASE_IDS,
    PhaseForms, PackageForms,    \* what may be written at each place of roadmap.yaml
    Requirements,       \* ids of the register
    Quotes,             \* verbatim clauses
    MaxRevisions        \* bound on the edits of the register

VARIABLES
    phase_list, packages,    \* roadmap.yaml
    register                 \* the versions of requirements.yaml, oldest first

rules_vars == <<phase_list, packages, register>>
-----------------------------------------------------------------------------
(* dag.py.  A graph is the sequence of its nodes and the set of targets of *)
(* each; a mapping keeps the place of a key's first entry and the value of *)
(* its last.                                                               *)

Graph(entries, ids(_), targets(_)) ==
    LET names == [i \in DOMAIN entries |-> ids(entries[i])]
        last(n) == Max({i \in DOMAIN entries : names[i] = n})
    IN  [nodes |-> FoldLeft(LAMBDA seen, n : IF n \in ToSet(seen) THEN seen ELSE Append(seen, n),
                            <<>>, names),
         edges |-> [n \in ToSet(names) |-> targets(entries[last(n)])]]

\* Depth first: color 0 is new, 1 on the path, 2 finished.  A cycle is the path
\* from the node that closes it.
cycles(g) ==
    LET Node == DOMAIN g.edges
        State == [color : [Node -> 0..2], path : Seq(Node), found : Seq(Seq(Node))]
        close(s, neighbor) ==
            LET cycle == SubSeq(s.path, SelectInSeq(s.path, LAMBDA n : n = neighbor), Len(s.path))
            IN  IF \E c \in ToSet(s.found) : ToSet(c) = ToSet(cycle) THEN s
                ELSE [s EXCEPT !.found = Append(@, cycle)]
        walk[s \in State, node \in Node] ==
            LET visit(v, neighbor) ==
                    IF neighbor \notin Node THEN v
                    ELSE CASE v.color[neighbor] = 0 -> walk[v, neighbor]
                           [] v.color[neighbor] = 1 -> close(v, neighbor)
                           [] OTHER -> v
                entered == [s EXCEPT !.color[node] = 1, !.path = Append(@, node)]
                left == FoldLeft(visit, entered, SetToSeq(g.edges[node]))
            IN  [left EXCEPT !.path = Front(@), !.color[node] = 2]
        fresh == [color |-> [n \in Node |-> 0], path |-> <<>>, found |-> <<>>]
    IN  FoldLeft(LAMBDA s, n : IF s.color[n] = 0 THEN walk[s, n] ELSE s, fresh, g.nodes).found

\* The nodes that are ready, then those that are ready without them, and so on.
waves(g) ==
    LET layers[remaining \in SUBSET DOMAIN g.edges] ==
            LET ready == {n \in remaining : g.edges[n] \cap remaining = {}}
            IN  IF ready = {} THEN <<>> ELSE <<ready>> \o layers[remaining \ ready]
    IN  layers[DOMAIN g.edges]

is_acyclic(g) == UNION ToSet(waves(g)) = DOMAIN g.edges
-----------------------------------------------------------------------------
(* Roadmap.                                                                *)

PackageGraph == Graph(packages, LAMBDA p : p.id, LAMBDA p : p.depends_on)
PhaseGraph   == Graph(phase_list, LAMBDA p : p.id, LAMBDA p : p.depends_on_phases)

phase_index(id) == SelectInSeq(phase_list, LAMBDA p : p.id = id) - 1

_cycle_findings(g, rule) == {<<rule, c>> : c \in ToSet(cycles(g))}

_validate_phases ==
    LET ids == {p.id : p \in ToSet(phase_list)}
        \* The tag that is compared: of the nearest phase before with a semver tag.
        before(i) == {j \in 1..i - 1 : phase_list[j].tag # 0}
        Rules(i) ==
            LET p == phase_list[i]
            IN  (IF p.id \in PHASE_IDS THEN {} ELSE {<<"PHASE-ID", p.id>>})
                \cup (IF \E j \in 1..i - 1 : phase_list[j].id = p.id THEN {<<"PHASE-DUP", p.id>>} ELSE {})
                \cup {<<"PHASE-DEP", p.id, d>> : d \in p.depends_on_phases \ ids}
                \cup (IF p.tag = 0 THEN {<<"PHASE-TAG", p.id>>}
                      ELSE IF before(i) # {} /\ p.tag <= phase_list[Max(before(i))].tag
                      THEN {<<"PHASE-ORDER", p.id>>} ELSE {})
                \cup (IF \E q \in ToSet(packages) : q.phase = p.id THEN {} ELSE {<<"PHASE-EMPTY", p.id>>})
    IN  UNION {Rules(i) : i \in DOMAIN phase_list} \cup _cycle_findings(PhaseGraph, "PHASE-CYCLE")

_validate_work_packages ==
    LET last(id) == packages[Max({i \in DOMAIN packages : packages[i].id = id})]
        known == {p.id : p \in ToSet(packages)}
        Dependency(p, d) ==
            IF d \notin known THEN {<<"WP-DEP", p.id, d>>}
            ELSE LET here  == phase_index(p.phase)
                     there == phase_index(last(d).phase)
                 IN  IF there > here THEN {<<"WP-PHASE-ORDER", p.id, d>>}
                     ELSE IF there = here /\ last(d).wave >= p.wave THEN {<<"WP-WAVE", p.id, d>>}
                     ELSE {}
        Rules(i) ==
            LET p == packages[i]
            IN  (IF \E j \in 1..i - 1 : packages[j].id = p.id THEN {<<"WP-DUP", p.id>>} ELSE {})
                \cup (IF phase_index(p.phase) < 0 THEN {<<"WP-PHASE", p.id>>} ELSE {})
                \cup UNION {Dependency(p, d) : d \in p.depends_on}
    IN  UNION {Rules(i) : i \in DOMAIN packages} \cup _cycle_findings(PackageGraph, "WP-CYCLE")

validate == _validate_phases \cup _validate_work_packages

topological_waves == waves(PackageGraph)
-----------------------------------------------------------------------------
(* check_coverage.  Entries are sorted by the place of their package in    *)
(* the file (of the last one with its id), its id and the entry itself,    *)
(* which has no order: two entries of one place that differ end the check  *)
(* with a TypeError.                                                       *)

placed_at(i) == Max({j \in DOMAIN packages : packages[j].id = packages[i].id})

CoverageEntries(r) ==
    UNION {{[at |-> placed_at(i), cover |-> c] : c \in {c \in packages[i].covers : c.id = r}} :
           i \in DOMAIN packages}

finals(r) == {i \in DOMAIN packages : [id |-> r, partial |-> FALSE] \in packages[i].covers}

check_coverage ==
    LET Rules(r) ==
            LET entries == CoverageEntries(r)
            IN  IF entries = {} THEN {<<"COV-UNPLACED", r>>}
                ELSE IF \E e, f \in entries : e.at = f.at /\ e.cover # f.cover THEN {<<"TypeError", r>>}
                ELSE IF Cardinality(finals(r)) # 1 THEN {<<"COV-PARTIAL", r>>}
                ELSE IF \E i \in finals(r), e \in entries : placed_at(i) < e.at THEN {<<"COV-LAST", r>>}
                ELSE {}
    IN  UNION {Rules(r) : r \in Requirements}
-----------------------------------------------------------------------------
(* check_append_only: a register is a function from ids to quotes, which   *)
(* are <<>> when there is none.                                            *)

check_append_only(before, after) ==
    {<<"APPEND-REMOVED", r>> : r \in DOMAIN before \ DOMAIN after}
    \cup {<<"APPEND-QUOTE", r>> :
            r \in {r \in DOMAIN before \cap DOMAIN after : before[r] # <<>> /\ before[r] # after[r]}}
-----------------------------------------------------------------------------
RulesInit == phase_list = <<>> /\ packages = <<>> /\ register = <<>>

AddPhase(p) ==
    /\ phase_list' = Append(phase_list, p)
    /\ UNCHANGED <<packages, register>>

AddPackage(p) ==
    /\ packages' = Append(packages, p)
    /\ UNCHANGED <<phase_list, register>>

Registers == UNION {[ids -> {<<>>} \cup {<<q>> : q \in Quotes}] : ids \in SUBSET Requirements}

\* An edit of the register that the check accepts.
ReviseRegister(after) ==
    /\ phase_list = <<>> /\ Len(register) < MaxRevisions
    /\ register # <<>> => check_append_only(Last(register), after) = {}
    /\ register' = Append(register, after)
    /\ UNCHANGED <<phase_list, packages>>

\* roadmap.yaml is written from its top, and requirements.yaml by itself.
RulesNext ==
    \/ /\ Len(phase_list) < Len(PhaseForms) /\ register = <<>>
       /\ \E p \in PhaseForms[Len(phase_list) + 1] : AddPhase(p)
    \/ /\ Len(phase_list) = Len(PhaseForms) /\ Len(packages) < Len(PackageForms)
       /\ \E p \in PackageForms[Len(packages) + 1] : AddPackage(p)
    \/ \E after \in Registers : ReviseRegister(after)
-----------------------------------------------------------------------------
(* Properties.                                                             *)

\* The nodes on a path of at least one edge from a node, by the definition.
Reached(g, node) ==
    LET onward(from) == UNION {g.edges[n] : n \in from} \cap DOMAIN g.edges
        one   == onward({node})
        two   == one \cup onward(one)
        three == two \cup onward(two)
    IN  three

\* cycles and is_acyclic answer one question, and as the graph is: what cycles
\* reports are cycles, and waves takes a node in the layer after the last of its
\* targets and leaves out exactly what cannot be ordered.
GraphsAreRead(g) ==
    LET found == cycles(g)
        layer == waves(g)
        LayerOf(n) == {i \in DOMAIN layer : n \in layer[i]}
        loops(n) == n \in Reached(g, n)
    IN  /\ (found = <<>>) = \A n \in DOMAIN g.edges : ~loops(n)
        /\ (found = <<>>) = is_acyclic(g)
        /\ \A c \in ToSet(found) : \A i \in DOMAIN c : c[(i % Len(c)) + 1] \in g.edges[c[i]]
        /\ \A n \in DOMAIN g.edges :
              /\ Cardinality(LayerOf(n)) <= 1
              /\ (LayerOf(n) = {}) = \E m \in Reached(g, n) \cup {n} : loops(m)
              /\ \A i \in LayerOf(n) : \A d \in g.edges[n] \cap DOMAIN g.edges :
                    \E j \in 1..i - 1 : j \in LayerOf(d)

\* A plan that validates can be built by phase and wave: what a package depends on
\* comes strictly before it, phases are named once and their releases rise.
ValidIsBuildable ==
    validate = {} =>
        /\ \A i, j \in DOMAIN packages :
              packages[j].id \in packages[i].depends_on =>
                  LET here == phase_index(packages[i].phase)
                      there == phase_index(packages[j].phase)
                  IN  there < here \/ (there = here /\ packages[j].wave < packages[i].wave)
        /\ \A i, j \in DOMAIN phase_list :
              i < j => phase_list[i].tag < phase_list[j].tag /\ phase_list[i].id # phase_list[j].id
        /\ UNION ToSet(topological_waves) = {p.id : p \in ToSet(packages)}

\* A plan that passes the coverage proof finishes each requirement once, after every
\* other package that works on it.
CoveredOnce ==
    check_coverage = {} /\ validate = {} =>
        \A r \in Requirements :
            \E i \in DOMAIN packages :
                /\ [id |-> r, partial |-> FALSE] \in packages[i].covers
                /\ \A j \in DOMAIN packages, c \in UNION {p.covers : p \in ToSet(packages)} :
                      c \in packages[j].covers /\ c.id = r /\ j # i => c.partial /\ j < i

\* No id and no quote is ever lost, through any number of edits that are accepted.
RegisterOnlyGrows ==
    \A i, j \in DOMAIN register :
        i < j => /\ DOMAIN register[i] \subseteq DOMAIN register[j]
                 /\ \A r \in DOMAIN register[i] :
                       register[i][r] # <<>> => register[j][r] = register[i][r]

\* dag.py, roadmap.py, coverage.py, append_only.py: what a plan that passes promises.
PlanIsSound ==
    GraphsAreRead(PackageGraph) /\ ValidIsBuildable /\ CoveredOnce /\ RegisterOnlyGrows
=============================================================================
