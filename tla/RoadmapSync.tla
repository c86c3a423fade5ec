----------------------------- MODULE RoadmapSync -----------------------------
(***************************************************************************)
(* The roadmap tool's projection of roadmap.yaml onto the issue tracker:   *)
(* build_plan and apply_plan (sync.py), the command around them (cli.py)   *)
(* and the drift check (drift.py).                                         *)
(*                                                                         *)
(* A run of `sync --apply` reads the roadmap, then the milestones, the     *)
(* labels and the issues with a call of gh each, plans every operation and *)
(* performs them one by one.  Runs of several people and of the release    *)
(* workflow may overlap, the roadmap and the tracker are edited meanwhile, *)
(* and every call of gh may fail or outlast its timeout.                   *)
(*                                                                         *)
(* A package is [id, phase, wave, title, status, covers].  A label is its  *)
(* prefix and its value, so <<"", "moved">> is the one without a prefix;   *)
(* brick: and gate: labels behave as req: ones and are left out.  A body   *)
(* is what it is composed of.                                              *)
(***************************************************************************)
EXTENDS Integers, Sequences, SequencesExt, FiniteSetsExt

CONSTANTS
    Phases,            \* the phases of roadmap.yaml, in order
    TierOf,            \* the tier of each requirement
    Roadmaps,          \* the plans that roadmap.yaml may hold: sequences of packages
    SyncConfigs,       \* [banned_labels, dry_run_default, allowed_apply_contexts]
    ApplyContexts,     \* values of --context
    Runners,           \* runs of the tool that may overlap
    ListLimit,         \* --limit of the calls that list issues
    MaxSyncs, MaxTrackerEdits, MaxFailures

Checkout == "checkout"    \* a run without --context

ASSUME ListLimitAssumption == ListLimit \in Nat \ {0} /\ Checkout \notin ApplyContexts

VARIABLES
    config,            \* .roadmap-sync.yaml
    roadmap,           \* the packages in roadmap.yaml
    milestones,        \* the tracker: title -> description
    labels,            \* the labels of the repository
    issues,            \* [title, body, labels, state, reason], by number
    syncs,             \* the runs of the tool
    started, tracker_edits, failures,
    settled,           \* <<n>> when a checkout's apply has ended with 0 and nothing else
                       \* changed since it began; n issues were there when it read them
    overlapped,        \* two runs have overlapped
    unattended         \* the contexts that changed the tracker

tracker == <<milestones, labels, issues>>
sync_vars == <<config, roadmap, tracker, syncs, started, tracker_edits, failures, settled,
               overlapped, unattended>>
-----------------------------------------------------------------------------
(* What roadmap.yaml asks for.                                             *)

LABEL_PREFIXES == {"phase:", "req:", "tier:", "wave:"}

issue_title(p) == <<p.phase, p.id, p.title>>

\* The plans are those that `roadmap check` passes: it refuses an id that appears twice
\* (WP-DUP), which `sync` itself does not look for.
ASSUME RoadmapAssumption ==
    /\ Phases \in Seq(Range(Phases))
    /\ \A plan \in Roadmaps :
          /\ plan \in Seq(Range(plan))
          /\ \A i, j \in DOMAIN plan : issue_title(plan[i]) = issue_title(plan[j]) => i = j
          /\ \A i \in DOMAIN plan : IsFiniteSet(plan[i].covers)

labels_for(p) ==
    {<<"phase:", p.phase>>, <<"wave:", p.wave>>}
    \cup {<<"req:", r>> : r \in p.covers}
    \cup {<<"tier:", TierOf[r]>> : r \in p.covers}
    \cup (IF p.status = "reordered" THEN {<<"", "moved">>} ELSE {})

\* The number of work packages is the part of a milestone's body that the plan moves.
milestone_body(plan, phase) == Cardinality({i \in DOMAIN plan : plan[i].phase = phase})

issue_body(p) == <<p.title, p.phase, p.wave, p.covers>>
-----------------------------------------------------------------------------
(* build_plan, a part for each of the three reads.  An operation is its    *)
(* kind, what it does, and the arguments of its call.                      *)

MilestoneOperations(plan, present) ==
    FlattenSeq([i \in DOMAIN Phases |->
        LET body == milestone_body(plan, Phases[i])
        IN  IF Phases[i] \notin DOMAIN present
            THEN <<[kind |-> "milestone", does |-> "create", title |-> Phases[i], body |-> body]>>
            ELSE IF present[Phases[i]] # body
            THEN <<[kind |-> "milestone", does |-> "describe", title |-> Phases[i], body |-> body]>>
            ELSE <<>>])

LabelOperations(plan, held) ==
    LET wanted == UNION {labels_for(plan[i]) : i \in DOMAIN plan}
    IN  SetToSeq({[kind |-> "label", does |-> "create", label |-> l] : l \in wanted \ held})

\* gh lists the newest issues first, and the last one listed under a title is kept.
Listed(all) == {i \in DOMAIN all : i > Len(all) - ListLimit}
NumbersOf(all, title) == {i \in Listed(all) : all[i].title = title}

\* The labels that are compared with the plan.
actual_labels(issue) == {l \in issue.labels : l[1] \in LABEL_PREFIXES}

PackageOperations(p, all) ==
    LET numbers == NumbersOf(all, issue_title(p))
        n       == Min(numbers)
        Edit(does, to) == <<[kind |-> "issue", does |-> does, number |-> n, to |-> to]>>
    IN  IF numbers = {}
        THEN <<[kind |-> "issue", does |-> "open", title |-> issue_title(p),
                to |-> issue_body(p), labels |-> labels_for(p), milestone |-> p.phase]>>
        ELSE (IF actual_labels(all[n]) # labels_for(p) THEN Edit("relabel", labels_for(p)) ELSE <<>>)
             \o (IF all[n].body # issue_body(p) THEN Edit("rewrite", issue_body(p)) ELSE <<>>)
             \o (IF p.status = "done" /\ all[n].state = "OPEN" THEN Edit("close", "COMPLETED")
                 ELSE <<>>)

IssueOperations(plan, all) ==
    FlattenSeq([i \in DOMAIN plan |-> PackageOperations(plan[i], all)])

\* The plan of a run whose three reads see one tracker.
build_plan(plan) ==
    MilestoneOperations(plan, milestones) \o LabelOperations(plan, labels)
    \o IssueOperations(plan, issues)

\* plan.unexplained: reported, and left alone.
unexplained ==
    {i \in Listed(issues) : /\ \A j \in DOMAIN roadmap : issue_title(roadmap[j]) # issues[i].title
                            /\ \E l \in issues[i].labels : l[1] = "req:"}
-----------------------------------------------------------------------------
(* command_sync.                                                           *)

NoRun == [at |-> "idle"]
Running(r) == syncs[r].at \notin {"idle", "ended", "blocked", "raised"}

\* The other runs have seen a tracker or a roadmap that is no longer there.
Disturb(except) ==
    [q \in Runners |-> IF q # except /\ Running(q) THEN [syncs[q] EXCEPT !.clean = FALSE]
                       ELSE syncs[q]]

\* The run loads roadmap.yaml and reads the milestones.
BeginSync(r, context) ==
    /\ ~Running(r) /\ started < MaxSyncs
    /\ started' = started + 1
    /\ syncs' = [syncs EXCEPT ![r] =
                    [at |-> "labels", context |-> context, plan |-> roadmap, refused |-> FALSE,
                     clean |-> \A q \in Runners : ~Running(q), seen |-> 0,
                     ops |-> MilestoneOperations(roadmap, milestones)]]
    /\ overlapped' = (overlapped \/ \E q \in Runners : Running(q))
    /\ UNCHANGED <<config, roadmap, tracker, tracker_edits, failures, settled, unattended>>

\* A read fails: the plan is skipped, and with --apply the run is BLOCKED.
ReadFails(r) ==
    /\ syncs[r].at \in {"labels", "issues"} /\ failures < MaxFailures
    /\ failures' = failures + 1
    /\ syncs' = [syncs EXCEPT ![r].at = "blocked"]
    /\ UNCHANGED <<config, roadmap, tracker, started, tracker_edits, settled, overlapped, unattended>>

ReadLabels(r) ==
    /\ syncs[r].at = "labels"
    /\ syncs' = [syncs EXCEPT ![r].at = "issues", ![r].ops = @ \o LabelOperations(syncs[r].plan, labels)]
    /\ UNCHANGED <<config, roadmap, tracker, started, tracker_edits, failures, settled,
                   overlapped, unattended>>

ReadIssues(r) ==
    /\ syncs[r].at = "issues"
    /\ syncs' = [syncs EXCEPT ![r].at = "apply", ![r].seen = Len(issues),
                              ![r].ops = @ \o IssueOperations(syncs[r].plan, issues)]
    /\ UNCHANGED <<config, roadmap, tracker, started, tracker_edits, failures, settled,
                   overlapped, unattended>>

\* Without --apply the plan is printed.
DryRun(r) ==
    /\ syncs[r].at = "apply" /\ syncs[r].ops # <<>>
    /\ syncs' = [syncs EXCEPT ![r] = [NoRun EXCEPT !.at = "ended"]]
    /\ UNCHANGED <<config, roadmap, tracker, started, tracker_edits, failures, settled,
                   overlapped, unattended>>
-----------------------------------------------------------------------------
(* apply_plan.                                                             *)

permitted(context, kind) ==
    \/ context = Checkout
    \/ kind \in {"milestone", "label"} /\ context \in config.allowed_apply_contexts

\* What gh makes of a call (external): no second milestone or label of a name, and
\* no label or milestone on an issue that the repository does not hold.
gh_accepts(op) ==
    CASE op.kind = "milestone" -> (op.does = "create") = (op.title \notin DOMAIN milestones)
      [] op.kind = "label"     -> op.label \notin labels
      [] op.does = "open"      -> op.labels \subseteq labels /\ op.milestone \in DOMAIN milestones
      [] op.does = "relabel"   -> op.to \subseteq labels
      [] OTHER                 -> TRUE

gh_call(op) ==
    /\ milestones' = IF op.kind = "milestone"
                     THEN [t \in DOMAIN milestones \cup {op.title} |->
                              IF t = op.title THEN op.body ELSE milestones[t]]
                     ELSE milestones
    /\ labels' = IF op.kind = "label" THEN labels \cup {op.label} ELSE labels
    /\ issues' =
          IF op.kind # "issue" THEN issues
          ELSE CASE op.does = "open" ->
                        Append(issues, [title |-> op.title, body |-> op.to, labels |-> op.labels,
                                        state |-> "OPEN", reason |-> ""])
                 [] op.does = "relabel" -> [issues EXCEPT ![op.number].labels = @ \cup op.to]
                 [] op.does = "rewrite" -> [issues EXCEPT ![op.number].body = op.to]
                 [] op.does = "close"   ->
                        [issues EXCEPT ![op.number].state = "CLOSED", ![op.number].reason = op.to]

NextOperation(r) == syncs[r].at = "apply" /\ syncs[r].ops # <<>>

\* An operation that this context may not perform is refused, and the run goes on.
RefuseOperation(r) ==
    /\ NextOperation(r)
    /\ ~permitted(syncs[r].context, Head(syncs[r].ops).kind)
    /\ syncs' = [syncs EXCEPT ![r].refused = TRUE, ![r].ops = Tail(@)]
    /\ UNCHANGED <<config, roadmap, tracker, started, tracker_edits, failures, settled,
                   overlapped, unattended>>

Perform(r) ==
    /\ NextOperation(r)
    /\ LET op == Head(syncs[r].ops)
       IN  /\ permitted(syncs[r].context, op.kind) /\ gh_accepts(op)
           /\ gh_call(op)
    /\ syncs' = [Disturb(r) EXCEPT ![r].ops = Tail(@)]
    /\ settled' = <<>>
    /\ unattended' = unattended \cup ({syncs[r].context} \ {Checkout})
    /\ UNCHANGED <<config, roadmap, started, tracker_edits, failures, overlapped>>

\* Mutant: a call that fails is not recorded.
CallFailsUnrecorded(r) ==
    /\ NextOperation(r)
    /\ permitted(syncs[r].context, Head(syncs[r].ops).kind)
    /\ IF gh_accepts(Head(syncs[r].ops))
       THEN failures < MaxFailures /\ failures' = failures + 1
       ELSE UNCHANGED failures
    /\ syncs' = [syncs EXCEPT ![r].ops = Tail(@)]
    /\ UNCHANGED <<config, roadmap, tracker, started, tracker_edits, settled, overlapped, unattended>>

\* The call exits with an error, because gh refuses it or for a reason of its own.
CallFails(r) ==
    /\ NextOperation(r)
    /\ permitted(syncs[r].context, Head(syncs[r].ops).kind)
    /\ IF gh_accepts(Head(syncs[r].ops))
       THEN failures < MaxFailures /\ failures' = failures + 1
       ELSE UNCHANGED failures
    /\ syncs' = [syncs EXCEPT ![r].refused = TRUE, ![r].ops = Tail(@)]
    /\ UNCHANGED <<config, roadmap, tracker, started, tracker_edits, settled, overlapped, unattended>>

\* subprocess.run raises TimeoutExpired, which nobody catches; the call may have
\* taken effect.
CallTimesOut(r) ==
    /\ NextOperation(r) /\ failures < MaxFailures
    /\ LET op == Head(syncs[r].ops)
       IN  /\ permitted(syncs[r].context, op.kind)
           /\ \/ gh_accepts(op) /\ gh_call(op)
              \/ UNCHANGED tracker
    /\ failures' = failures + 1
    /\ syncs' = [Disturb(r) EXCEPT ![r] = [NoRun EXCEPT !.at = "raised"]]
    /\ settled' = <<>>
    /\ unattended' = unattended \cup ({syncs[r].context} \ {Checkout})
    /\ UNCHANGED <<config, roadmap, started, tracker_edits, overlapped>>

\* 0 when nothing was refused, or BLOCKED.
EndSync(r) ==
    /\ syncs[r].at = "apply" /\ syncs[r].ops = <<>>
    /\ settled' = IF syncs[r].context = Checkout /\ syncs[r].clean /\ ~syncs[r].refused
                  THEN <<syncs[r].seen>> ELSE settled
    /\ syncs' = [syncs EXCEPT ![r] = [NoRun EXCEPT !.at = IF syncs[r].refused THEN "blocked" ELSE "ended"]]
    /\ UNCHANGED <<config, roadmap, tracker, started, tracker_edits, failures, overlapped, unattended>>
-----------------------------------------------------------------------------
(* Edits by hand, of the plan and of the tracker.                          *)

EditRoadmap(plan) ==
    /\ tracker_edits < MaxTrackerEdits /\ plan # roadmap
    /\ tracker_edits' = tracker_edits + 1
    /\ roadmap' = plan
    /\ syncs' = Disturb("") /\ settled' = <<>>
    /\ UNCHANGED <<config, tracker, started, failures, overlapped, unattended>>

EditTracker(all) ==
    /\ tracker_edits < MaxTrackerEdits
    /\ tracker_edits' = tracker_edits + 1
    /\ issues' = all
    /\ syncs' = Disturb("") /\ settled' = <<>>
    /\ UNCHANGED <<config, roadmap, milestones, labels, started, failures, overlapped, unattended>>

ByHand == <<"by hand">>

HandEdits ==
    \/ EditTracker(Append(issues, [title |-> ByHand, body |-> ByHand, labels |-> {},
                                   state |-> "OPEN", reason |-> ""]))
    \/ \E i \in DOMAIN issues :
          \/ EditTracker([issues EXCEPT ![i].body = ByHand])
          \/ EditTracker([issues EXCEPT ![i].state = "OPEN", ![i].reason = "REOPENED"])
          \/ EditTracker([issues EXCEPT ![i].state = "CLOSED", ![i].reason = "NOT_PLANNED"])
          \/ EditTracker([issues EXCEPT ![i].labels = @ \cup {<<"", "bug">>}])
          \/ \E l \in issues[i].labels : EditTracker([issues EXCEPT ![i].labels = @ \ {l}])
-----------------------------------------------------------------------------
SyncInit ==
    /\ config \in SyncConfigs /\ roadmap \in Roadmaps
    /\ milestones = <<>> /\ labels = {} /\ issues = <<>>
    /\ syncs = [r \in Runners |-> NoRun]
    /\ started = 0 /\ tracker_edits = 0 /\ failures = 0
    /\ settled = <<>> /\ overlapped = FALSE /\ unattended = {}

SyncNext ==
    \/ \E r \in Runners :
          \/ \E c \in ApplyContexts \cup {Checkout} : BeginSync(r, c)
          \/ ReadFails(r) \/ ReadLabels(r) \/ ReadIssues(r) \/ DryRun(r)
          \/ RefuseOperation(r) \/ Perform(r) \/ CallFails(r) \/ CallTimesOut(r) \/ EndSync(r)
    \/ \E plan \in Roadmaps : EditRoadmap(plan)
    \/ HandEdits

SyncSpec == SyncInit /\ [][SyncNext]_sync_vars
-----------------------------------------------------------------------------
(* check_drift.                                                            *)

REQUIRED_BANNED == {"wontfix"}

local_drift ==
    (IF REQUIRED_BANNED \subseteq config.banned_labels THEN {} ELSE {"SYNC-BANNED"})
    \cup (IF config.dry_run_default THEN {} ELSE {"SYNC-DRYRUN"})
    \cup (IF config.allowed_apply_contexts \subseteq {"release-workflow"} THEN {} ELSE {"SYNC-CONTEXT"})

\* Some issue names the package: its id is in the title.
named(p) == \E i \in Listed(issues) : p.id \in ToSet(issues[i].title)

\* The newest of the issues that are closed.
listed_closed ==
    LET closed == {i \in DOMAIN issues : issues[i].state = "CLOSED"}
    IN  {i \in closed : Cardinality({j \in closed : j > i}) < ListLimit}

tracker_drift ==
    {<<"DRIFT-LABEL", b>> : b \in {b \in config.banned_labels : <<"", b>> \in labels}}
    \cup {<<"DRIFT-NOTPLANNED", i>> :
            i \in {i \in listed_closed : /\ issues[i].reason = "NOT_PLANNED"
                                         /\ \E l \in issues[i].labels : l[1] = "req:"}}
    \cup (IF \E j \in DOMAIN roadmap : named(roadmap[j])
          THEN {<<"DRIFT-ISSUE", roadmap[j].id>> :
                   j \in {j \in DOMAIN roadmap : roadmap[j].status # "planned" /\ ~named(roadmap[j])}}
          ELSE {})
-----------------------------------------------------------------------------
(* Properties.                                                             *)

\* The part of build_plan that an apply cannot settle: --add-label takes no label
\* away, "moved" is not among the labels that are compared, and an issue that is
\* opened for a package that is done is closed by the next apply.
Unsettleable(op) ==
    /\ op.kind = "issue"
    /\ \/ op.does = "relabel" /\ <<"", "moved">> \in op.to
       \/ op.does = "relabel" /\ actual_labels(issues[op.number]) \ op.to # {}
       \/ op.does = "close" /\ op.number > settled[1]

\* A checkout's apply that ended with 0, with nothing changed beside it, has made
\* the tracker the projection of the roadmap, up to what no apply settles, and no
\* package is missing from it and no issue was opened that the plan does not
\* explain, as long as the list of issues is not cut off.
AppliedIsProjected ==
    settled # <<>> /\ Len(issues) <= ListLimit =>
        /\ \A i \in DOMAIN build_plan(roadmap) : Unsettleable(build_plan(roadmap)[i])
        /\ \A d \in tracker_drift : d[1] # "DRIFT-ISSUE"
        /\ \A i \in unexplained : i <= settled[1]
        /\ \A j \in DOMAIN roadmap :
              \E n \in DOMAIN issues : /\ issues[n].title = issue_title(roadmap[j])
                                       /\ labels_for(roadmap[j]) \subseteq issues[n].labels

\* A package has one issue, through failed calls, calls that took effect after the
\* run had given up on them, and hand edits, as long as runs do not overlap and
\* the list is not cut off.
OneIssuePerPackage ==
    ~overlapped /\ Len(issues) <= ListLimit =>
        \A i, j \in DOMAIN issues :
            i # j => issues[i].title # issues[j].title \/ issues[i].title = ByHand

\* With a configuration that the drift check passes, nothing but the release
\* workflow changes the tracker unattended.
OnlyTheReleaseWorkflow == local_drift = {} => unattended \subseteq {"release-workflow"}

\* sync.py, drift.py: what a run of the tool leaves behind.
TrackerIsProjected == AppliedIsProjected /\ OneIssuePerPackage /\ OnlyTheReleaseWorkflow

\* "apply(plan) followed by plan returns an empty plan" (docs/design/roadmap.md).
PlanAfterApplyIsEmpty == settled # <<>> => build_plan(roadmap) = <<>>
=============================================================================
