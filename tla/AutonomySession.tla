-------------------------- MODULE AutonomySession --------------------------
(***************************************************************************)
(* AutonomySession of twinflow.agent (autonomy.py): the tier of one agent  *)
(* session, the grant that raises it, and the audit trail of every         *)
(* decision, expiry and change.  A grant ends after a number of questions, *)
(* at an instant of simulated time, or by revocation; the instant is       *)
(* looked at when the session is read, and by no timer.                    *)
(*                                                                         *)
(* A tier is its rank.  An event of the trail keeps its type, its instant, *)
(* the grant, the trigger, the tool and the tier; reasons, digests and ids *)
(* of questions are left out.                                              *)
(***************************************************************************)
EXTENDS Integers, Sequences

CONSTANTS
    Session, Tools,
    Offered,                \* the grants that callers try to construct and approve
    DefaultTier, AllowWriteTools, MaxGrantQuestions, MaxGrantAge,
    MaxTime,                \* bound on the clock
    MaxTrail                \* bound on the trail

Tier == 1..3
None == <<>>

ASSUME AutonomyAssumption ==
    /\ DefaultTier \in Tier /\ AllowWriteTools \in BOOLEAN
    /\ {MaxGrantQuestions, MaxGrantAge, MaxTime, MaxTrail} \subseteq Nat
    /\ None \notin Offered
    /\ \A g \in Offered : g.scope \subseteq Tools /\ g.questions \in Nat /\ g.until \in Nat
                             /\ g.tier \in Tier

VARIABLES
    clock,
    grant, questions,   \* _grant and _questions_since_grant
    trail,              \* the events of the AuditLog
    call                \* the last call that authorize() let through

vars == <<clock, grant, questions, trail, call>>

\* The validators of AutonomyGrant: no L1, a human approver who is another
\* principal than the requester, a scope that names tools, at least one question.
Constructible(g) ==
    /\ g.tier \in {2, 3}
    /\ g.approver.kind = "human" /\ g.approver.id # g.requester.id
    /\ g.scope # {} /\ g.questions >= 1

AutonomyGrant == {g \in Offered : Constructible(g)}
-----------------------------------------------------------------------------
(* The audit trail.                                                        *)

Event(type, g, trigger, tool, tier) ==
    [type |-> type, grant |-> g, trigger |-> trigger, tool |-> tool, tier |-> tier, at |-> clock]

Expired(trigger) == Event("expired", grant, trigger, None, DefaultTier)

\* The bound is on the events that callers add, never on an expiry.
Room == Len(trail) < MaxTrail
-----------------------------------------------------------------------------
(* Expiry on read: every call but revoke() sees the session after it.      *)

\* Mutant: the grant lives through the instant of its end.
StaleAfter == grant # None /\ clock > grant.until

stale == grant # None /\ clock >= grant.until

SettledGrant     == IF stale THEN None ELSE grant
SettledQuestions == IF stale THEN 0 ELSE questions

\* Mutant: an expiry on read leaves no event.
SettledTrailSilent == trail

SettledTrail == IF stale THEN Append(trail, Expired("sim_time")) ELSE trail

allowed_tier_for(tool) ==
    IF SettledGrant = None \/ tool \notin SettledGrant.scope
    THEN DefaultTier ELSE SettledGrant.tier

effective_tier == IF SettledGrant = None THEN DefaultTier ELSE SettledGrant.tier

\* The call settles the session and emits the events in es.
Settle(es) ==
    /\ grant' = SettledGrant /\ questions' = SettledQuestions
    /\ trail' = SettledTrail \o es
-----------------------------------------------------------------------------
(* The calls.                                                              *)

\* A read, and every call that is refused after it has settled the session.
Read ==
    /\ Settle(<<>>)
    /\ UNCHANGED <<clock, call>>

Authorize(tool, required) ==
    /\ allowed_tier_for(tool) >= required
    /\ Settle(<<>>)
    /\ call' = [tool |-> tool, tier |-> allowed_tier_for(tool), at |-> clock,
                after |-> Len(SettledTrail)]
    /\ UNCHANGED clock

RequestElevation(tool) ==
    /\ Room
    /\ Settle(<<Event("requested", None, None, tool, effective_tier)>>)
    /\ UNCHANGED <<clock, call>>

Approve(g) ==
    /\ Room
    /\ g.session = Session
    /\ SettledGrant = None
    /\ g.tier = 3 => AllowWriteTools
    /\ g.questions <= MaxGrantQuestions
    /\ g.until <= clock + MaxGrantAge
    /\ grant' = g /\ questions' = 0
    /\ trail' = Append(SettledTrail, Event("decided", g, None, None, g.tier))
    /\ UNCHANGED <<clock, call>>

\* A human declines; nothing is read.
Refuse ==
    /\ Room
    /\ trail' = Append(trail, Event("refused", None, None, None, DefaultTier))
    /\ UNCHANGED <<clock, grant, questions, call>>

Retire(trigger) ==
    /\ grant' = None /\ questions' = 0
    /\ trail' = Append(trail, Expired(trigger))

\* revoke() does not settle the session first.
Revoke ==
    /\ grant # None
    /\ Retire("revoked")
    /\ UNCHANGED <<clock, call>>

\* With a stale grant, or none, note_question() is a read.
NoteQuestion ==
    /\ ~stale /\ grant # None
    /\ IF questions + 1 >= grant.questions
       THEN Retire("question_count")
       ELSE questions' = questions + 1 /\ UNCHANGED <<grant, trail>>
    /\ UNCHANGED <<clock, call>>

\* The tier is the session's.  A change above L1 without a grant is refused by the
\* record's validator, and so is one below the tier that the caller requires.
AttributeChange(tool, required) ==
    LET held     == allowed_tier_for(tool)
        elevated == held # DefaultTier /\ SettledGrant # None
    IN  /\ Room
        /\ held >= required
        /\ elevated \/ held = 1
        /\ Settle(<<Event("change", IF elevated THEN SettledGrant ELSE None, None, tool, held)>>)
        /\ UNCHANGED <<clock, call>>

Tick ==
    /\ clock < MaxTime
    /\ clock' = clock + 1
    /\ UNCHANGED <<grant, questions, trail, call>>
-----------------------------------------------------------------------------
Init ==
    /\ clock = 0 /\ grant = None /\ questions = 0 /\ trail = <<>>
    /\ call = None

Next ==
    \/ Tick \/ Read \/ Refuse \/ Revoke \/ NoteQuestion
    \/ \E tool \in Tools : RequestElevation(tool)
    \/ \E tool \in Tools, required \in Tier : Authorize(tool, required)
    \/ \E tool \in Tools, required \in Tier : AttributeChange(tool, required)
    \/ \E g \in AutonomyGrant : Approve(g)

Spec == Init /\ [][Next]_vars
-----------------------------------------------------------------------------
(* Properties.                                                             *)

\* The types; a live grant has questions left.
TypeOK ==
    /\ clock \in 0..MaxTime
    /\ grant \in AutonomyGrant \cup {None}
    /\ questions \in Nat
    /\ grant # None => questions < grant.questions
    /\ grant = None => questions = 0
    /\ \A i \in DOMAIN trail : trail[i].at \in 0..clock /\ trail[i].tier \in Tier

\* The grant that is live after the first n events of the trail, by what they say.
LiveAfter(n) ==
    LET decided == {i \in 1..n : trail[i].type = "decided"}
        ended(i) == \E j \in i+1..n : trail[j].type = "expired" /\ trail[j].grant = trail[i].grant
    IN  {trail[i].grant : i \in {k \in decided : ~ended(k)}}

\* The audit trail tells the session's state: the grant that it shows as decided
\* and not yet expired is the one the session holds, and there is never a second.
TrailTellsGrant == LiveAfter(Len(trail)) = IF grant = None THEN {} ELSE {grant}

\* The grant g allows the tier for the tool at this instant.
Allows(g, tool, tier, at) == g.tier = tier /\ tool \in g.scope /\ at < g.until

\* Every change above the default tier is on the trail under a grant that the
\* trail shows as live at that point, for a tool it names, before its instant.
ElevatedChangeIsCovered ==
    \A i \in DOMAIN trail :
        trail[i].type = "change" /\ trail[i].tier > DefaultTier =>
            \E g \in LiveAfter(i) :
                g = trail[i].grant /\ Allows(g, trail[i].tool, trail[i].tier, trail[i].at)

\* The gate lets nothing above the default tier through without a grant that the
\* trail shows as live at that point, whenever the session was last read.
ElevatedCallIsCovered ==
    call # None /\ call.tier > DefaultTier =>
        \E g \in LiveAfter(call.after) : Allows(g, call.tool, call.tier, call.at)
=============================================================================
