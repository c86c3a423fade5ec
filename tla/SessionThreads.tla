---------------------------- MODULE SessionThreads ----------------------------
(***************************************************************************)
(* One AutonomySession (autonomy.py) under requests of the api, whose      *)
(* propose_config (app.py) is a plain function: the server runs each       *)
(* request in a thread of its pool, and no lock guards the session.        *)
(*                                                                         *)
(* A step is one use of the session's state: a read or a write of _grant,  *)
(* a read of the clock, the append to the audit log.  A request calls      *)
(* authorize(tool) or reads effective_tier; the two differ in the look at  *)
(* the scope.  An approval comes from elsewhere and is taken as one step.  *)
(* A grant is [id, until, scope]; an event its kind and grant.             *)
(***************************************************************************)
EXTENDS Integers, Sequences, Functions

CONSTANTS
    Threads,
    ThreadGrants,       \* the grants that are approved
    ThreadTool,         \* the tool of the requests that authorize
    MaxThreadTime, MaxRequests

VARIABLES
    thread_clock,
    session_grant,      \* _grant
    audit,              \* the events of the AuditLog
    requests,           \* each thread's request: its step, the grant it retires, the grant
                        \* whose tier it was told, and the grants held since it began
    served              \* how many requests have begun

thread_vars == <<thread_clock, session_grant, audit, requests, served>>

NoGrant == <<>>

At(t, step_name) == requests[t].at = step_name
Go(t, to) == requests' = [requests EXCEPT ![t].at = to]
Untouched == UNCHANGED <<thread_clock, session_grant, audit, served>>

\* An attribute of None.
GoWithGrant(t, to) == Go(t, IF session_grant = NoGrant THEN "AttributeError" ELSE to)
-----------------------------------------------------------------------------
(* propose_config.                                                         *)

Begin(t, scoped) ==
    /\ requests[t].at \in {"idle", "answered", "AttributeError"} /\ served < MaxRequests
    /\ served' = served + 1
    /\ requests' = [requests EXCEPT ![t] =
                       [at |-> "held?", scoped |-> scoped, retiring |-> NoGrant, told |-> {},
                        seen |-> IF session_grant = NoGrant THEN {} ELSE {session_grant}]]
    /\ UNCHANGED <<thread_clock, session_grant, audit>>

\* _expire_if_stale: is there a grant, and has its instant come?
ExpireCheck(t) ==
    /\ At(t, "held?")
    /\ Go(t, IF session_grant = NoGrant THEN "answer?" ELSE "stale?")
    /\ Untouched

StaleCheck(t) ==
    /\ At(t, "stale?")
    /\ GoWithGrant(t, IF session_grant # NoGrant /\ thread_clock >= session_grant.until
                      THEN "retire?" ELSE "answer?")
    /\ Untouched

\* _retire
RetireCheck(t) ==
    /\ At(t, "retire?")
    /\ Go(t, IF session_grant = NoGrant THEN "answer?" ELSE "take")
    /\ Untouched

RetireTake(t) ==
    /\ At(t, "take")
    /\ requests' = [requests EXCEPT ![t].at = "clear", ![t].retiring = session_grant]
    /\ Untouched

RetireClear(t) ==
    /\ At(t, "clear")
    /\ session_grant' = NoGrant
    /\ Go(t, "emit")
    /\ UNCHANGED <<thread_clock, audit, served>>

\* The payload needs the id of the grant that was taken.
RetireEmit(t) ==
    /\ At(t, "emit")
    /\ IF requests[t].retiring = NoGrant
       THEN Go(t, "AttributeError") /\ UNCHANGED audit
       ELSE Go(t, "answer?") /\ audit' = Append(audit, [kind |-> "expired", grant |-> requests[t].retiring])
    /\ UNCHANGED <<thread_clock, session_grant, served>>

\* allowed_tier_for, effective_tier
AnswerCheck(t) ==
    /\ At(t, "answer?")
    /\ Go(t, IF session_grant = NoGrant THEN "answered" ELSE IF requests[t].scoped THEN "scope?" ELSE "tier")
    /\ Untouched

ScopeCheck(t) ==
    /\ At(t, "scope?")
    /\ GoWithGrant(t, IF session_grant # NoGrant /\ ThreadTool \in session_grant.scope
                      THEN "tier" ELSE "answered")
    /\ Untouched

TierRead(t) ==
    /\ At(t, "tier")
    /\ IF session_grant = NoGrant
       THEN Go(t, "AttributeError")
       ELSE requests' = [requests EXCEPT ![t].at = "answered", ![t].told = {session_grant}]
    /\ Untouched
-----------------------------------------------------------------------------
\* approve() of a grant that has not been given before.
ThreadApprove(g) ==
    /\ session_grant = NoGrant /\ g.until > thread_clock
    /\ \A e \in Range(audit) : e.grant # g
    /\ session_grant' = g
    /\ audit' = Append(audit, [kind |-> "decided", grant |-> g])
    /\ requests' = [t \in Threads |-> IF requests[t].at = "idle" THEN requests[t]
                                      ELSE [requests[t] EXCEPT !.seen = @ \cup {g}]]
    /\ UNCHANGED <<thread_clock, served>>

ThreadTick ==
    /\ thread_clock < MaxThreadTime
    /\ thread_clock' = thread_clock + 1
    /\ UNCHANGED <<session_grant, audit, requests, served>>

ThreadsInit ==
    /\ thread_clock = 0 /\ session_grant = NoGrant /\ audit = <<>> /\ served = 0
    /\ requests = [t \in Threads |-> [at |-> "idle"]]

ThreadsNext ==
    \/ \E t \in Threads :
          \/ \E scoped \in BOOLEAN : Begin(t, scoped)
          \/ ExpireCheck(t) \/ StaleCheck(t)
          \/ RetireCheck(t) \/ RetireTake(t) \/ RetireClear(t) \/ RetireEmit(t)
          \/ AnswerCheck(t) \/ ScopeCheck(t) \/ TierRead(t)
    \/ \E g \in ThreadGrants : ThreadApprove(g)
    \/ ThreadTick
-----------------------------------------------------------------------------
(* Properties.                                                             *)

\* A session never holds a grant that its trail does not show as decided and not
\* expired; with one call at a time it holds every grant that the trail shows so.
HeldIsOnTheTrail ==
    session_grant # NoGrant =>
        /\ \E e \in Range(audit) : e.kind = "decided" /\ e.grant = session_grant
        /\ \A e \in Range(audit) : e.kind = "expired" => e.grant # session_grant

\* A request is told an elevated tier only by a grant that the session held while
\* the request ran, and is told one for its tool only when such a grant named it.
AnswerWasHeld ==
    \A t \in Threads :
        At(t, "answered") /\ requests[t].told # {} =>
            /\ requests[t].told \subseteq requests[t].seen
            /\ requests[t].scoped => \E g \in requests[t].seen : ThreadTool \in g.scope

\* Requests that run at once fail closed (propose_config, AutonomySession).
RequestsFailClosed == HeldIsOnTheTrail /\ AnswerWasHeld
=============================================================================
