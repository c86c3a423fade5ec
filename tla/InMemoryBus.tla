----------------------------- MODULE InMemoryBus -----------------------------
(***************************************************************************)
(* The simulation-mode network of twinflow.kernel (_impl/network.py): one  *)
(* bus, the clients that join it, their wills, and synchronous delivery.   *)
(*                                                                         *)
(* publish() calls every matching handler before it returns, and a handler *)
(* may call the bus again.  A delivery under way is therefore an           *)
(* activation on a stack: the frame, and how far its loop over the         *)
(* subscription list has come.  Between two steps of the top activation    *)
(* the handler just called may do anything a client can do; the list is    *)
(* iterated live, so that it may grow meanwhile.                           *)
(*                                                                         *)
(* A frame's payload, QoS and retain ride along and decide nothing here.   *)
(***************************************************************************)
EXTENDS TopicFilters

CONSTANTS
    Clients, Identities,
    Topics,            \* topics the parties publish on, refused ones included
    Filters,           \* filters the parties subscribe with, refused ones included
    WillTopic,         \* the topic of every will
    MaxSubs, MaxFrames, MaxSessions

NoOne == "none"

ASSUME BusAssumption ==
    /\ Topics \cup Filters \cup {WillTopic} \subseteq Seq(STRING)
    /\ NoOne \notin Clients \cup Identities
    /\ {MaxSubs, MaxFrames, MaxSessions} \subseteq Nat

VARIABLES
    subs,              \* _subscriptions: filters in the order they were made
    joined,            \* _connected
    wills,             \* _wills: identity -> session that registered it
    identity,          \* BusClient.identity, NoOne for None
    deliveries,        \* _deliveries: [sub, frame]
    stack,             \* activations: [frame, next, leaving]
    frames,            \* history: the frames delivered, [topic, session, subs, done]
    sessions           \* history: [identity, will, ended]

bus_vars == <<subs, joined, wills, identity, deliveries, stack, frames, sessions>>

Plain == 0             \* the frame is no will
-----------------------------------------------------------------------------
(* The calls of a client.  Between two of them the bus may be delivering:  *)
(* then the caller is the handler of the top activation.                   *)

\* No handler has been called yet by an activation that was only just pushed.
MayCall == stack # <<>> => Last(stack).called

StartDelivery(topic, session, leaving) ==
    /\ Len(frames) < MaxFrames
    /\ frames' = Append(frames, [topic |-> topic, session |-> session,
                                 subs |-> Len(subs), done |-> FALSE])
    /\ stack' = Append(stack, [frame |-> Len(frames'), next |-> 1, called |-> FALSE,
                               leaving |-> leaving])

\* connect() and _join(): refused for a client that has an identity and for an
\* identity that is joined.
BusConnect(c, id, will) ==
    /\ MayCall /\ Len(sessions) < MaxSessions
    /\ identity[c] = NoOne
    /\ ~Contains(joined, id)
    /\ joined' = Append(joined, id)
    /\ sessions' = Append(sessions, [identity |-> id, will |-> will, ended |-> "open"])
    /\ wills' = IF will THEN [i \in DOMAIN wills \cup {id} |->
                                 IF i = id THEN Len(sessions') ELSE wills[i]]
                        ELSE wills
    /\ identity' = [identity EXCEPT ![c] = id]
    /\ UNCHANGED <<subs, deliveries, stack, frames>>

BusPublish(c, topic) ==
    /\ MayCall
    /\ identity[c] # NoOne
    /\ FrameTopic(topic)
    /\ StartDelivery(topic, Plain, NoOne)
    /\ UNCHANGED <<subs, joined, wills, identity, deliveries, sessions>>

BusSubscribe(c, filter) ==
    /\ MayCall /\ Len(subs) < MaxSubs
    /\ identity[c] # NoOne
    /\ FilterLevels(filter)
    /\ subs' = Append(subs, filter)
    /\ UNCHANGED <<joined, wills, identity, deliveries, stack, frames, sessions>>

EndSession(id, how) ==
    [n \in DOMAIN sessions |->
        IF sessions[n].identity = id /\ sessions[n].ended = "open"
        THEN [sessions[n] EXCEPT !.ended = how] ELSE sessions[n]]

\* _leave() of an identity that is joined, up to the delivery of its will.
Leave(id, how) ==
    /\ joined' = RemoveAt(joined, CHOOSE i \in DOMAIN joined : joined[i] = id)
    /\ sessions' = EndSession(id, how)
    /\ wills' = [i \in DOMAIN wills \ {id} |-> wills[i]]

BusDisconnect(c) ==
    /\ MayCall
    /\ identity[c] # NoOne
    /\ IF Contains(joined, identity[c]) THEN Leave(identity[c], "clean")
       ELSE UNCHANGED <<joined, wills, sessions>>
    /\ identity' = [identity EXCEPT ![c] = NoOne]
    /\ UNCHANGED <<subs, deliveries, stack, frames>>

\* drop(): the will is delivered before the client forgets its identity.
BusDrop(c) ==
    /\ MayCall
    /\ identity[c] # NoOne
    /\ LET id == identity[c]
           owed == Contains(joined, id) /\ id \in DOMAIN wills
       IN  /\ IF Contains(joined, id) THEN Leave(id, "lost")
              ELSE UNCHANGED <<joined, wills, sessions>>
           /\ IF owed
              THEN /\ StartDelivery(WillTopic, wills[id], c)
                   /\ UNCHANGED identity
              ELSE /\ identity' = [identity EXCEPT ![c] = NoOne]
                   /\ UNCHANGED <<stack, frames>>
    /\ UNCHANGED <<subs, deliveries>>
-----------------------------------------------------------------------------
(* _deliver: the loop over the subscription list.                          *)

Top == Last(stack)
WithTop(activation) == [stack EXCEPT ![Len(stack)] = activation]

\* The list the loop runs over: the live one.
SubsOf(activation) == subs

\* The next matching subscription is handed the frame.
Deliver ==
    /\ stack # <<>>
    /\ LET list == SubsOf(Top)
           topic == frames[Top.frame].topic
           rest == {i \in Top.next..Len(list) : topic_matches(list[i], topic)}
       IN  /\ rest # {}
           /\ deliveries' = Append(deliveries, [sub |-> Min(rest), frame |-> Top.frame])
           /\ stack' = WithTop([Top EXCEPT !.next = Min(rest) + 1, !.called = TRUE])
    /\ UNCHANGED <<subs, joined, wills, identity, frames, sessions>>

\* The loop is at its end; a drop then forgets the client's identity.
Finish ==
    /\ stack # <<>>
    /\ LET list == SubsOf(Top)
           topic == frames[Top.frame].topic
       IN  \A i \in Top.next..Len(list) : ~topic_matches(list[i], topic)
    /\ stack' = Front(stack)
    /\ frames' = [frames EXCEPT ![Top.frame].done = TRUE, ![Top.frame].subs = Len(subs)]
    /\ identity' = [c \in Clients |-> IF c = Top.leaving THEN NoOne ELSE identity[c]]
    /\ UNCHANGED <<subs, joined, wills, deliveries, sessions>>

BusInit ==
    /\ subs = <<>> /\ joined = <<>> /\ wills = <<>> /\ deliveries = <<>>
    /\ stack = <<>> /\ frames = <<>> /\ sessions = <<>>
    /\ identity = [c \in Clients |-> NoOne]

BusNext ==
    \/ \E c \in Clients :
          \/ \E id \in Identities, will \in BOOLEAN : BusConnect(c, id, will)
          \/ \E topic \in Topics : BusPublish(c, topic)
          \/ \E filter \in Filters : BusSubscribe(c, filter)
          \/ BusDisconnect(c)
          \/ BusDrop(c)
    \/ Deliver \/ Finish
-----------------------------------------------------------------------------
Handed(f) == {k \in DOMAIN deliveries : deliveries[k].frame = f}

\* _deliver: however the handlers nest, and whatever they subscribe meanwhile,
\* a frame whose publish has returned was handed to exactly the subscriptions
\* of the list that select it, each once, in the order they were made.
EachMatchServedOnce ==
    \A f \in DOMAIN frames :
        /\ \A k, l \in Handed(f) : k < l => deliveries[k].sub < deliveries[l].sub
        /\ frames[f].done =>
              {deliveries[k].sub : k \in Handed(f)}
                = {i \in 1..frames[f].subs : Selects(subs[i], frames[f].topic)}

\* _leave: a will is delivered once for a session that was lost and never for
\* one that closed or is open, and the bus holds wills of open sessions only.
WillsTellLosses ==
    /\ \A n \in DOMAIN sessions :
          Cardinality({f \in DOMAIN frames : frames[f].session = n})
            = IF sessions[n].ended = "lost" /\ sessions[n].will THEN 1 ELSE 0
    /\ \A id \in DOMAIN wills : sessions[wills[id]].ended = "open"
    /\ ToSet(joined) = {sessions[n].identity : n \in {m \in DOMAIN sessions :
                                                         sessions[m].ended = "open"}}

\* InMemoryBus: the bus keeps its promises to subscribers and to the mourners.
BusKeepsItsPromises == EachMatchServedOnce /\ WillsTellLosses
=============================================================================
