----------------------------- MODULE MqttNetwork -----------------------------
(***************************************************************************)
(* Subscriptions and routing of the production network adapter of          *)
(* twinflow.kernel (_impl/real/mqtt.py).  Two threads share the list: the  *)
(* caller, which appends a subscription and then sends it, and paho's      *)
(* network loop, which replays the list after every connection and fans a  *)
(* message out to the handlers.                                            *)
(*                                                                         *)
(* paho and the broker are external: a SUBSCRIBE sent without a link is    *)
(* lost, the session is clean, so that a connection that ends takes its    *)
(* subscriptions along, and a message arrives once when some subscription  *)
(* at the broker selects it.  The will and the life of a device are in     *)
(* DeviceService.                                                          *)
(***************************************************************************)
EXTENDS TopicFilters

CONSTANTS
    CallerFilters,     \* filters the caller subscribes with, refused ones included
    MessageTopics,     \* topics other parties publish on
    MaxSubscriptions, MaxReconnects, MaxMessages

ASSUME MqttAssumption ==
    /\ CallerFilters \cup MessageTopics \subseteq Seq(STRING)
    /\ {MaxSubscriptions, MaxReconnects, MaxMessages} \subseteq Nat

VARIABLES
    client,            \* _client is set
    subscriptions,     \* _subscriptions, the filters in order
    calling,           \* the filter subscribe() still has to send, NoFilter if none
    linked,            \* the broker holds this client's connection
    at_broker,         \* the filters the broker holds for the connection
    replay,            \* next index of _on_connect's loop, Idle outside of it
    fan_out,           \* _on_message's loop: [message, next], or Nothing
    messages,          \* history: [topic, subs], the messages that arrived
    handled,           \* history: [message, sub], the handlers called
    reconnects

mqtt_vars == <<client, subscriptions, calling, linked, at_broker, replay, fan_out,
               messages, handled, reconnects>>

NoFilter == <<>>
Idle == 0
Nothing == [message |-> 0, next |-> 0]
-----------------------------------------------------------------------------
(* The caller's thread.                                                    *)

\* connect(): the callbacks are in place before the connection is made.  The
\* subscriptions of an earlier session are still in the list.
MqttConnect ==
    /\ ~client
    /\ reconnects < MaxReconnects
    /\ reconnects' = reconnects + 1
    /\ client' = TRUE /\ linked' = TRUE /\ at_broker' = {} /\ replay' = 1
    /\ UNCHANGED <<subscriptions, calling, fan_out, messages, handled>>

\* subscribe() remembers the filter first, and sends it in a second step.
MqttSubscribe(filter) ==
    /\ client /\ calling = NoFilter
    /\ FilterLevels(filter) /\ Len(subscriptions) < MaxSubscriptions
    /\ subscriptions' = Append(subscriptions, filter)
    /\ calling' = filter
    /\ UNCHANGED <<client, linked, at_broker, replay, fan_out, messages, handled,
                   reconnects>>

MqttSubscribeSend ==
    /\ calling # NoFilter
    /\ at_broker' = IF linked THEN at_broker \cup {calling} ELSE at_broker
    /\ calling' = NoFilter
    /\ UNCHANGED <<client, subscriptions, linked, replay, fan_out, messages, handled,
                   reconnects>>

\* disconnect(): the packet goes out, the loop stops after the callback it is
\* in, and the list stays.
MqttDisconnect ==
    /\ client /\ calling = NoFilter /\ replay = Idle /\ fan_out = Nothing
    /\ client' = FALSE /\ linked' = FALSE /\ at_broker' = {}
    /\ UNCHANGED <<subscriptions, calling, replay, fan_out, messages, handled, reconnects>>
-----------------------------------------------------------------------------
(* paho's network loop: one callback at a time.                            *)

LinkLost ==
    /\ linked
    /\ linked' = FALSE /\ at_broker' = {}
    /\ UNCHANGED <<client, subscriptions, calling, replay, fan_out, messages, handled,
                   reconnects>>

\* Mutant: the adapter subscribes at call time only.
ReconnectWithoutReplay ==
    /\ client /\ ~linked /\ replay = Idle /\ fan_out = Nothing
    /\ reconnects < MaxReconnects
    /\ reconnects' = reconnects + 1
    /\ linked' = TRUE
    /\ UNCHANGED <<client, subscriptions, calling, at_broker, replay, fan_out, messages,
                   handled>>

\* paho connects again underneath the caller and calls _on_connect.
Reconnect ==
    /\ client /\ ~linked /\ replay = Idle /\ fan_out = Nothing
    /\ reconnects < MaxReconnects
    /\ reconnects' = reconnects + 1
    /\ linked' = TRUE /\ replay' = 1
    /\ UNCHANGED <<client, subscriptions, calling, at_broker, fan_out, messages, handled>>

\* One round of the loop of _on_connect over the live list, or its end.
Replay ==
    /\ replay # Idle
    /\ IF replay <= Len(subscriptions)
       THEN /\ at_broker' = IF linked THEN at_broker \cup {subscriptions[replay]}
                                      ELSE at_broker
            /\ replay' = replay + 1
       ELSE replay' = Idle /\ UNCHANGED at_broker
    /\ UNCHANGED <<client, subscriptions, calling, linked, fan_out, messages, handled,
                   reconnects>>

\* The broker passes a message on, and the loop takes it.
Arrive(topic) ==
    /\ linked /\ replay = Idle /\ fan_out = Nothing /\ Len(messages) < MaxMessages
    /\ \E filter \in at_broker : Selects(filter, topic)
    /\ messages' = Append(messages, [topic |-> topic, subs |-> Len(subscriptions)])
    /\ fan_out' = [message |-> Len(messages'), next |-> 1]
    /\ UNCHANGED <<client, subscriptions, calling, linked, at_broker, replay, handled,
                   reconnects>>

\* One round of the loop of _on_message, or its end.
FanOut ==
    /\ fan_out # Nothing
    /\ IF fan_out.next <= Len(subscriptions)
       THEN /\ handled' = IF topic_matches(subscriptions[fan_out.next],
                                           messages[fan_out.message].topic)
                          THEN Append(handled, [message |-> fan_out.message,
                                                sub |-> fan_out.next])
                          ELSE handled
            /\ fan_out' = [fan_out EXCEPT !.next = @ + 1]
       ELSE fan_out' = Nothing /\ UNCHANGED handled
    /\ UNCHANGED <<client, subscriptions, calling, linked, at_broker, replay, messages,
                   reconnects>>

MqttInit ==
    /\ client = FALSE /\ linked = FALSE /\ at_broker = {} /\ subscriptions = <<>>
    /\ calling = NoFilter /\ replay = Idle /\ fan_out = Nothing
    /\ messages = <<>> /\ handled = <<>> /\ reconnects = 0

MqttNext ==
    \/ MqttConnect \/ MqttSubscribeSend \/ MqttDisconnect
    \/ \E filter \in CallerFilters : MqttSubscribe(filter)
    \/ LinkLost \/ Reconnect \/ Replay \/ FanOut
    \/ \E topic \in MessageTopics : Arrive(topic)
-----------------------------------------------------------------------------
\* _on_connect and subscribe(): once neither of them is under way, the broker
\* holds every subscription of the list, whatever the order in which the two
\* threads and the losses of the link came.
BrokerHoldsTheList ==
    linked /\ calling = NoFilter /\ replay = Idle => at_broker = ToSet(subscriptions)

\* _on_message: a message that arrived reaches, once and in subscription order,
\* every handler that was subscribed when it arrived and whose filter selects
\* it, and no other handler.
EveryHandlerHears ==
    \A m \in DOMAIN messages :
        LET mine == {i \in DOMAIN handled : handled[i].message = m}
            Due(n) == {i \in 1..n : Selects(subscriptions[i], messages[m].topic)}
            heard == {handled[i].sub : i \in mine}
        IN  /\ \A i, j \in mine : i < j => handled[i].sub < handled[j].sub
            /\ heard \subseteq Due(Len(subscriptions))
            /\ m # fan_out.message => Due(messages[m].subs) \subseteq heard

\* MqttNetwork: nothing that was subscribed goes quiet.
SubscriptionsAreHeard == BrokerHoldsTheList /\ EveryHandlerHears
=============================================================================
