---------------------------- MODULE DeviceService ----------------------------
(***************************************************************************)
(* The device container of the garage tier: main() of twinflow.sensors     *)
(* (__main__.py) with its announce() and farewell(), over MqttNetwork      *)
(* (real/mqtt.py) and a broker, through crashes, container restarts, link  *)
(* losses and paho's automatic reconnections.                              *)
(*                                                                         *)
(* paho and the broker are outside the repository and are modelled as the  *)
(* adapter relies on them: the will goes with the CONNECT packet of every  *)
(* connection, a QoS 0 publish on a lost link is dropped, a broker         *)
(* publishes the will of a connection that ends without a DISCONNECT, on   *)
(* its keepalive timeout or when the same client id connects again, and it *)
(* delivers to a subscriber in the order it received.                      *)
(***************************************************************************)
EXTENDS EdgeNodeSession

CONSTANTS MaxStarts,    \* container starts in one behaviour
          MaxLosses     \* link losses in one behaviour

ASSUME ServiceAssumption == MaxStarts \in Nat /\ MaxLosses \in Nat

VARIABLES
    pc,         \* where main() is
    link,       \* the client's connection to the broker stands
    births,     \* births of this process the broker has received
    starts, losses

service_vars == <<pc, link, births, starts, losses>>
all_vars == <<vars, service_vars>>

Equipment == 1
Running == {"connect", "nbirth", "dbirth", "hold", "ddeath", "leave"}
Ended == {"off", "left", "gone"}
-----------------------------------------------------------------------------
\* The container starts: build_session makes a fresh session object.
Start ==
    /\ pc \in Ended /\ starts < MaxStarts
    /\ pc' = "connect" /\ starts' = starts + 1
    /\ connected' = FALSE /\ bdseq' = -1 /\ seq' = 0 /\ born' = {}
    /\ node_born' = FALSE /\ births' = 0
    /\ UNCHANGED <<outbox, will, view, link, losses>>

\* Mutant: will_set is called after connect, so that this CONNECT has no will.
ConnectPacketNoWill(bd) ==
    /\ link' = TRUE
    /\ view' = IF will # NoWill THEN Observe(view, Death(will)) ELSE view
    /\ will' = NoWill

\* The broker accepts a CONNECT: what it holds of an earlier connection of this
\* client id ends, with its will published, and the will of this one is held.
ConnectPacket(bd) ==
    /\ link' = TRUE
    /\ view' = IF will # NoWill THEN Observe(view, Death(will)) ELSE view
    /\ will' = bd

\* session.connect(), then network.connect() with the will.
AnnounceConnect ==
    /\ pc = "connect"
    /\ bdseq' = (bdseq + 1) % SEQUENCE_MODULUS
    /\ connected' = TRUE /\ node_born' = FALSE /\ born' = {} /\ seq' = 0
    /\ ConnectPacket(bdseq')
    /\ pc' = "nbirth"
    /\ UNCHANGED <<outbox, births, starts, losses>>

\* network.publish of the session's next message: MqttNetwork passes it to paho
\* and ignores the answer, so that without a link it is lost.
Send(type, d) ==
    /\ seq' = next_seq
    /\ view' = IF link THEN Observe(view, message(type, d)) ELSE view
    /\ births' = IF link /\ type \in {"NBIRTH", "DBIRTH"} THEN births + 1 ELSE births

PublishNodeBirth ==
    /\ pc = "nbirth"
    /\ Send("NBIRTH", NoDevice)
    /\ node_born' = TRUE
    /\ pc' = "dbirth"
    /\ UNCHANGED <<connected, bdseq, born, outbox, will, link, starts, losses>>

PublishDeviceBirth ==
    /\ pc = "dbirth"
    /\ Send("DBIRTH", Equipment)
    /\ born' = born \cup {Equipment}
    /\ pc' = "hold"
    /\ UNCHANGED <<connected, bdseq, node_born, outbox, will, link, starts, losses>>

\* SIGTERM or SIGINT sets the event main() waits for; --births-only does not wait.
Stop ==
    /\ pc = "hold" /\ pc' = "ddeath"
    /\ UNCHANGED <<vars, link, births, starts, losses>>

PublishDeviceDeath ==
    /\ pc = "ddeath"
    /\ Send("DDEATH", Equipment)
    /\ born' = born \ {Equipment}
    /\ pc' = "leave"
    /\ UNCHANGED <<connected, bdseq, node_born, outbox, will, link, starts, losses>>

\* Mutant: the network loop is stopped before the DISCONNECT is sent.
LeaveLoopFirst ==
    /\ pc = "leave"
    /\ link' = FALSE
    /\ pc' = IF link THEN "left" ELSE "gone"
    /\ UNCHANGED <<vars, births, starts, losses>>

\* network.disconnect(): the DISCONNECT makes the broker discard the will; on a
\* lost link it does not arrive.
Leave ==
    /\ pc = "leave"
    /\ link' = FALSE
    /\ pc' = IF link THEN "left" ELSE "gone"
    /\ will' = IF link THEN NoWill ELSE will
    /\ UNCHANGED <<session_vars, outbox, view, births, starts, losses>>

\* The process dies at any point, a refused or failed connect included.
Crash ==
    /\ pc \in Running
    /\ pc' = "off" /\ link' = FALSE
    /\ UNCHANGED <<vars, births, starts, losses>>

LinkLoss ==
    /\ link /\ losses < MaxLosses
    /\ link' = FALSE /\ losses' = losses + 1
    /\ UNCHANGED <<vars, pc, births, starts>>

\* paho reconnects underneath the caller, with the will it was given;
\* _on_connect replays the subscriptions, of which this process has none.
Reconnect ==
    /\ pc \in Running \ {"connect"} /\ ~link
    /\ ConnectPacket(bdseq)
    /\ UNCHANGED <<session_vars, outbox, pc, births, starts, losses>>

\* The broker's keepalive runs out on a connection that is gone.
BrokerTimeout ==
    /\ will # NoWill /\ ~link
    /\ view' = Observe(view, Death(will))
    /\ will' = NoWill
    /\ UNCHANGED <<session_vars, outbox, service_vars>>

ServiceInit ==
    /\ Init
    /\ pc = "off" /\ link = FALSE /\ births = 0
    /\ starts = 0 /\ losses = 0

ServiceNext ==
    \/ Start \/ AnnounceConnect \/ PublishNodeBirth \/ PublishDeviceBirth
    \/ Stop \/ PublishDeviceDeath \/ Leave
    \/ Crash \/ LinkLoss \/ Reconnect \/ BrokerTimeout

\* The broker's keepalive is a timer; nothing makes a stopped container start,
\* a link come back, or a process stop.
ServiceSpec == ServiceInit /\ [][ServiceNext]_all_vars /\ WF_all_vars(BrokerTimeout)
-----------------------------------------------------------------------------
(* Properties.                                                             *)

\* A device the subscriber holds for alive over a standing link is covered: the
\* broker holds a will that carries the bdSeq of the birth the subscriber saw,
\* whatever was lost, retried or restarted before.
BirthIsCovered == link /\ view.alive => will = view.bdseq

\* A process that dies without a farewell after a birth is reported: the
\* subscriber comes to hold the node for dead, unless the container was started
\* again first.
CrashIsReported == (pc = "off" /\ births > 0) ~> (~view.alive \/ pc # "off")

\* farewell: a container stopped on purpose over a standing link is not reported
\* as an outage: nothing more arrives at the subscriber.
StopIsQuiet == [][pc = "left" => UNCHANGED view]_all_vars

\* main: "the broker's view of the device is alive for exactly as long as this
\* connection is": with the connection standing and both births delivered, the
\* subscriber holds the node for alive.
AliveWhileConnected == link /\ pc = "hold" /\ births = 2 => view.alive
=============================================================================
