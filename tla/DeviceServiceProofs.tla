------------------------- MODULE DeviceServiceProofs -------------------------
(***************************************************************************)
(* Theorems about DeviceService, for any number of container starts and    *)
(* link losses and any modulus of the counters.                            *)
(***************************************************************************)
EXTENDS DeviceService, TLAPS

\* What covers a birth through restarts.  A process connects its session once, so
\* that every will and every birth carries the first count, whichever process
\* sent it: the broker holds no other will, the subscriber no other birth, and a
\* standing link is one whose CONNECT carried the will.  A process that left over
\* a standing link has had its will discarded.
ServiceInv ==
    /\ pc \in Running \cup Ended
    /\ link \in BOOLEAN /\ view.alive \in BOOLEAN
    /\ bdseq \in {-1, 0}
    /\ pc = "connect" => bdseq = -1
    /\ pc \in Running \ {"connect"} => bdseq = 0
    /\ will \in {NoWill, 0}
    /\ view.alive => view.bdseq = 0
    /\ link => pc \in Running \ {"connect"} /\ will = 0
    /\ pc = "left" => will = NoWill

\* The first count of a session is zero, whatever the modulus.
LEMMA FirstCount == (-1 + 1) % SEQUENCE_MODULUS = 0
  BY NodeAssumption

\* Receiving a death leaves the subscriber with the same birth, alive or dead.
LEMMA DeathObserved ==
    ASSUME NEW v, v.alive \in BOOLEAN, NEW bd
    PROVE  /\ Observe(v, Death(bd)).alive \in BOOLEAN
           /\ Observe(v, Death(bd)).bdseq = v.bdseq
           /\ Observe(v, Death(bd)).alive => v.alive
  BY DEF Observe, Death, Dead

\* A message of the session leaves the subscriber with its own birth, when it is
\* one, and with the birth it had otherwise.
LEMMA MessageObserved ==
    ASSUME NEW v, v.alive \in BOOLEAN, v.alive => v.bdseq = 0, bdseq = 0,
           NEW type \in {"NBIRTH", "DBIRTH", "DDEATH"}, NEW d
    PROVE  /\ Observe(v, message(type, d)).alive \in BOOLEAN
           /\ Observe(v, message(type, d)).alive => Observe(v, message(type, d)).bdseq = 0
  BY DEF Observe, message

\* network.publish leaves the subscriber with a birth of the first count.
LEMMA SendKeeps ==
    ASSUME ServiceInv, bdseq = 0,
           NEW type \in {"NBIRTH", "DBIRTH", "DDEATH"}, NEW d, Send(type, d)
    PROVE  view'.alive \in BOOLEAN /\ (view'.alive => view'.bdseq = 0)
  BY MessageObserved DEF Send, ServiceInv

\* A CONNECT leaves the subscriber with a birth of the first count.
LEMMA ConnectKeeps ==
    ASSUME ServiceInv, NEW bd, ConnectPacket(bd)
    PROVE  view'.alive \in BOOLEAN /\ (view'.alive => view'.bdseq = 0)
  BY DeathObserved DEF ConnectPacket, ServiceInv

\* Every step of main(), of the link and of the broker keeps the invariant.
LEMMA ServiceStep ==
    ASSUME ServiceInv, [ServiceNext]_all_vars
    PROVE  ServiceInv'
  <1> USE DEF Running, Ended, NoWill
  <1>1. CASE Start BY <1>1 DEF Start, ServiceInv
  <1>2. CASE AnnounceConnect
    <2>1. bdseq' = 0 BY <1>2, FirstCount DEF AnnounceConnect, ServiceInv
    <2>2. view'.alive \in BOOLEAN /\ (view'.alive => view'.bdseq = 0)
      BY <1>2, ConnectKeeps DEF AnnounceConnect
    <2> QED BY <1>2, <2>1, <2>2 DEF AnnounceConnect, ConnectPacket, ServiceInv
  <1>3. CASE PublishNodeBirth
    BY <1>3, SendKeeps DEF PublishNodeBirth, ServiceInv
  <1>4. CASE PublishDeviceBirth
    BY <1>4, SendKeeps DEF PublishDeviceBirth, ServiceInv
  <1>5. CASE Stop BY <1>5 DEF Stop, vars, session_vars, ServiceInv
  <1>6. CASE PublishDeviceDeath
    BY <1>6, SendKeeps DEF PublishDeviceDeath, ServiceInv
  <1>7. CASE Leave BY <1>7 DEF Leave, session_vars, ServiceInv
  <1>8. CASE Crash BY <1>8 DEF Crash, vars, session_vars, ServiceInv
  <1>9. CASE LinkLoss BY <1>9 DEF LinkLoss, vars, session_vars, ServiceInv
  <1>10. CASE Reconnect
    <2>1. view'.alive \in BOOLEAN /\ (view'.alive => view'.bdseq = 0)
      BY <1>10, ConnectKeeps DEF Reconnect
    <2> QED BY <1>10, <2>1 DEF Reconnect, ConnectPacket, session_vars, ServiceInv
  <1>11. CASE BrokerTimeout
    BY <1>11, DeathObserved DEF BrokerTimeout, session_vars, service_vars, ServiceInv
  <1>12. CASE UNCHANGED all_vars
    BY <1>12 DEF all_vars, vars, session_vars, service_vars, ServiceInv
  <1> QED
    BY <1>1, <1>2, <1>3, <1>4, <1>5, <1>6, <1>7, <1>8, <1>9, <1>10, <1>11, <1>12
    DEF ServiceNext

\* The container's session, its link and the broker agree on the count of births
\* and wills through every crash, restart, link loss and reconnection.
THEOREM ServiceCorrect == ServiceSpec => []ServiceInv
  <1>1. ASSUME ServiceInit PROVE ServiceInv
    <2>1. view.alive = FALSE BY <1>1 DEF ServiceInit, Init, Dead
    <2>2. pc = "off" /\ link = FALSE /\ bdseq = -1 /\ will = NoWill
      BY <1>1 DEF ServiceInit, Init
    <2> QED BY <2>1, <2>2 DEF ServiceInv, Running, Ended
  <1>2. ServiceInv /\ [ServiceNext]_all_vars => ServiceInv' BY ServiceStep
  <1> QED BY <1>1, <1>2, PTL DEF ServiceSpec

\* A device that the subscriber holds for alive over a standing link is covered by
\* the will that announce() gave the broker, for any number of starts and losses.
THEOREM BirthsCovered == ServiceSpec => []BirthIsCovered
  <1>1. ServiceInv => BirthIsCovered BY DEF ServiceInv, BirthIsCovered
  <1> QED BY <1>1, ServiceCorrect, PTL

\* farewell() is not reported as an outage: after a DISCONNECT over a standing
\* link nothing reaches the subscriber until the container is started again.
THEOREM StopsQuietly == ServiceSpec => StopIsQuiet
  <1>1. ASSUME ServiceInv, [ServiceNext]_all_vars, pc = "left"
        PROVE  UNCHANGED view
    <2>1. will = NoWill BY <1>1 DEF ServiceInv
    <2>2. ~BrokerTimeout BY <2>1 DEF BrokerTimeout
    <2>3. UNCHANGED all_vars => UNCHANGED view BY DEF all_vars, vars
    <2>4. \/ Start \/ LinkLoss \/ UNCHANGED all_vars
      BY <1>1, <2>2 DEF ServiceNext, Running, AnnounceConnect, PublishNodeBirth,
         PublishDeviceBirth, Stop, PublishDeviceDeath, Leave, Crash, Reconnect
    <2> QED BY <2>3, <2>4 DEF Start, LinkLoss, vars
  <1>2. ServiceInv /\ [ServiceNext]_all_vars => [pc = "left" => UNCHANGED view]_all_vars
    BY <1>1
  <1> QED BY <1>2, ServiceCorrect, PTL DEF ServiceSpec, StopIsQuiet
=============================================================================
