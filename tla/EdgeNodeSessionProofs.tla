------------------------ MODULE EdgeNodeSessionProofs ------------------------
(***************************************************************************)
(* Theorems about EdgeNodeSession, for any number of devices and any       *)
(* modulus.                                                                *)
(***************************************************************************)
EXTENDS EdgeNodeSession, TLAPS

View == [alive : BOOLEAN, bdseq : {NoWill} \cup Byte, born : SUBSET Devices, next : Byte]

\* A session that is connected has counted at least one connection, a node that
\* looks alive carries a count, and a DBIRTH names a device.
SessionInv ==
    /\ connected => bdseq \in Byte
    /\ view.alive => view.bdseq # NoWill
    /\ \A i \in DOMAIN outbox : outbox[i].type = "DBIRTH" => outbox[i].device \in Devices

\* What correlates births and deaths: while the bus holds a will, it is the will
\* of the session as it counts now, and so is every message that is on its way.
CoverInv ==
    /\ will # NoWill => will = bdseq
    /\ will # NoWill => \A i \in DOMAIN outbox : outbox[i].bdseq = will
    /\ DeathIsCovered

\* Wrapped counters are bytes.
LEMMA Wrapped ==
    ASSUME NEW n \in Nat
    PROVE  n % SEQUENCE_MODULUS \in Byte
  BY NodeAssumption DEF Byte

\* The remainder of a number is the one below the modulus.
LEMMA ModUnique ==
    ASSUME NEW M \in Nat \ {0}, NEW q \in Int, NEW r \in 0..M-1
    PROVE  ((M * q) + r) % M = r
  OBVIOUS

\* A counter that wraps counts as one that does not and is wrapped afterwards.
LEMMA WrapNext ==
    ASSUME NEW M \in Nat \ {0}, NEW n \in Nat
    PROVE  ((n % M) + 1) % M = (n+1) % M
  <1> DEFINE q == n \div M
             r == n % M
  <1>1. n = (M * q) + r OBVIOUS
  <1>2. r \in 0..M-1 OBVIOUS
  <1>0. q \in Int OBVIOUS
  <1> HIDE DEF q, r
  <1>3. CASE r + 1 < M
    <2>1. r + 1 \in 0..M-1 BY <1>2, <1>3
    <2>2. ((M * q) + (r + 1)) % M = r + 1 BY <1>0, <2>1, ModUnique
    <2>3. n + 1 = (M * q) + (r + 1) BY <1>0, <1>1, <1>2
    <2>4. (r + 1) % M = r + 1 BY <2>1
    <2> QED BY <2>2, <2>3, <2>4 DEF r
  <1>4. CASE r + 1 = M
    <2>1. ((M * (q+1)) + 0) % M = 0 BY <1>0, <1>2, ModUnique
    <2>2. M * (q + 1) = (M * q) + M BY <1>0
    <2>3. n + 1 = (M * (q + 1)) + 0 BY <1>0, <1>1, <1>2, <1>4, <2>2
    <2>4. (r + 1) % M = 0 BY <1>4
    <2> QED BY <2>1, <2>3, <2>4 DEF r
  <1> QED BY <1>2, <1>3, <1>4

\* The messages that are left after one is published.
LEMMA TailFacts ==
    ASSUME NEW S, NEW q \in Seq(S), q # <<>>
    PROVE  /\ Tail(q) \in Seq(S) /\ Head(q) \in S
           /\ 1 \in DOMAIN q /\ Head(q) = q[1]
           /\ \A i \in DOMAIN Tail(q) : i + 1 \in DOMAIN q /\ Tail(q)[i] = q[i+1]
  OBVIOUS

\* A call that hands back one message.
LEMMA HandBackType ==
    ASSUME TypeOK, SessionInv, connected,
           NEW type \in {"NBIRTH", "DBIRTH", "NDATA", "DDATA", "DDEATH"},
           NEW d \in {NoDevice} \cup Devices, HandBack(type, d)
    PROVE  /\ outbox' \in Seq(Message) /\ seq' \in Byte
           /\ DOMAIN outbox' = {1} /\ outbox'[1].type = type /\ outbox'[1].device = d
           /\ outbox'[1].bdseq = bdseq
  <1>1. message(type, d) \in Message
    BY DEF message, Message, TypeOK, SessionInv
  <1>2. seq + 1 \in Nat
    BY NodeAssumption DEF TypeOK, Byte
  <1>3. seq' \in Byte
    BY <1>2, Wrapped DEF HandBack, next_seq
  <1>4. outbox' = <<message(type, d)>> BY DEF HandBack
  <1>5. outbox' \in Seq(Message) /\ DOMAIN outbox' = {1} /\ outbox'[1] = message(type, d)
    BY <1>1, <1>4
  <1> QED BY <1>3, <1>5 DEF message

\* The births of a node and all its devices.
LEMMA BirthTypes ==
    ASSUME NEW bd \in Byte
    PROVE  /\ BirthMessages(bd) \in Seq(Message)
           /\ \A i \in DOMAIN BirthMessages(bd) :
                 /\ BirthMessages(bd)[i].bdseq = bd
                 /\ BirthMessages(bd)[i].type = "DBIRTH" => BirthMessages(bd)[i].device \in Devices
  <1>1. NumDevices + 1 \in Nat BY NodeAssumption
  <1>2. ASSUME NEW i \in 1..NumDevices+1
        PROVE  [type |-> IF i = 1 THEN "NBIRTH" ELSE "DBIRTH", device |-> i - 1,
                seq |-> (i - 1) % SEQUENCE_MODULUS, bdseq |-> bd] \in Message
    <2>1. (i - 1) % SEQUENCE_MODULUS \in Byte BY <1>1, Wrapped
    <2>2. i - 1 \in {NoDevice} \cup Devices BY <1>1, NodeAssumption DEF NoDevice, Devices
    <2> QED BY <2>1, <2>2 DEF Message
  <1>3. BirthMessages(bd) \in [1..NumDevices+1 -> Message]
    BY <1>2 DEF BirthMessages
  <1>4. DOMAIN BirthMessages(bd) = 1..NumDevices+1 BY DEF BirthMessages
  <1>5. ASSUME NEW i \in 1..NumDevices+1
        PROVE  /\ BirthMessages(bd)[i].bdseq = bd
               /\ BirthMessages(bd)[i].type = "DBIRTH" => BirthMessages(bd)[i].device \in Devices
    BY <1>1, NodeAssumption DEF BirthMessages, Devices
  <1> QED BY <1>1, <1>3, <1>4, <1>5

\* What the subscriber makes of a message is a model of the node.
LEMMA ObserveType ==
    ASSUME NEW v \in View, NEW m \in Message, m.type = "DBIRTH" => m.device \in Devices
    PROVE  Observe(v, m) \in View
  <1>1. 0 \in Byte BY NodeAssumption DEF Byte
  <1>2. /\ v.alive \in BOOLEAN /\ v.bdseq \in {NoWill} \cup Byte
        /\ v.born \in SUBSET Devices /\ v.next \in Byte
    BY DEF View
  <1>3. m.seq \in {NoWill} \cup Byte /\ m.bdseq \in Byte BY DEF Message
  <1>4. m.seq + 1 \in Nat BY <1>3, NodeAssumption DEF Byte, NoWill
  <1>5. (m.seq + 1) % SEQUENCE_MODULUS \in Byte BY <1>4, Wrapped
  <1>6. CASE m.type = "NBIRTH"
    BY <1>3, <1>5, <1>6 DEF Observe, View
  <1>7. CASE m.type = "NDEATH"
    BY <1>1, <1>2, <1>7 DEF Observe, View, Dead
  <1>8. CASE m.type \notin {"NBIRTH", "NDEATH"}
    <2> DEFINE bs == IF m.type = "DBIRTH" THEN v.born \cup {m.device}
                     ELSE IF m.type = "DDEATH" THEN v.born \ {m.device} ELSE v.born
    <2>1. bs \in SUBSET Devices BY <1>2
    <2>2. Observe(v, m) = [alive |-> v.alive, bdseq |-> v.bdseq, born |-> bs,
                           next |-> (m.seq + 1) % SEQUENCE_MODULUS]
      BY <1>8 DEF Observe
    <2> HIDE DEF bs
    <2> QED BY <1>2, <1>5, <2>1, <2>2 DEF View
  <1> QED BY <1>6, <1>7, <1>8
-----------------------------------------------------------------------------
(* Types, and the cover of every birth by a will.                          *)

SafeInv == TypeOK /\ SessionInv /\ CoverInv

\* Every method that hands back one message keeps the cover.
LEMMA OneMessageSafe ==
    ASSUME Orderly, SafeInv, NEW d \in {NoDevice} \cup Devices,
           \/ NodeBirth \/ NodeData
           \/ d \in Devices /\ (DeviceBirth(d) \/ DeviceData(d) \/ DeviceDeath(d))
    PROVE  SafeInv'
  <1>1. /\ outbox = <<>> /\ connected /\ UNCHANGED <<connected, bdseq, will, view>>
        /\ outbox' \in Seq(Message) /\ seq' \in Byte
        /\ DOMAIN outbox' = {1} /\ outbox'[1].bdseq = bdseq
        /\ outbox'[1].type = "DBIRTH" => outbox'[1].device \in Devices
        /\ node_born' \in BOOLEAN /\ born' \subseteq Devices
    <2>1. CASE NodeBirth
      BY <2>1, HandBackType DEF NodeBirth, Idle, SafeInv, TypeOK
    <2>2. CASE NodeData
      BY <2>2, HandBackType DEF NodeData, Idle, require_all_born, SafeInv, TypeOK
    <2>3. CASE d \in Devices /\ DeviceBirth(d)
      BY <2>3, HandBackType DEF DeviceBirth, Idle, SafeInv, TypeOK
    <2>4. CASE d \in Devices /\ DeviceData(d)
      BY <2>4, HandBackType DEF DeviceData, Idle, require_all_born, SafeInv, TypeOK
    <2>5. CASE d \in Devices /\ DeviceDeath(d)
      BY <2>5, HandBackType DEF DeviceDeath, Idle, SafeInv, TypeOK
    <2> QED BY <2>1, <2>2, <2>3, <2>4, <2>5
  <1>2. TypeOK' BY <1>1 DEF SafeInv, TypeOK
  <1>3. SessionInv' BY <1>1 DEF SafeInv, SessionInv
  <1>4. CoverInv' BY <1>1 DEF SafeInv, CoverInv, DeathIsCovered
  <1> QED BY <1>2, <1>3, <1>4 DEF SafeInv

\* connect(): the new will is that of the new count.
LEMMA ConnectSafe ==
    ASSUME Orderly, SafeInv, Connect
    PROVE  SafeInv'
  <1>1. /\ outbox = <<>> /\ will = NoWill /\ bdseq' = (bdseq + 1) % SEQUENCE_MODULUS
        /\ will' = bdseq' /\ connected' = TRUE /\ node_born' = FALSE /\ born' = {} /\ seq' = 0
        /\ UNCHANGED <<outbox, view>>
    BY DEF Connect, Idle
  <1>2. bdseq \in {-1} \cup Byte BY DEF SafeInv, TypeOK
  <1>3. bdseq + 1 \in Nat BY <1>2, NodeAssumption DEF Byte
  <1>4. bdseq' \in Byte BY <1>1, <1>3, Wrapped
  <1>5. view.alive = FALSE
    <2>1. view.alive => view.bdseq = NoWill BY <1>1 DEF SafeInv, CoverInv, DeathIsCovered
    <2>2. view.alive \in BOOLEAN BY DEF SafeInv, TypeOK
    <2>3. view.alive => view.bdseq # NoWill BY DEF SafeInv, SessionInv
    <2> QED BY <2>1, <2>2, <2>3
  <1>6. 0 \in Byte BY NodeAssumption DEF Byte
  <1>7. TypeOK' BY <1>1, <1>4, <1>6 DEF SafeInv, TypeOK
  <1>8. SessionInv' BY <1>1, <1>4 DEF SafeInv, SessionInv
  <1>9. CoverInv' BY <1>1, <1>5 DEF SafeInv, CoverInv, DeathIsCovered
  <1> QED BY <1>7, <1>8, <1>9 DEF SafeInv

\* disconnect() and a rebirth hand back messages of the count the will carries.
LEMMA DisconnectSafe ==
    ASSUME SafeInv, Disconnect \/ Rebirth
    PROVE  SafeInv'
  <1>1. /\ outbox = <<>> /\ bdseq \in Byte /\ UNCHANGED <<bdseq, will, view>>
    BY DEF Disconnect, Rebirth, Idle, SafeInv, SessionInv
  <1>2. /\ outbox' \in Seq(Message)
        /\ \A i \in DOMAIN outbox' :
              /\ outbox'[i].bdseq = bdseq
              /\ outbox'[i].type = "DBIRTH" => outbox'[i].device \in Devices
    <2>1. CASE Disconnect
      <3>1. Death(bdseq) \in Message BY <1>1 DEF Death, Message
      <3> QED BY <2>1, <3>1 DEF Disconnect, Death
    <2>2. CASE Rebirth
      BY <1>1, <2>2, BirthTypes DEF Rebirth
    <2> QED BY <2>1, <2>2
  <1>3. seq' \in Byte
    <2>1. NumDevices + 1 \in Nat BY NodeAssumption
    <2>2. (NumDevices + 1) % SEQUENCE_MODULUS \in Byte BY <2>1, Wrapped
    <2> QED BY <2>2 DEF Disconnect, Rebirth, SafeInv, TypeOK
  <1>4. /\ connected' \in BOOLEAN /\ node_born' \in BOOLEAN
        /\ born' \subseteq Devices
    BY DEF Disconnect, Rebirth, SafeInv, TypeOK
  <1>5. TypeOK' BY <1>1, <1>2, <1>3, <1>4 DEF SafeInv, TypeOK
  <1>6. SessionInv' BY <1>1, <1>2 DEF SafeInv, SessionInv
  <1>7. CoverInv' BY <1>1, <1>2 DEF SafeInv, CoverInv, DeathIsCovered
  <1> QED BY <1>5, <1>6, <1>7 DEF SafeInv

\* A death of the will's count ends the model of a node that looks alive.
LEMMA DeathEnds ==
    ASSUME SafeInv, will # NoWill, NEW m \in Message, m.type = "NDEATH", m.bdseq = will
    PROVE  Observe(view, m).alive = FALSE
  <1>1. Observe(view, m) = IF m.bdseq = view.bdseq THEN Dead(view.bdseq) ELSE view
    BY DEF Observe
  <1>2. view.alive \in BOOLEAN BY DEF SafeInv, TypeOK
  <1>3. view.alive => will = view.bdseq BY DEF SafeInv, CoverInv, DeathIsCovered
  <1> QED BY <1>1, <1>2, <1>3 DEF Dead

\* The transport: a published message, and a drop.
LEMMA TransportSafe ==
    ASSUME SafeInv, Publish \/ Drop
    PROVE  SafeInv'
  <1>0. /\ outbox \in Seq(Message) /\ will \in {NoWill} \cup Byte /\ view \in View
        /\ UNCHANGED session_vars
    BY DEF SafeInv, TypeOK, View, Publish, Drop
  <1>1. ASSUME outbox' \in Seq(Message), will' \in {NoWill} \cup Byte, view' \in View
        PROVE  TypeOK'
    BY <1>0, <1>1 DEF SafeInv, TypeOK, View, session_vars
  <1>2. CASE Publish /\ will = NoWill
    <2>1. outbox' = <<>> /\ UNCHANGED <<view, will>> BY <1>2 DEF Publish
    <2>2. TypeOK' BY <1>0, <1>1, <2>1
    <2> QED BY <1>0, <2>1, <2>2 DEF SafeInv, SessionInv, CoverInv, DeathIsCovered, session_vars
  <1>3. CASE Publish /\ will # NoWill
    <2> DEFINE m == Head(outbox)
    <2>1. /\ outbox # <<>> /\ outbox' = Tail(outbox) /\ view' = Observe(view, m)
          /\ will' = IF m.type = "NDEATH" THEN NoWill ELSE will
      BY <1>3 DEF Publish
    <2>2. /\ outbox' \in Seq(Message) /\ m \in Message /\ 1 \in DOMAIN outbox /\ m = outbox[1]
          /\ \A i \in DOMAIN outbox' : i + 1 \in DOMAIN outbox /\ outbox'[i] = outbox[i+1]
      BY <1>0, <2>1, TailFacts
    <2>3. /\ m.type = "DBIRTH" => m.device \in Devices
          /\ m.bdseq = will
      BY <1>3, <2>2 DEF SafeInv, SessionInv, CoverInv
    <2> HIDE DEF m
    <2>4. TypeOK' BY <1>0, <1>1, <2>1, <2>2, <2>3, ObserveType
    <2>5. SessionInv'
      <3>1. view'.alive => view'.bdseq # NoWill
        <4>1. view.alive => view.bdseq # NoWill BY DEF SafeInv, SessionInv
        <4> QED BY <1>3, <2>1, <2>3, <4>1 DEF Observe, Dead
      <3> QED BY <1>0, <2>2, <3>1 DEF SafeInv, SessionInv, session_vars
    <2>6. DeathIsCovered'
      <3>1. CASE m.type = "NDEATH"
        <4>1. view'.alive = FALSE BY <1>3, <2>1, <2>2, <2>3, <3>1, DeathEnds
        <4> QED BY <4>1 DEF DeathIsCovered
      <3>2. CASE m.type = "NBIRTH"
        <4>1. view'.bdseq = will /\ will' = will BY <2>1, <2>3, <3>2 DEF Observe
        <4> QED BY <4>1 DEF DeathIsCovered
      <3>3. CASE m.type \notin {"NBIRTH", "NDEATH"}
        <4>1. view'.alive = view.alive /\ view'.bdseq = view.bdseq /\ will' = will
          BY <2>1, <3>3 DEF Observe
        <4> QED BY <4>1 DEF SafeInv, CoverInv, DeathIsCovered
      <3> QED BY <3>1, <3>2, <3>3
    <2>7. CoverInv'
      BY <1>0, <1>3, <2>1, <2>2, <2>6 DEF SafeInv, CoverInv, session_vars
    <2> QED BY <2>4, <2>5, <2>7 DEF SafeInv
  <1>4. CASE Drop
    <2>1. /\ will # NoWill /\ view' = Observe(view, Death(will)) /\ will' = NoWill
          /\ UNCHANGED outbox
      BY <1>4 DEF Drop
    <2>2. /\ Death(will) \in Message /\ Death(will).type = "NDEATH" /\ Death(will).bdseq = will
      BY <1>0, <2>1 DEF Death, Message
    <2>3. view'.alive = FALSE BY <2>1, <2>2, DeathEnds
    <2>4. view' \in View BY <1>0, <2>1, <2>2, ObserveType
    <2>5. TypeOK' BY <1>0, <1>1, <2>1, <2>4
    <2> QED BY <1>0, <2>1, <2>3, <2>5
            DEF SafeInv, SessionInv, CoverInv, DeathIsCovered, session_vars
  <1> QED BY <1>2, <1>3, <1>4
-----------------------------------------------------------------------------
(* The stream of messages and the subscriber's model of the node.          *)

\* The model v is the session's own record.
Synced(v) ==
    /\ v.alive = node_born
    /\ node_born => v.born = born /\ v.next = seq

\* m continues the stream, can be read, and brings the model up to date.
Deliverable(m) ==
    /\ ~Gap(view, m) /\ ~Unreadable(view, m)
    /\ m.type # "NDEATH" => Synced(Observe(view, m))

\* A rebirth of which k messages have been published.
RebirthFrom(k) ==
    /\ node_born /\ born = Devices /\ seq = (NumDevices + 1) % SEQUENCE_MODULUS
    /\ Len(outbox) = NumDevices + 1 - k
    /\ \A i \in 1..NumDevices+1-k : outbox[i] = BirthMessages(bdseq)[k+i]
    /\ k > 0 => view.alive /\ view.next = k % SEQUENCE_MODULUS /\ view.born = 1..k-1

\* While the connection holds, the model is up to date, one message behind, or
\* within a rebirth.
StreamInv ==
    /\ ~node_born => born = {}
    /\ will # NoWill =>
          \/ outbox = <<>> /\ Synced(view)
          \/ Len(outbox) = 1 /\ Deliverable(outbox[1])
          \/ \E k \in 0..NumDevices : RebirthFrom(k)

\* When nothing is on its way the model is up to date.
LEMMA IdleSynced ==
    ASSUME StreamInv, outbox = <<>>, will # NoWill
    PROVE  Synced(view)
  <1>1. Len(outbox) = 0
    OBVIOUS
  <1>2. ASSUME NEW k \in 0..NumDevices, RebirthFrom(k) PROVE FALSE
    <2>1. Len(outbox) = NumDevices + 1 - k BY <1>2 DEF RebirthFrom
    <2> QED BY <1>1, <2>1, NodeAssumption
  <1> QED BY <1>1, <1>2 DEF StreamInv

\* A message that carries the session's number follows the ones before it.
LEMMA HandBackDeliverable ==
    ASSUME Orderly, SafeInv, StreamInv, will # NoWill, NEW d \in {NoDevice} \cup Devices,
           \/ NodeBirth \/ NodeData
           \/ d \in Devices /\ (DeviceBirth(d) \/ DeviceData(d) \/ DeviceDeath(d))
    PROVE  Len(outbox') = 1 /\ Deliverable(outbox[1])'
  <1>1. outbox = <<>> /\ UNCHANGED view
    BY DEF NodeBirth, NodeData, DeviceBirth, DeviceData, DeviceDeath, Idle
  <1>2. view.alive = node_born /\ (node_born => view.born = born /\ view.next = seq)
    BY <1>1, IdleSynced DEF Synced
  <1>3. seq' = (seq + 1) % SEQUENCE_MODULUS
    BY DEF NodeBirth, NodeData, DeviceBirth, DeviceData, DeviceDeath, HandBack, next_seq
  <1>4. CASE NodeBirth
    <2>1. outbox' = <<message("NBIRTH", NoDevice)>> BY <1>4 DEF NodeBirth, HandBack
    <2>2. born = {} BY <1>4 DEF NodeBirth, StreamInv
    <2>3. born' = {} /\ node_born' = TRUE BY <1>4, <2>2 DEF NodeBirth
    <2>4. outbox'[1] = message("NBIRTH", NoDevice) BY <2>1
    <2>5. Observe(view, message("NBIRTH", NoDevice)) =
             [alive |-> TRUE, bdseq |-> bdseq, born |-> {}, next |-> seq']
      BY <1>3 DEF Observe, message
    <2>6. ~Gap(view, message("NBIRTH", NoDevice)) /\ ~Unreadable(view, message("NBIRTH", NoDevice))
      BY DEF Gap, Unreadable, message
    <2>7. Deliverable(outbox[1])'
      BY <1>1, <2>3, <2>4, <2>5, <2>6 DEF Deliverable, Gap, Unreadable, Synced, Observe
    <2> QED BY <2>1, <2>4, <2>7
  <1>5. ASSUME node_born, node_born' = node_born, NEW type \in {"NDATA", "DBIRTH", "DDATA", "DDEATH"},
               outbox' = <<message(type, d)>>,
               type = "DDATA" => d \in born,
               born' = IF type = "DBIRTH" THEN born \cup {d}
                       ELSE IF type = "DDEATH" THEN born \ {d} ELSE born
        PROVE  Len(outbox') = 1 /\ Deliverable(outbox[1])'
    <2>1. outbox'[1] = message(type, d) BY <1>5
    <2>2. view.alive = TRUE /\ view.born = born /\ view.next = seq /\ node_born = TRUE
      BY <1>2, <1>5 DEF SafeInv, TypeOK
    <2>3. ~Gap(view, message(type, d)) /\ ~Unreadable(view, message(type, d))
      BY <1>5, <2>2 DEF Gap, Unreadable, message
    <2>4. Observe(view, message(type, d)) = [alive |-> view.alive, bdseq |-> view.bdseq,
                                             born |-> born', next |-> seq']
      BY <1>3, <1>5, <2>2 DEF Observe, message
    <2>5. Deliverable(outbox[1])'
      BY <1>1, <1>5, <2>1, <2>2, <2>3, <2>4 DEF Deliverable, Synced, Gap, Unreadable, Observe
    <2> QED BY <1>5, <2>1, <2>5
  <1>6. CASE NodeData
    <2>1. /\ node_born /\ node_born' = node_born /\ born' = born
          /\ outbox' = <<message("NDATA", NoDevice)>>
      BY <1>6 DEF NodeData, require_all_born, HandBack
    <2>2. outbox'[1] = message("NDATA", NoDevice) BY <2>1
    <2>3. view.alive = TRUE /\ view.born = born /\ view.next = seq /\ node_born = TRUE
      BY <1>2, <2>1 DEF SafeInv, TypeOK
    <2>4. Deliverable(outbox[1])'
      BY <1>1, <1>3, <2>1, <2>2, <2>3 DEF Deliverable, Synced, Gap, Unreadable, Observe, message
    <2> QED BY <2>1, <2>4
  <1>7. CASE d \in Devices /\ DeviceBirth(d)
    BY <1>5, <1>7 DEF DeviceBirth, HandBack
  <1>8. CASE d \in Devices /\ DeviceData(d)
    BY <1>5, <1>8 DEF DeviceData, HandBack, require_all_born
  <1>9. CASE d \in Devices /\ DeviceDeath(d)
    <2>1. node_born BY <1>9 DEF DeviceDeath, StreamInv
    <2> QED BY <1>5, <1>9, <2>1 DEF DeviceDeath, HandBack
  <1> QED BY <1>4, <1>6, <1>7, <1>8, <1>9

\* The next message of a rebirth is readable, and the model keeps step with it.
LEMMA RebirthHead ==
    ASSUME SafeInv, NEW k \in 0..NumDevices, RebirthFrom(k)
    PROVE  /\ outbox # <<>> /\ Head(outbox) = BirthMessages(bdseq)[k+1]
           /\ ~Gap(view, Head(outbox)) /\ ~Unreadable(view, Head(outbox))
           /\ Head(outbox).type # "NDEATH"
           /\ Observe(view, Head(outbox)).alive = TRUE
           /\ Observe(view, Head(outbox)).next = (k + 1) % SEQUENCE_MODULUS
           /\ Observe(view, Head(outbox)).born = 1..k
  <1>0. NumDevices \in Nat /\ k \in Nat /\ k <= NumDevices BY NodeAssumption
  <1> DEFINE m == [type |-> IF k = 0 THEN "NBIRTH" ELSE "DBIRTH", device |-> k,
                   seq |-> k % SEQUENCE_MODULUS, bdseq |-> bdseq]
  <1>1. BirthMessages(bdseq)[k+1] = m
    BY <1>0 DEF BirthMessages
  <1>2. outbox # <<>> /\ Head(outbox) = outbox[1]
    <2>1. outbox \in Seq(Message) BY DEF SafeInv, TypeOK
    <2>2. Len(outbox) >= 1 BY <1>0 DEF RebirthFrom
    <2> QED BY <2>1, <2>2
  <1>3. outbox[1] = BirthMessages(bdseq)[k+1]
    BY <1>0 DEF RebirthFrom
  <1>4. ~Gap(view, m) /\ ~Unreadable(view, m) /\ m.type # "NDEATH"
    BY <1>0 DEF Gap, Unreadable, RebirthFrom
  <1>5. /\ Observe(view, m).alive = TRUE /\ Observe(view, m).born = 1..k
        /\ Observe(view, m).next = ((k % SEQUENCE_MODULUS) + 1) % SEQUENCE_MODULUS
    <2>1. CASE k = 0
      <3>1. Observe(view, m) = [alive |-> TRUE, bdseq |-> bdseq, born |-> {},
                                next |-> ((k % SEQUENCE_MODULUS) + 1) % SEQUENCE_MODULUS]
        BY <2>1 DEF Observe
      <3>2. 1..k = {} BY <2>1
      <3> HIDE DEF m
      <3> QED BY <3>1, <3>2
    <2>2. CASE k > 0
      <3>1. Observe(view, m) = [alive |-> view.alive, bdseq |-> view.bdseq,
                                born |-> view.born \cup {k},
                                next |-> ((k % SEQUENCE_MODULUS) + 1) % SEQUENCE_MODULUS]
        BY <1>0, <2>2, SMTT(60) DEF Observe
      <3>2. view.alive = TRUE /\ view.born = 1..k-1 BY <2>2 DEF RebirthFrom, SafeInv, TypeOK
      <3>3. (1..k-1) \cup {k} = 1..k BY <1>0, <2>2
      <3> HIDE DEF m
      <3> QED BY <3>1, <3>2, <3>3
    <2>3. k = 0 \/ k > 0 BY <1>0
    <2> HIDE DEF m
    <2> QED BY <2>1, <2>2, <2>3
  <1>6. ((k % SEQUENCE_MODULUS) + 1) % SEQUENCE_MODULUS = (k + 1) % SEQUENCE_MODULUS
    BY <1>0, NodeAssumption, WrapNext
  <1> HIDE DEF m
  <1> QED BY <1>1, <1>2, <1>3, <1>4, <1>5, <1>6

\* One more message of a rebirth is published.
LEMMA RebirthPublish ==
    ASSUME SafeInv, will # NoWill, Publish, NEW k \in 0..NumDevices, RebirthFrom(k)
    PROVE  \/ outbox' = <<>> /\ Synced(view)'
           \/ \E n \in 0..NumDevices : RebirthFrom(n)'
  <1>0. NumDevices \in Nat /\ k \in Nat /\ k <= NumDevices BY NodeAssumption
  <1> DEFINE N == NumDevices + 1 - k
             bm == BirthMessages(bdseq)
  <1>1. /\ outbox' = Tail(outbox) /\ view' = Observe(view, Head(outbox))
        /\ UNCHANGED <<node_born, born, seq, bdseq>>
    BY DEF Publish, session_vars
  <1>2. /\ view'.alive = TRUE /\ view'.next = (k + 1) % SEQUENCE_MODULUS /\ view'.born = 1..k
    BY <1>1, RebirthHead
  <1>3. /\ node_born /\ born = Devices /\ seq = (NumDevices + 1) % SEQUENCE_MODULUS
        /\ Len(outbox) = N /\ \A i \in 1..N : outbox[i] = bm[k+i]
    BY DEF RebirthFrom
  <1>4. N \in Nat /\ N >= 1 /\ outbox \in Seq(Message) BY <1>0 DEF SafeInv, TypeOK
  <1> HIDE DEF N, bm
  <1>5. /\ Tail(outbox) \in Seq(Message) /\ Len(Tail(outbox)) = N - 1
        /\ \A i \in 1..N-1 : Tail(outbox)[i] = outbox[i+1]
    BY <1>3, <1>4
  <1>6. \A i \in 1..N-1 : Tail(outbox)[i] = bm[k+1+i]
    <2> SUFFICES ASSUME NEW i \in 1..N-1 PROVE Tail(outbox)[i] = bm[k+1+i]
      OBVIOUS
    <2>1. i + 1 \in 1..N /\ k + (i + 1) = k + 1 + i BY <1>0, <1>4
    <2> QED BY <1>3, <1>5, <2>1
  <1>7. CASE k = NumDevices
    <2>1. N = 1 BY <1>0, <1>7 DEF N
    <2>2. outbox' = <<>>
      <3>1. Len(Tail(outbox)) = 0 BY <1>5, <2>1
      <3> QED BY <1>1, <1>5, <3>1
    <2>3. node_born = TRUE BY <1>3 DEF SafeInv, TypeOK
    <2>4. Synced(view)' BY <1>1, <1>2, <1>3, <1>7, <2>3 DEF Synced, Devices
    <2> QED BY <2>2, <2>4
  <1>8. CASE k < NumDevices
    <2>1. k + 1 \in 0..NumDevices /\ (k + 1) - 1 = k /\ k + 1 > 0 BY <1>0, <1>8
    <2>2. NumDevices + 1 - (k + 1) = N - 1 BY <1>0 DEF N
    <2>3. /\ Len(outbox') = NumDevices + 1 - (k + 1)
          /\ \A i \in 1..NumDevices+1-(k+1) : outbox'[i] = BirthMessages(bdseq')[k+1+i]
      BY <1>1, <1>5, <1>6, <2>2 DEF bm
    <2>4. RebirthFrom(k + 1)'
      BY <1>1, <1>2, <1>3, <2>1, <2>3 DEF RebirthFrom, BirthMessages
    <2> QED BY <2>1, <2>4
  <1> QED BY <1>0, <1>7, <1>8

\* Every step keeps the subscriber in step with the session.
LEMMA StreamStep ==
    ASSUME Orderly, SafeInv, StreamInv, [Next]_vars
    PROVE  StreamInv'
  <1>1. CASE UNCHANGED vars
    <2>1. UNCHANGED <<node_born, born, will, outbox, view, seq, bdseq>>
      BY <1>1 DEF vars, session_vars
    <2> QED BY <2>1 DEF StreamInv, Synced, Deliverable, RebirthFrom
  <1>2. CASE Connect
    <2>1. view.alive = FALSE
      <3>1. will = NoWill BY <1>2 DEF Connect
      <3>2. view.alive => view.bdseq = NoWill /\ view.bdseq # NoWill
        BY <3>1 DEF SafeInv, SessionInv, CoverInv, DeathIsCovered
      <3>3. view.alive \in BOOLEAN BY DEF SafeInv, TypeOK
      <3> QED BY <3>2, <3>3
    <2>2. /\ node_born' = FALSE /\ born' = {} /\ outbox' = <<>> /\ view' = view
      BY <1>2 DEF Connect, Idle
    <2>3. Synced(view)' BY <2>1, <2>2 DEF Synced
    <2> QED BY <2>2, <2>3 DEF StreamInv
  <1>3. CASE Disconnect
    <2>1. born' = {} /\ outbox' = <<Death(bdseq)>> BY <1>3 DEF Disconnect
    <2>2. outbox'[1] = Death(bdseq) /\ Death(bdseq).type = "NDEATH" BY <2>1 DEF Death
    <2>3. Deliverable(outbox[1])' BY <2>2 DEF Deliverable, Gap, Unreadable
    <2> QED BY <2>1, <2>2, <2>3 DEF StreamInv
  <1>4. ASSUME NEW d \in {NoDevice} \cup Devices,
               \/ NodeBirth \/ NodeData
               \/ d \in Devices /\ (DeviceBirth(d) \/ DeviceData(d) \/ DeviceDeath(d))
        PROVE  StreamInv'
    <2>1. UNCHANGED will
      BY <1>4 DEF NodeBirth, NodeData, DeviceBirth, DeviceData, DeviceDeath
    <2>2. will # NoWill => Len(outbox') = 1 /\ Deliverable(outbox[1])'
      BY <1>4, HandBackDeliverable
    <2>3. ~node_born' => born' = {}
      BY <1>4 DEF NodeBirth, NodeData, DeviceBirth, DeviceData, DeviceDeath, StreamInv,
                  require_all_born
    <2> QED BY <2>1, <2>2, <2>3 DEF StreamInv
  <1>5. CASE Rebirth
    <2>0. NumDevices \in Nat BY NodeAssumption
    <2>1. /\ node_born' = TRUE /\ born' = Devices /\ outbox' = BirthMessages(bdseq)
          /\ seq' = (NumDevices + 1) % SEQUENCE_MODULUS /\ bdseq' = bdseq
      BY <1>5 DEF Rebirth
    <2>2. /\ Len(BirthMessages(bdseq)) = NumDevices + 1 - 0
          /\ \A i \in 1..NumDevices+1-0 : 0 + i = i
      BY <2>0 DEF BirthMessages
    <2>3. /\ Len(outbox') = NumDevices + 1 - 0
          /\ \A i \in 1..NumDevices+1-0 : outbox'[i] = BirthMessages(bdseq)[0+i]
      BY <2>1, <2>2
    <2>4. RebirthFrom(0)'
      BY <2>1, <2>3 DEF RebirthFrom
    <2>5. 0 \in 0..NumDevices BY <2>0
    <2> QED BY <2>1, <2>4, <2>5 DEF StreamInv
  <1>6. CASE Drop
    BY <1>6 DEF Drop, StreamInv, session_vars
  <1>7. CASE Publish /\ will = NoWill
    BY <1>7 DEF Publish, StreamInv, session_vars
  <1>8. CASE Publish /\ will # NoWill
    <2>1. /\ outbox # <<>> /\ UNCHANGED <<node_born, born, seq>> /\ outbox' = Tail(outbox)
          /\ view' = Observe(view, Head(outbox))
          /\ will' = IF Head(outbox).type = "NDEATH" THEN NoWill ELSE will
      BY <1>8 DEF Publish, session_vars
    <2>2. CASE Len(outbox) = 1 /\ Deliverable(outbox[1])
      <3>1. Head(outbox) = outbox[1] /\ Tail(outbox) = <<>>
        BY <2>1, <2>2 DEF SafeInv, TypeOK
      <3>2. will' # NoWill => Synced(Observe(view, outbox[1]))
        BY <2>1, <2>2, <3>1 DEF Deliverable
      <3>3. will' # NoWill => Synced(view)'
        BY <2>1, <3>1, <3>2 DEF Synced
      <3> QED BY <2>1, <3>1, <3>3 DEF StreamInv
    <2>3. ASSUME NEW k \in 0..NumDevices, RebirthFrom(k) PROVE StreamInv'
      BY <1>8, <2>1, <2>3, RebirthPublish DEF StreamInv
    <2> QED BY <1>8, <2>1, <2>2, <2>3 DEF StreamInv
  <1> QED BY <1>1, <1>2, <1>3, <1>4, <1>5, <1>6, <1>7, <1>8 DEF Next

\* What StreamInv says of the message that arrives next.
LEMMA StreamInvIsStream ==
    ASSUME SafeInv, StreamInv
    PROVE  NoFalseGap /\ DataReadable /\ ViewAgrees
  <1>1. ASSUME Arriving # <<>>
        PROVE  ~Gap(view, Head(Arriving)) /\ ~Unreadable(view, Head(Arriving))
    <2>1. will # NoWill /\ Arriving = outbox /\ outbox # <<>> BY <1>1 DEF Arriving
    <2>2. CASE Len(outbox) = 1 /\ Deliverable(outbox[1])
      <3>1. Head(outbox) = outbox[1] BY <2>1, <2>2 DEF SafeInv, TypeOK
      <3> QED BY <2>1, <2>2, <3>1 DEF Deliverable
    <2>3. ASSUME NEW k \in 0..NumDevices, RebirthFrom(k)
          PROVE  ~Gap(view, Head(Arriving)) /\ ~Unreadable(view, Head(Arriving))
      BY <2>1, <2>3, RebirthHead
    <2> QED BY <2>1, <2>2, <2>3 DEF StreamInv
  <1>2. ViewAgrees
    BY IdleSynced DEF ViewAgrees, Idle, Synced
  <1> QED BY <1>1, <1>2 DEF NoFalseGap, DataReadable
-----------------------------------------------------------------------------
IInv == SafeInv /\ StreamInv

\* Before the first connection nobody is alive and nothing is on its way.
LEMMA InitIInv == Init => IInv
  <1> SUFFICES ASSUME Init PROVE IInv
    OBVIOUS
  <1>1. 0 \in Byte BY NodeAssumption DEF Byte
  <1>2. view = [alive |-> FALSE, bdseq |-> NoWill, born |-> {}, next |-> 0]
    BY DEF Init, Dead
  <1>3. TypeOK
    <2>1. view \in View BY <1>1, <1>2 DEF View
    <2>2. outbox \in Seq(Message) BY DEF Init
    <2> QED BY <1>1, <2>1, <2>2 DEF Init, TypeOK, View
  <1>4. SessionInv BY <1>2 DEF Init, SessionInv
  <1>5. CoverInv BY <1>2 DEF Init, CoverInv, DeathIsCovered
  <1>6. StreamInv BY DEF Init, StreamInv
  <1> QED BY <1>3, <1>4, <1>5, <1>6 DEF IInv, SafeInv

\* An orderly caller keeps the inductive invariant.
THEOREM Invariance == ASSUME Orderly PROVE Spec => []IInv
  <1>1. IInv /\ [Next]_vars => IInv'
    <2> SUFFICES ASSUME IInv, [Next]_vars PROVE IInv'
      OBVIOUS
    <2>1. StreamInv' BY StreamStep DEF IInv
    <2>2. SafeInv'
      <3>1. CASE UNCHANGED vars
        BY <3>1 DEF IInv, SafeInv, TypeOK, SessionInv, CoverInv, DeathIsCovered, vars, session_vars
      <3>2. NoDevice \in {NoDevice} \cup Devices OBVIOUS
      <3> QED BY <3>1, <3>2, ConnectSafe, DisconnectSafe, OneMessageSafe, TransportSafe
              DEF IInv, Next
    <2> QED BY <2>1, <2>2 DEF IInv
  <1> QED BY <1>1, InitIInv, PTL DEF Spec

\* Type correctness: the counters of a session stay bytes.
THEOREM TypeCorrect == ASSUME Orderly PROVE Spec => []TypeOK
  <1>1. IInv => TypeOK BY DEF IInv, SafeInv
  <1> QED BY <1>1, Invariance, PTL

\* No drop, at any point of any call, leaves a dead node looking alive: the bus
\* holds a will with the count of the birth the subscriber saw last.
THEOREM DeathCorrelates == ASSUME Orderly PROVE Spec => []DeathIsCovered
  <1>1. IInv => DeathIsCovered BY DEF IInv, SafeInv, CoverInv
  <1> QED BY <1>1, Invariance, PTL

\* A subscriber that loses nothing sees no gap, can read all data, and ends up
\* with the session's own record of the node, for any modulus of the counters.
THEOREM StreamCorrect ==
    ASSUME Orderly PROVE Spec => [](StreamReadable /\ ViewAgrees)
  <1>1. IInv => StreamReadable /\ ViewAgrees
    BY StreamInvIsStream DEF IInv, StreamReadable
  <1> QED BY <1>1, Invariance, PTL

-----------------------------------------------------------------------------
(* The births of the node.                                                 *)

\* A session that is open and has not told the node's birth has told nothing, so
\* every birth of the node on its way carries the number zero.
BirthInv ==
    /\ ~node_born => born = {}
    /\ connected /\ ~node_born => seq = 0
    /\ \A i \in DOMAIN outbox : outbox[i].type = "NBIRTH" => outbox[i].seq = 0

\* An orderly caller births the node once per connect, and every birth of the node,
\* that of a rebirth included, opens its sequence at zero.
THEOREM BirthsOpenAtZero == ASSUME Orderly PROVE Spec => []BirthInv
  <1>1. Init => BirthInv BY DEF Init, BirthInv
  <1>2. IInv /\ BirthInv /\ [Next]_vars => BirthInv'
    <2> SUFFICES ASSUME IInv, BirthInv, [Next]_vars PROVE BirthInv'
      OBVIOUS
    <2>1. CASE Connect
      <3>1. /\ outbox' = outbox /\ connected' = TRUE /\ node_born' = FALSE /\ born' = {}
            /\ seq' = 0
        BY <2>1 DEF Connect
      <3> QED BY <3>1 DEF BirthInv
    <2>2. CASE Disconnect
      <3>1. outbox' = <<Death(bdseq)>> /\ connected' = FALSE /\ born' = {}
        BY <2>2 DEF Disconnect
      <3>2. \A i \in DOMAIN outbox' : outbox'[i].type # "NBIRTH" BY <3>1 DEF Death
      <3> QED BY <3>1, <3>2 DEF BirthInv
    <2>3. CASE NodeBirth
      <3>1. /\ connected /\ ~node_born /\ node_born' = TRUE
            /\ outbox' = <<message("NBIRTH", NoDevice)>>
        BY <2>3 DEF NodeBirth, HandBack
      <3>2. \A i \in DOMAIN outbox' : outbox'[i].seq = seq BY <3>1 DEF message
      <3> QED BY <3>1, <3>2 DEF BirthInv
    <2>4. ASSUME NEW d \in Devices, DeviceDeath(d) PROVE BirthInv'
      <3>1. /\ d \in born /\ node_born' = node_born /\ outbox' = <<message("DDEATH", d)>>
        BY <2>4 DEF DeviceDeath, HandBack
      <3>2. \A i \in DOMAIN outbox' : outbox'[i].type # "NBIRTH" BY <3>1 DEF message
      <3>3. node_born BY <3>1 DEF BirthInv
      <3> QED BY <3>1, <3>2, <3>3 DEF BirthInv
    <2>5. ASSUME NEW d \in {NoDevice} \cup Devices, NodeData \/ DeviceBirth(d) \/ DeviceData(d)
          PROVE  BirthInv'
      <3>1. /\ node_born' = TRUE
            /\ \E type \in {"NDATA", "DBIRTH", "DDATA"}, e \in {NoDevice, d} :
                  outbox' = <<message(type, e)>>
        <4>1. CASE NodeData
          <5>1. node_born' = node_born /\ node_born = TRUE /\ outbox' = <<message("NDATA", NoDevice)>>
            BY <4>1 DEF IInv, SafeInv, TypeOK, NodeData, HandBack, require_all_born
          <5> QED BY <5>1
        <4>2. CASE DeviceBirth(d)
          <5>1. node_born' = node_born /\ node_born = TRUE /\ outbox' = <<message("DBIRTH", d)>>
            BY <4>2 DEF IInv, SafeInv, TypeOK, DeviceBirth, HandBack
          <5> QED BY <5>1
        <4>3. CASE DeviceData(d)
          <5>1. node_born' = node_born /\ node_born = TRUE /\ outbox' = <<message("DDATA", d)>>
            BY <4>3 DEF IInv, SafeInv, TypeOK, DeviceData, HandBack, require_all_born
          <5> QED BY <5>1
        <4> QED BY <2>5, <4>1, <4>2, <4>3
      <3>2. \A i \in DOMAIN outbox' : outbox'[i].type # "NBIRTH" BY <3>1 DEF message
      <3> QED BY <3>1, <3>2 DEF BirthInv
    <2>6. CASE Rebirth
      <3>1. node_born' = TRUE /\ outbox' = BirthMessages(bdseq) BY <2>6 DEF Rebirth
      <3>2. \A i \in DOMAIN outbox' :
               outbox'[i].type = "NBIRTH" => outbox'[i].seq = (1 - 1) % SEQUENCE_MODULUS
        BY <3>1 DEF BirthMessages
      <3>3. (1 - 1) % SEQUENCE_MODULUS = 0 BY NodeAssumption
      <3> QED BY <3>1, <3>2, <3>3 DEF BirthInv
    <2>7. CASE Publish
      <3>1. /\ outbox # <<>> /\ UNCHANGED session_vars
            /\ outbox' = <<>> \/ outbox' = Tail(outbox)
        BY <2>7 DEF Publish
      <3>2. outbox \in Seq(Message) BY DEF IInv, SafeInv, TypeOK
      <3>3. \A i \in DOMAIN outbox' : outbox'[i].type = "NBIRTH" => outbox'[i].seq = 0
        <4>1. CASE outbox' = <<>> BY <4>1
        <4>2. CASE outbox' = Tail(outbox)
          <5>1. \A i \in DOMAIN Tail(outbox) :
                   i + 1 \in DOMAIN outbox /\ Tail(outbox)[i] = outbox[i + 1]
            BY <3>1, <3>2
          <5> QED BY <4>2, <5>1 DEF BirthInv
        <4> QED BY <3>1, <4>1, <4>2
      <3> QED BY <3>1, <3>3 DEF BirthInv, session_vars
    <2>8. CASE Drop
      <3>1. UNCHANGED <<session_vars, outbox>> BY <2>8 DEF Drop
      <3> QED BY <3>1 DEF BirthInv, session_vars
    <2>9. CASE UNCHANGED vars BY <2>9 DEF BirthInv, vars, session_vars
    <2>10. NoDevice \in {NoDevice} \cup Devices OBVIOUS
    <2> QED BY <2>1, <2>2, <2>3, <2>4, <2>5, <2>6, <2>7, <2>8, <2>9, <2>10 DEF Next
  <1> QED BY <1>1, <1>2, Invariance, PTL DEF Spec
=============================================================================
