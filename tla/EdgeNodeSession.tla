--------------------------- MODULE EdgeNodeSession ---------------------------
(***************************************************************************)
(* EdgeNodeSession of twinflow.sensors (sparkplug.py): the Sparkplug state *)
(* machine of one edge node and the devices below it.  A caller drives its *)
(* methods in any order they permit and publishes what each hands back,    *)
(* one message at a time, through a BusClient of the kernel's InMemoryBus  *)
(* (network.py), which holds the will and delivers it when the connection  *)
(* drops.  A drop may fall between any two messages.                       *)
(*                                                                         *)
(* view is what a subscriber that reads the birth certificates believes.   *)
(* A message keeps its type, device, seq and bdSeq; metrics, aliases and   *)
(* timestamps are left out.                                                *)
(***************************************************************************)
EXTENDS Integers, Sequences

CONSTANTS
    NumDevices,         \* the devices of the node, in sorted order
    SEQUENCE_MODULUS,   \* 256 in the code
    Orderly             \* the caller births the node once per connect, kills only
                        \* a born device, and reconnects only a closed transport

ASSUME NodeAssumption ==
    /\ NumDevices \in Nat
    /\ SEQUENCE_MODULUS \in Nat \ {0}
    /\ Orderly \in BOOLEAN

VARIABLES
    connected, bdseq, seq, born, node_born, \* the session's fields
    outbox,     \* messages handed back and not yet published
    will,       \* bdSeq of the will the bus holds, NoWill when it holds none
    view        \* the subscriber

session_vars == <<connected, bdseq, seq, born, node_born>>
vars == <<session_vars, outbox, will, view>>

Devices == 1..NumDevices
NoWill  == -1
NoDevice == 0
Byte    == 0..SEQUENCE_MODULUS-1
Message == [type : {"NBIRTH", "DBIRTH", "NDATA", "DDATA", "DDEATH", "NDEATH"},
            device : {NoDevice} \cup Devices, seq : {NoWill} \cup Byte, bdseq : Byte]
-----------------------------------------------------------------------------
(* The subscriber: an observer of the wire, with no influence on it.       *)

Dead(bd) == [alive |-> FALSE, bdseq |-> bd, born |-> {}, next |-> 0]

\* A message that is not the one after its predecessor.
Gap(v, m) == v.alive /\ m.type \notin {"NBIRTH", "NDEATH"} /\ m.seq # v.next

\* Data of an edge node or a device whose birth certificate is not known.
Unreadable(v, m) ==
    \/ m.type = "NDATA" /\ ~v.alive
    \/ m.type = "DDATA" /\ m.device \notin v.born

\* An NBIRTH opens a new model and a death that matches its bdSeq ends it.
Observe(v, m) ==
    CASE m.type = "NBIRTH" ->
            [alive |-> TRUE, bdseq |-> m.bdseq, born |-> {},
             next |-> (m.seq + 1) % SEQUENCE_MODULUS]
      [] m.type = "NDEATH" ->
            IF m.bdseq = v.bdseq THEN Dead(v.bdseq) ELSE v
      [] OTHER ->
            [alive |-> v.alive, bdseq |-> v.bdseq,
             born |-> IF m.type = "DBIRTH" THEN v.born \cup {m.device}
                      ELSE IF m.type = "DDEATH" THEN v.born \ {m.device} ELSE v.born,
             next |-> (m.seq + 1) % SEQUENCE_MODULUS]
-----------------------------------------------------------------------------
(* The messages and the sequence counter.                                  *)

\* Mutant: the counter is not wrapped.
UnwrappedSeq == seq + 1

\* The counter after one message more.
next_seq == (seq + 1) % SEQUENCE_MODULUS

message(type, d) == [type |-> type, device |-> d, seq |-> seq, bdseq |-> bdseq]

Death(bd) == [type |-> "NDEATH", device |-> NoDevice, seq |-> NoWill, bdseq |-> bd]

\* Mutant: data is let through once the node is born.
RequireNodeBorn == connected /\ node_born

require_all_born == connected /\ node_born /\ Devices \subseteq born

\* The caller takes the next call when it has published what the last one gave.
Idle == outbox = <<>>

\* One message is handed back.
HandBack(type, d) ==
    /\ outbox' = <<message(type, d)>>
    /\ seq' = next_seq
-----------------------------------------------------------------------------
(* The methods.                                                            *)

\* connect(), then the transport's connect with the will, as announce() does.
\* A transport that is already joined refuses, with the session moved on.
Connect ==
    /\ Idle
    /\ Orderly => will = NoWill
    /\ bdseq' = (bdseq + 1) % SEQUENCE_MODULUS
    /\ connected' = TRUE /\ node_born' = FALSE /\ born' = {} /\ seq' = 0
    /\ will' = IF will = NoWill THEN bdseq' ELSE will
    /\ UNCHANGED <<outbox, view>>

\* disconnect() hands back the NDEATH; its publication ends with a clean
\* disconnect of the transport (Publish).
Disconnect ==
    /\ Idle /\ connected
    /\ outbox' = <<Death(bdseq)>>
    /\ connected' = FALSE /\ node_born' = FALSE /\ born' = {}
    /\ UNCHANGED <<bdseq, seq, will, view>>

NodeBirth ==
    /\ Idle /\ connected
    /\ Orderly => ~node_born
    /\ node_born' = TRUE
    /\ HandBack("NBIRTH", NoDevice)
    /\ UNCHANGED <<connected, bdseq, born, will, view>>

DeviceBirth(d) ==
    /\ Idle /\ connected /\ node_born
    /\ born' = born \cup {d}
    /\ HandBack("DBIRTH", d)
    /\ UNCHANGED <<connected, bdseq, node_born, will, view>>

NodeData ==
    /\ Idle /\ require_all_born
    /\ HandBack("NDATA", NoDevice)
    /\ UNCHANGED <<connected, bdseq, born, node_born, will, view>>

DeviceData(d) ==
    /\ Idle /\ require_all_born
    /\ HandBack("DDATA", d)
    /\ UNCHANGED <<connected, bdseq, born, node_born, will, view>>

\* Mutant: a dead device keeps its birth.
DeviceDeathKeepsBirth(d) ==
    /\ Idle /\ connected
    /\ Orderly => d \in born
    /\ HandBack("DDEATH", d)
    /\ UNCHANGED <<connected, bdseq, born, node_born, will, view>>

DeviceDeath(d) ==
    /\ Idle /\ connected
    /\ Orderly => d \in born
    /\ born' = born \ {d}
    /\ HandBack("DDEATH", d)
    /\ UNCHANGED <<connected, bdseq, node_born, will, view>>

\* The NBIRTH and the DBIRTH of every device, numbered from zero.
BirthMessages(bd) ==
    [i \in 1..NumDevices+1 |->
        [type |-> IF i = 1 THEN "NBIRTH" ELSE "DBIRTH", device |-> i - 1,
         seq |-> (i - 1) % SEQUENCE_MODULUS, bdseq |-> bd]]

\* Mutant: a rebirth counts as a new session.
RebirthMovesBdSeq ==
    /\ Idle /\ connected
    /\ bdseq' = (bdseq + 1) % SEQUENCE_MODULUS
    /\ seq' = (NumDevices + 1) % SEQUENCE_MODULUS
    /\ node_born' = TRUE /\ born' = Devices
    /\ outbox' = BirthMessages(bdseq')
    /\ UNCHANGED <<connected, will, view>>

\* handle_node_command with Node Control/Rebirth true; any other command
\* changes nothing.
Rebirth ==
    /\ Idle /\ connected
    /\ seq' = (NumDevices + 1) % SEQUENCE_MODULUS
    /\ node_born' = TRUE /\ born' = Devices
    /\ outbox' = BirthMessages(bdseq)
    /\ UNCHANGED <<connected, bdseq, will, view>>
-----------------------------------------------------------------------------
(* The transport.                                                          *)

\* publish of the next message.  Without a connection it raises, and the rest
\* of the call's messages are lost with it.
Publish ==
    /\ outbox # <<>>
    /\ IF will = NoWill
       THEN outbox' = <<>> /\ UNCHANGED <<view, will>>
       ELSE /\ outbox' = Tail(outbox)
            /\ view' = Observe(view, Head(outbox))
            /\ will' = IF Head(outbox).type = "NDEATH" THEN NoWill ELSE will
    /\ UNCHANGED session_vars

\* The connection is lost and the bus delivers the will.  The session object
\* is not told.
Drop ==
    /\ will # NoWill
    /\ view' = Observe(view, Death(will))
    /\ will' = NoWill
    /\ UNCHANGED <<session_vars, outbox>>

Init ==
    /\ connected = FALSE /\ bdseq = -1 /\ seq = 0
    /\ born = {} /\ node_born = FALSE
    /\ outbox = <<>> /\ will = NoWill
    /\ view = Dead(NoWill)

Next ==
    \/ Connect \/ Disconnect \/ NodeBirth \/ NodeData \/ Rebirth
    \/ \E d \in Devices : DeviceBirth(d) \/ DeviceData(d) \/ DeviceDeath(d)
    \/ Publish \/ Drop

Spec == Init /\ [][Next]_vars
-----------------------------------------------------------------------------
(* Properties.                                                             *)

\* The session's counters stay in the byte the specification gives them.
TypeOK ==
    /\ connected \in BOOLEAN /\ node_born \in BOOLEAN
    /\ bdseq \in {-1} \cup Byte /\ seq \in Byte
    /\ born \subseteq Devices
    /\ outbox \in Seq(Message)
    /\ will \in {NoWill} \cup Byte
    /\ view \in [alive : BOOLEAN, bdseq : {NoWill} \cup Byte,
                 born : SUBSET Devices, next : Byte]

\* What the subscriber will see next, while the connection holds.
Arriving == IF will # NoWill THEN outbox ELSE <<>>

\* A subscriber that lost nothing never sees a discontinuity, through wraps,
\* rebirths, reconnections and deaths, so a discontinuity always means loss.
NoFalseGap == Arriving # <<>> => ~Gap(view, Head(Arriving))

\* No data message arrives at a subscriber that holds no birth certificate for
\* its node and its device, in whatever order calls and drops fall.
DataReadable == Arriving # <<>> => ~Unreadable(view, Head(Arriving))

\* The stream a subscriber receives is one that it can follow.
StreamReadable == NoFalseGap /\ DataReadable

\* When everything handed back is published and the connection stands, the
\* subscriber's model is the session's own record.
ViewAgrees ==
    Idle /\ will # NoWill =>
        /\ view.alive = node_born
        /\ node_born => view.born = born /\ view.next = seq

\* The bdSeq that correlates a birth with its death: while the subscriber holds
\* the node for alive, the bus holds a will whose death it will recognise.  So
\* no drop, at any point of any call, leaves a dead node looking alive.
DeathIsCovered == view.alive => will = view.bdseq
=============================================================================
