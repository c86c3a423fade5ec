-------------------------- MODULE SparkplugEdgeNode --------------------------
(***************************************************************************)
(* The edge node of EdgeNodeSession with what its messages carry: topics,  *)
(* delivery flags, metrics by name and alias, values and timestamps, and   *)
(* the JSON mirror derived from every message (sparkplug.py).  The node is *)
(* the one the conformance runner plays; here its methods are called in    *)
(* any order they permit, at any instant, and the transport may drop       *)
(* between any two messages.                                               *)
(*                                                                         *)
(* The subscriber reads the wire only: births fill its book of aliases,    *)
(* and data is resolved through that book.                                 *)
(***************************************************************************)
EXTENDS ConformanceRunner

CONSTANTS
    MaxTicks,   \* bound: instants of the simulated clock
    Values,     \* the values a metric takes
    Orderly     \* as in EdgeNodeSession

ASSUME BoundAssumption == MaxTicks \in Nat /\ Orderly \in BOOLEAN

VARIABLES
    s,          \* the session object
    ticks,      \* the simulated clock
    outbox,     \* messages handed back and not yet published
    meant,      \* the keys the caller named in the data message of the outbox
    will,       \* the NDEATH the bus holds, or NoWill
    host,       \* the subscriber
    mirror      \* the retained mirror: value and quality of each key published

vars == <<s, ticks, outbox, meant, will, host, mirror>>

NoWill  == <<>>
Devices == DOMAIN Node.devices
Keys    == {k \in AliasKeys(Node) : k[1] # NodeItself}

BdSeqIn(m) == metric(m, BDSEQ_METRIC).value[2]
-----------------------------------------------------------------------------
(* The subscriber.                                                         *)

Nothing == <<>>     \* an empty book

\* The entries of f, and those of g that f does not replace.
Over(f, g) == [x \in DOMAIN f \cup DOMAIN g |-> IF x \in DOMAIN f THEN f[x] ELSE g[x]]

\* What the metrics of a message enter in the book.
Entries(m) ==
    LET aliased == {i \in DOMAIN m.metrics : m.metrics[i].alias # Absent}
    IN  [a \in {m.metrics[i].alias : i \in aliased} |->
           <<m.device, m.metrics[CHOOSE i \in aliased : m.metrics[i].alias = a].name>>]

\* The readings a message brings, by the book as it stands.
Readings(book, m) ==
    LET known == {i \in DOMAIN m.metrics : m.metrics[i].alias \in DOMAIN book}
    IN  [k \in {book[m.metrics[i].alias] : i \in known} |->
           m.metrics[CHOOSE i \in known : book[m.metrics[i].alias] = k].value]

\* A death ends the model of its node only when it names the same bdSeq.
Observe(h, m) ==
    LET book == IF m.type = "NBIRTH" THEN Entries(m)
                ELSE IF m.type = "DBIRTH" THEN Over(Entries(m), h.book) ELSE h.book
        after == [alive |-> h.alive, bdseq |-> h.bdseq, next |-> (m.seq + 1) % SEQUENCE_MODULUS,
                  born |-> IF m.type = "DBIRTH" THEN h.born \cup {m.device}
                           ELSE IF m.type = "DDEATH" THEN h.born \ {m.device} ELSE h.born,
                  lost |-> IF m.type = "DDEATH" THEN h.lost \cup {m.device} ELSE h.lost \ {m.device},
                  book |-> book, read |-> Over(Readings(book, m), h.read)]
    IN  CASE m.type = "NBIRTH" ->
               [after EXCEPT !.alive = TRUE, !.bdseq = BdSeqIn(m), !.born = {}, !.lost = {},
                             !.read = Readings(book, m)]
          [] m.type = "NDEATH" ->
               IF BdSeqIn(m) # h.bdseq THEN h
               ELSE [h EXCEPT !.alive = FALSE, !.born = {}, !.lost = {}, !.next = 0,
                                 !.book = Nothing, !.read = Nothing]
          [] OTHER -> after
-----------------------------------------------------------------------------
(* The methods.                                                            *)

Idle == outbox = <<>>

HandBack(messages, keys) ==
    /\ outbox' = messages
    /\ meant' = keys
    /\ UNCHANGED <<ticks, will, host, mirror>>

\* connect(), then the transport with the will.
Connect ==
    /\ Idle
    /\ Orderly => will = NoWill
    /\ s' = Connected(s)
    /\ will' = IF will = NoWill THEN WillRegistration(Node, s', ticks).message ELSE will
    /\ UNCHANGED <<ticks, outbox, meant, host, mirror>>

Disconnect ==
    /\ Idle /\ s.connected
    /\ s' = Disconnected(s)
    /\ HandBack(<<DeathMessage(Node, s, ticks)>>, {})

NodeBirth ==
    /\ Idle /\ CanBirthNode(s)
    /\ Orderly => ~s.node_born
    /\ s' = NodeBorn(s)
    /\ HandBack(<<NodeBirthMessage(Node, s, ticks)>>, {})

DeviceBirth(d) ==
    /\ Idle /\ CanBirthDevice(Node, s, d)
    /\ s' = DeviceBorn(s, d)
    /\ HandBack(<<DeviceBirthMessage(Node, s, d, ticks)>>, {})

\* node_data() for the node itself, device_data() for a device.
PublishData(d, changed, value) ==
    /\ Idle /\ CanPublish(Node, s, d, changed)
    /\ s' = NextSeq(s)
    /\ HandBack(<<DataMessage(Node, s, d, changed, value, ticks)>>, {<<d, name>> : name \in changed})

DeviceDeath(d) ==
    /\ Idle /\ CanKill(Node, s, d)
    /\ Orderly => d \in s.born
    /\ s' = DeviceDied(s, d)
    /\ HandBack(<<DeviceDeathMessage(Node, s, d, ticks)>>, {})

\* handle_node_command; a command that does not act hands back nothing.
NodeCommand(command) ==
    /\ Idle /\ s.connected /\ Acts(command)
    /\ s' = Reborn(Node, s)
    /\ HandBack(RebirthMessages(Node, s, ticks), {})
-----------------------------------------------------------------------------
(* The transport, the mirror and the clock.                                *)

\* A record replaces the one retained on its topic.
Retain(records) ==
    mirror' = Over([k \in {r.key : r \in records} |->
                      LET r == CHOOSE x \in records : x.key = k
                      IN  [value |-> r.value, quality |-> r.quality]], mirror)

\* The records of a message, over a death the tombstones of its device.
MirrorOf(m) == IF m.type = "DDEATH" THEN mirror_tombstones(Node, m.device, ticks)
               ELSE mirror_records(Node, m)

Publish ==
    /\ ~Idle
    /\ IF will = NoWill
       THEN outbox' = <<>> /\ UNCHANGED <<will, host, mirror>>
       ELSE /\ outbox' = Tail(outbox)
            /\ host' = Observe(host, Head(outbox))
            /\ will' = IF Head(outbox).type = "NDEATH" THEN NoWill ELSE will
            /\ Retain(MirrorOf(Head(outbox)))
    /\ meant' = {}
    /\ UNCHANGED <<s, ticks>>

Drop ==
    /\ will # NoWill
    /\ host' = Observe(host, will)
    /\ will' = NoWill
    /\ UNCHANGED <<s, ticks, outbox, meant, mirror>>

Tick ==
    /\ Idle /\ ticks < MaxTicks
    /\ ticks' = ticks + 1
    /\ UNCHANGED <<s, outbox, meant, will, host, mirror>>

Init ==
    /\ s = NewSession /\ ticks = 0
    /\ outbox = <<>> /\ meant = {} /\ will = NoWill
    /\ host = [alive |-> FALSE, bdseq |-> -1, next |-> 0, born |-> {}, lost |-> {},
               book |-> Nothing, read |-> Nothing]
    /\ mirror = Nothing

Next ==
    \/ Connect \/ Disconnect \/ NodeBirth
    \/ \E d \in Devices : DeviceBirth(d) \/ DeviceDeath(d)
    \/ \E d \in Devices \cup {NodeItself}, v \in Values :
         \E changed \in SUBSET {k[2] : k \in {j \in AliasKeys(Node) : j[1] = d}} :
            PublishData(d, changed, v)
    \/ \E name \in {REBIRTH_METRIC, NeverDeclared}, on \in BOOLEAN :
         NodeCommand([name |-> name, value |-> on])
    \/ Publish \/ Drop \/ Tick

Spec == Init /\ [][Next]_vars
-----------------------------------------------------------------------------
(* Properties.                                                             *)

Arriving == IF will = NoWill THEN <<>> ELSE outbox

Frames == FramesOf(0..SEQUENCE_MODULUS - 1, 0..MaxTicks)

\* The assertions about one message, on its own: its address, its delivery
\* flags, its sequence number, its metrics and their timestamps.
Conforms(m) ==
    LET node == m.device = NodeItself
    IN  /\ topic_is(m, IF node THEN NodeTopic(m.type) ELSE DeviceTopic(m.type, m.device))
        /\ published_delivery(m, IF m.type = "NDEATH" THEN 1 ELSE 0, FALSE)
        /\ utc_timestamp(m.ts) /\ Chronological(m)
        /\ IF m.type = "NDEATH" THEN m.seq = Absent ELSE seq_present(m)
        /\ m.type = "NBIRTH" => m.seq = 0 /\ bdseq_datatype(m)
        /\ m.type \in {"NBIRTH", "DBIRTH"} => NamedAndAliased(m)
        /\ IF m.type \in {"NDATA", "DDATA"} THEN AliasedOnly(m) ELSE m \in Frames

\* What the conformance runner establishes for the one session it plays holds
\* of every message of every session: no order of calls, no rebirth, no wrap of
\* a counter and no instant hands back a message the assertions refuse.
FramesConform == \A i \in DOMAIN outbox : Conforms(outbox[i])

\* The one metric that is numbered, that data may name, and whose alias the
\* birth withholds.
RebirthCommand == <<NodeItself, REBIRTH_METRIC>>

\* Whichever births it has lived through, a subscriber resolves the aliases of a
\* data message to the metrics the caller named, save the rebirth command: when
\* the caller names that one, its alias and no other is unknown to the subscriber.
DataResolves ==
    Arriving # <<>> /\ Head(Arriving).type \in {"NDATA", "DDATA"} =>
        LET m == Head(Arriving)
            known == {i \in DOMAIN m.metrics : m.metrics[i].alias \in DOMAIN host.book}
        IN  /\ {host.book[m.metrics[i].alias] : i \in known} = meant \ {RebirthCommand}
            /\ \A i \in DOMAIN m.metrics \ known :
                  KeyOf(Node, m.metrics[i].alias) = RebirthCommand

\* "The two namespaces cannot disagree": for a device the subscriber holds for
\* born, the retained mirror has the value it read; for one whose death was
\* announced, it has no value and says bad.
MirrorAgrees ==
    Idle /\ host.alive =>
        \A k \in Keys :
            /\ k[1] \in host.born => k \in DOMAIN mirror /\ mirror[k].value = host.read[k]
            /\ k[1] \in host.lost => mirror[k] = [value |-> Null, quality |-> "bad"]

\* The abstract session: the same calls with the contents of messages left out.
Abstract(m) == [type |-> m.type, device |-> m.device, seq |-> m.seq, bdseq |-> s.bdseq]

Session == INSTANCE EdgeNodeSession WITH
    NumDevices <- Cardinality(Devices),
    connected <- s.connected, bdseq <- s.bdseq, seq <- s.seq, born <- s.born,
    node_born <- s.node_born,
    outbox <- [i \in DOMAIN outbox |-> Abstract(outbox[i])],
    will <- IF will = NoWill THEN -1 ELSE BdSeqIn(will),
    view <- [alive |-> host.alive, bdseq |-> host.bdseq, born |-> host.born, next |-> host.next]

\* The messages as they travel carry what the session promises of them: every
\* step, read through the metrics of the messages, is a step of the abstract
\* session or no step at all.
ImplementsSession == Session!Spec
=============================================================================
