----------------------- MODULE SparkplugEdgeNodeProofs -----------------------
(***************************************************************************)
(* Theorems about SparkplugEdgeNode, for any modulus of the counters, any  *)
(* values of the metrics and any length of the simulated clock.            *)
(*                                                                         *)
(* First the order of the names and the alias table, then what the metrics *)
(* of a message stand for, then the messages of the outbox: each is one    *)
(* that the session as it counts now hands back at this instant.  From     *)
(* that the wire implements the abstract session, whose own theorems       *)
(* (EdgeNodeSessionProofs) say which births a subscriber has seen when     *)
(* data arrives.                                                           *)
(***************************************************************************)
EXTENDS SparkplugEdgeNode, FiniteSetTheorems, TLAPS

-----------------------------------------------------------------------------
(* The byte order of names and the alias table.                            *)

\* The names up to one are a strict part of the names up to a later one.
LEMMA LowerNames ==
    ASSUME NEW names \in SUBSET Nat, IsFiniteSet(names), NEW n \in names
    PROVE  /\ Cardinality({m \in names : m <= n}) \in 1..Cardinality(names)
           /\ \A k \in names : k < n =>
                 Cardinality({m \in names : m <= k}) < Cardinality({m \in names : m <= n})
  <1> DEFINE U(k) == {m \in names : m <= k}
  <1>0. Cardinality(names) \in Nat BY FS_CardinalityType
  <1>1. ASSUME NEW k \in names
        PROVE  /\ IsFiniteSet(U(k)) /\ Cardinality(U(k)) \in Nat
               /\ Cardinality(U(k)) <= Cardinality(names) /\ Cardinality(U(k)) # 0
    <2>1. IsFiniteSet(U(k)) /\ Cardinality(U(k)) <= Cardinality(names) BY FS_Subset
    <2>2. k \in U(k) OBVIOUS
    <2>3. U(k) # {} BY <2>2
    <2> HIDE DEF U
    <2> QED BY <2>1, <2>3, FS_CardinalityType, FS_EmptySet
  <1>2. ASSUME NEW k \in names, k < n PROVE Cardinality(U(k)) < Cardinality(U(n))
    <2>0. ASSUME NEW m \in names, m <= k PROVE m <= n
      <3>1. m \in Nat /\ k \in Nat /\ n \in Nat OBVIOUS
      <3> QED BY <1>2, <2>0, <3>1
    <2>1. U(k) \in SUBSET U(n) BY <2>0
    <2>2. n \in U(n) /\ n \notin U(k) BY <1>2
    <2>3. U(n) # U(k) BY <2>2
    <2> HIDE DEF U
    <2>4. IsFiniteSet(U(n)) /\ Cardinality(U(n)) \in Nat /\ Cardinality(U(k)) \in Nat
      BY <1>1, <1>2
    <2>5. /\ Cardinality(U(k)) <= Cardinality(U(n))
          /\ Cardinality(U(n)) = Cardinality(U(k)) => U(n) = U(k)
      BY <2>1, <2>4, FS_Subset
    <2> QED BY <2>3, <2>4, <2>5
  <1>3. Cardinality(U(n)) \in 1..Cardinality(names)
    <2> HIDE DEF U
    <2> QED BY <1>0, <1>1
  <1> QED BY <1>2, <1>3

\* sorted() over the names of an owner: every name once, none left out.
LEMMA ByteOrder ==
    ASSUME NEW names \in SUBSET Nat, IsFiniteSet(names)
    PROVE  /\ Cardinality(names) \in Nat
           /\ DOMAIN InByteOrder(names) = 1..Cardinality(names)
           /\ \A i \in 1..Cardinality(names) : InByteOrder(names)[i] \in names
           /\ \A i, j \in 1..Cardinality(names) :
                 InByteOrder(names)[i] = InByteOrder(names)[j] => i = j
           /\ \A n \in names : \E i \in 1..Cardinality(names) : InByteOrder(names)[i] = n
  <1> DEFINE c == Cardinality(names)
             r == [n \in names |-> Cardinality({m \in names : m <= n})]
  <1>0. c \in Nat BY FS_CardinalityType
  <1>1. \A n \in names : r[n] \in 1..c BY LowerNames
  <1>2. \A n, k \in names : r[n] = r[k] => n = k
    <2> SUFFICES ASSUME NEW n \in names, NEW k \in names, r[n] = r[k] PROVE n = k
      OBVIOUS
    <2>1. n \in Nat /\ k \in Nat /\ r[n] \in Nat /\ r[k] \in Nat BY <1>0, <1>1
    <2>2. (k < n => r[k] < r[n]) /\ (n < k => r[n] < r[k])
      BY LowerNames
    <2> HIDE DEF r, c
    <2> QED BY <2>1, <2>2
  <1>3. r \in Injection(names, 1..c) BY <1>1, <1>2 DEF Injection, IsInjective
  <1>4. r \in Surjection(names, 1..c)
    <2>1. IsFiniteSet(1..c) /\ Cardinality(1..c) = c
      <3>1. /\ IsFiniteSet(1..c)
            /\ Cardinality(1..c) = IF 1 > c THEN 0 ELSE c - 1 + 1
        BY <1>0, FS_Interval
      <3> QED BY <1>0, <3>1
    <2> HIDE DEF r
    <2> QED BY <1>3, <2>1, FS_Injection
  <1>5. \A i \in 1..c : \E n \in names : r[n] = i BY <1>4 DEF Surjection
  <1>6. ASSUME NEW i \in 1..c
        PROVE  InByteOrder(names)[i] \in names /\ r[InByteOrder(names)[i]] = i
    <2>1. InByteOrder(names)[i] = CHOOSE n \in names : r[n] = i BY DEF InByteOrder
    <2> HIDE DEF r
    <2> QED BY <1>5, <2>1
  <1>7. DOMAIN InByteOrder(names) = 1..c BY DEF InByteOrder
  <1> HIDE DEF r, c
  <1>8. ASSUME NEW n \in names PROVE \E i \in 1..c : InByteOrder(names)[i] = n
    <2>1. r[n] \in 1..c BY <1>1
    <2>2. InByteOrder(names)[r[n]] \in names /\ r[InByteOrder(names)[r[n]]] = r[n] BY <1>6, <2>1
    <2> QED BY <1>2, <2>1, <2>2
  <1> QED BY <1>0, <1>6, <1>7, <1>8 DEF c

\* The keys up to one in the order of assign_aliases().
Upto(node, k) == {j \in AliasKeys(node) : j[1] < k[1] \/ (j[1] = k[1] /\ j[2] <= k[2])}

Aliases(node) == assign_aliases(node)

\* What the alias table is built over: finitely many pairs of owner and name.
Tabled(node) == IsFiniteSet(AliasKeys(node)) /\ AliasKeys(node) \subseteq Nat \X Nat

\* assign_aliases(): no two metrics of a node share an alias, over all owners, and
\* none has zero; so an alias stands for one key.
LEMMA AliasesUnique ==
    ASSUME NEW node, Tabled(node)
    PROVE  /\ DOMAIN Aliases(node) = AliasKeys(node)
           /\ \A k \in AliasKeys(node) : Aliases(node)[k] \in Nat /\ Aliases(node)[k] # 0
           /\ \A k, l \in AliasKeys(node) : Aliases(node)[k] = Aliases(node)[l] => k = l
           /\ \A k \in AliasKeys(node) : KeyOf(node, Aliases(node)[k]) = k
  <1> DEFINE keys == AliasKeys(node)
             U(k) == Upto(node, k)
  <1>1. /\ DOMAIN Aliases(node) = keys
        /\ \A k \in keys : Aliases(node)[k] = Cardinality(U(k))
    BY DEF Aliases, assign_aliases, Upto
  <1>2. \A k \in keys : k[1] \in Nat /\ k[2] \in Nat /\ k = <<k[1], k[2]>>
    BY DEF Tabled
  <1>3. ASSUME NEW k \in keys
        PROVE  IsFiniteSet(U(k)) /\ Cardinality(U(k)) \in Nat /\ Cardinality(U(k)) # 0
    <2>1. U(k) \in SUBSET keys /\ k \in U(k) BY <1>2 DEF Upto
    <2>2. IsFiniteSet(keys) BY DEF Tabled
    <2> HIDE DEF U, keys
    <2>3. IsFiniteSet(U(k)) /\ U(k) # {} BY <2>1, <2>2, FS_Subset
    <2> QED BY <2>3, FS_CardinalityType, FS_EmptySet
  <1>4. ASSUME NEW k \in keys, NEW l \in keys,
               k[1] < l[1] \/ (k[1] = l[1] /\ k[2] < l[2])
        PROVE  Cardinality(U(k)) < Cardinality(U(l))
    <2>1. ASSUME NEW j \in keys, j[1] < k[1] \/ (j[1] = k[1] /\ j[2] <= k[2])
          PROVE  j[1] < l[1] \/ (j[1] = l[1] /\ j[2] <= l[2])
      BY <1>2, <1>4, <2>1
    <2>2. U(k) \in SUBSET U(l) BY <2>1 DEF Upto
    <2>3. l \in U(l) BY <1>2 DEF Upto
    <2>4. l \notin U(k)
      <3>1. ~(l[1] < k[1] \/ (l[1] = k[1] /\ l[2] <= k[2])) BY <1>2, <1>4
      <3> QED BY <3>1 DEF Upto
    <2> HIDE DEF U, keys
    <2>5. IsFiniteSet(U(l)) /\ Cardinality(U(l)) \in Nat /\ Cardinality(U(k)) \in Nat
      BY <1>3
    <2>6. /\ Cardinality(U(k)) <= Cardinality(U(l))
          /\ Cardinality(U(l)) = Cardinality(U(k)) => U(l) = U(k)
      BY <2>2, <2>5, FS_Subset
    <2>7. U(l) # U(k) BY <2>3, <2>4
    <2> QED BY <2>5, <2>6, <2>7
  <1>5. ASSUME NEW k \in keys, NEW l \in keys, Aliases(node)[k] = Aliases(node)[l]
        PROVE  k = l
    <2>1. /\ k[1] \in Nat /\ k[2] \in Nat /\ l[1] \in Nat /\ l[2] \in Nat
          /\ k = <<k[1], k[2]>> /\ l = <<l[1], l[2]>>
      BY <1>2
    <2>2. Cardinality(U(k)) = Cardinality(U(l)) /\ Cardinality(U(k)) \in Nat BY <1>1, <1>3, <1>5
    <2>3. ~(k[1] < l[1] \/ (k[1] = l[1] /\ k[2] < l[2])) BY <1>4, <2>2
    <2>4. ~(l[1] < k[1] \/ (l[1] = k[1] /\ l[2] < k[2])) BY <1>4, <2>2
    <2>5. k[1] = l[1] /\ k[2] = l[2] BY <2>1, <2>3, <2>4
    <2> QED BY <2>1, <2>5
  <1>6. ASSUME NEW k \in keys PROVE KeyOf(node, Aliases(node)[k]) = k
    <2>1. KeyOf(node, Aliases(node)[k])
             = CHOOSE l \in keys : Aliases(node)[l] = Aliases(node)[k]
      BY <1>1 DEF KeyOf, Aliases
    <2> HIDE DEF keys
    <2> QED BY <1>5, <2>1
  <1> HIDE DEF U
  <1> QED BY <1>1, <1>3, <1>5, <1>6
-----------------------------------------------------------------------------
(* The fixture.                                                            *)

\* The owners of metrics: the node itself and its two devices.
Owners == Devices \cup {NodeItself}

NamesOf(d) == {spec.name : spec \in SpecsOf(Node, d)}

\* The metrics of the node the runner plays: no two metrics of an owner share a
\* name, and there are finitely many.
LEMMA Fixture ==
    /\ Devices = 1..2 /\ Cardinality(Devices) = 2 /\ NodeItself \notin Devices
    /\ \A d \in Devices : SpecsOf(Node, d) = Node.devices[d]
    /\ NamesOf(0) = {1, 3, 6} /\ NamesOf(1) = {4} /\ NamesOf(2) = {5, 7}
    /\ \A d \in Owners : \A a, b \in SpecsOf(Node, d) : a.name = b.name => a = b
    /\ \A a \in SpecsOf(Node, 0) : a.name = BDSEQ_METRIC => a.datatype = "Int64"
  <1>1. Devices = 1..2 BY DEF Devices, Node
  <1>2. Cardinality(Devices) = 2
    <2>1. ASSUME NEW n \in Nat PROVE Cardinality(1..n) = IF 1 > n THEN 0 ELSE n - 1 + 1
      BY FS_Interval
    <2>2. Cardinality(1..2) = IF 1 > 2 THEN 0 ELSE 2 - 1 + 1 BY <2>1
    <2> QED BY <1>1, <2>2
  <1>3. NodeItself \notin Devices BY <1>1 DEF NodeItself
  <1>4. ASSUME NEW d \in Devices PROVE SpecsOf(Node, d) = Node.devices[d]
    <2>1. d # NodeItself BY <1>3
    <2> QED BY <2>1 DEF SpecsOf
  <1> DEFINE dropped == MetricSpec(DroppedRecords, "UInt64", Absent, Absent)
             bdseq   == [MetricSpec(BDSEQ_METRIC, "Int64", Absent, Absent) EXCEPT !.described = TRUE]
             rebirth == [MetricSpec(REBIRTH_METRIC, "Boolean", Absent, Absent) EXCEPT !.described = TRUE]
             motor   == MetricSpec(MotorTemp, "Double", Absent, Absent)
             rate    == MetricSpec(ReadRate, "Float", 0, 1)
             epcs    == MetricSpec(UniqueEpcs, "UInt32", Absent, Absent)
  <1>5. SpecsOf(Node, 0) = {dropped, bdseq, rebirth}
    <2>1. SpecsOf(Node, 0) = Node.node \cup ControlMetrics BY DEF SpecsOf, NodeItself
    <2>2. Node.node = {dropped} BY DEF Node
    <2>3. ControlMetrics = {bdseq, rebirth} BY DEF ControlMetrics
    <2> HIDE DEF dropped, bdseq, rebirth
    <2> QED BY <2>1, <2>2, <2>3
  <1>6. SpecsOf(Node, 1) = {motor}
    <2>1. SpecsOf(Node, 1) = Node.devices[1] BY <1>1, <1>4
    <2> QED BY <2>1 DEF Node
  <1>7. SpecsOf(Node, 2) = {rate, epcs}
    <2>1. SpecsOf(Node, 2) = Node.devices[2] BY <1>1, <1>4
    <2> QED BY <2>1 DEF Node
  <1>8. dropped.name = 6 /\ motor.name = 4 /\ rate.name = 5 /\ epcs.name = 7
    BY DEF MetricSpec, DroppedRecords, MotorTemp, ReadRate, UniqueEpcs
  <1>9. bdseq.name = 3 /\ rebirth.name = 1 /\ bdseq.datatype = "Int64"
    BY DEF MetricSpec, BDSEQ_METRIC, REBIRTH_METRIC
  <1> HIDE DEF dropped, bdseq, rebirth, motor, rate, epcs
  <1>10. NamesOf(0) = {1, 3, 6} BY <1>5, <1>8, <1>9 DEF NamesOf
  <1>11. NamesOf(1) = {4} BY <1>6, <1>8 DEF NamesOf
  <1>12. NamesOf(2) = {5, 7} BY <1>7, <1>8 DEF NamesOf
  <1>13. \A a, b \in SpecsOf(Node, 0) : a.name = b.name => a = b BY <1>5, <1>8, <1>9
  <1>14. \A a, b \in SpecsOf(Node, 1) : a.name = b.name => a = b BY <1>6
  <1>15. \A a, b \in SpecsOf(Node, 2) : a.name = b.name => a = b BY <1>7, <1>8
  <1>16. Owners = {0, 1, 2} BY <1>1 DEF Owners, NodeItself
  <1>17. \A a \in SpecsOf(Node, 0) : a.name = BDSEQ_METRIC => a.datatype = "Int64"
    BY <1>5, <1>8, <1>9 DEF BDSEQ_METRIC
  <1>18. \A d \in Owners : \A a, b \in SpecsOf(Node, d) : a.name = b.name => a = b
    BY <1>13, <1>14, <1>15, <1>16
  <1> QED BY <1>1, <1>2, <1>3, <1>4, <1>10, <1>11, <1>12, <1>17, <1>18

\* The names of an owner, and the keys of the alias table.
LEMMA FixtureKeys ==
    /\ Owners = {0, 1, 2}
    /\ \A d \in Owners : NamesOf(d) \in SUBSET Nat /\ IsFiniteSet(NamesOf(d))
    /\ \A d \in Owners : \A n : <<d, n>> \in AliasKeys(Node) <=> n \in NamesOf(d)
    /\ \A k \in AliasKeys(Node) : k = <<k[1], k[2]>> /\ k[1] \in Owners /\ k[2] \in NamesOf(k[1])
    /\ Tabled(Node)
  <1>1. Owners = {0, 1, 2} BY Fixture DEF Owners, NodeItself
  <1>2. \A d \in Owners : NamesOf(d) \subseteq 1..7 BY <1>1, Fixture
  <1>3. ASSUME NEW n \in Nat PROVE IsFiniteSet(0..n) /\ IsFiniteSet(1..n) BY FS_Interval
  <1>4. IsFiniteSet(0..2) /\ IsFiniteSet(1..7) BY <1>3
  <1>5. \A d \in Owners : NamesOf(d) \in SUBSET Nat /\ IsFiniteSet(NamesOf(d))
    <2>1. ASSUME NEW S \in SUBSET (1..7) PROVE IsFiniteSet(S) BY <1>4, FS_Subset
    <2>2. 1..7 \subseteq Nat OBVIOUS
    <2> QED BY <1>2, <2>1, <2>2
  <1>6. {NodeItself} \cup DOMAIN Node.devices = Owners BY DEF Owners, Devices
  <1>7. \A k : k \in AliasKeys(Node) <=> \E d \in Owners : \E n \in NamesOf(d) : k = <<d, n>>
    BY <1>6 DEF AliasKeys, NamesOf
  <1>8. \A d \in Owners : \A n : <<d, n>> \in AliasKeys(Node) <=> n \in NamesOf(d)
    <2> SUFFICES ASSUME NEW d \in Owners, NEW n
                 PROVE  <<d, n>> \in AliasKeys(Node) <=> n \in NamesOf(d)
      OBVIOUS
    <2>1. \A e, m : <<d, n>> = <<e, m>> => d = e /\ n = m OBVIOUS
    <2> QED BY <1>7, <2>1
  <1>9. ASSUME NEW k \in AliasKeys(Node)
        PROVE  /\ k = <<k[1], k[2]>> /\ k[1] \in Owners /\ k[2] \in NamesOf(k[1])
               /\ k \in (0..2) \X (1..7) /\ k \in Nat \X Nat
    <2>0. PICK d \in Owners : \E n \in NamesOf(d) : k = <<d, n>> BY <1>7
    <2>1. PICK n \in NamesOf(d) : k = <<d, n>> BY <2>0
    <2>2. d \in 0..2 /\ n \in 1..7 /\ d \in Nat /\ n \in Nat BY <1>1, <1>2
    <2> QED BY <2>1, <2>2
  <1>10. Tabled(Node)
    <2>1. IsFiniteSet((0..2) \X (1..7)) BY <1>4, FS_Product
    <2>2. AliasKeys(Node) \in SUBSET ((0..2) \X (1..7)) BY <1>9
    <2> QED BY <1>9, <2>1, <2>2, FS_Subset DEF Tabled
  <1> QED BY <1>1, <1>5, <1>8, <1>9, <1>10

AliasAt == Aliases(Node)

\* The aliases of the node: each stands for one key, and none is the absent one.
LEMMA NodeAliases ==
    /\ \A d \in Owners : \A n \in NamesOf(d) : <<d, n>> \in AliasKeys(Node)
    /\ \A k \in AliasKeys(Node) : /\ AliasAt[k] \in Nat /\ AliasAt[k] # Absent
                                  /\ KeyOf(Node, AliasAt[k]) = k
    /\ \A k, l \in AliasKeys(Node) : AliasAt[k] = AliasAt[l] => k = l
  <1>1. Tabled(Node) BY FixtureKeys
  <1>2. \A k \in AliasKeys(Node) : AliasAt[k] \in Nat /\ AliasAt[k] # Absent
    BY <1>1, AliasesUnique DEF AliasAt, Absent
  <1> QED BY <1>1, <1>2, FixtureKeys, AliasesUnique DEF AliasAt

-----------------------------------------------------------------------------
(* What the metrics of a message stand for.                                *)

\* The sessions the frames of every session are made of: a message depends on
\* the two counters alone.
At(q, b) == [NewSession EXCEPT !.seq = q, !.bdseq = b]

\* The alias that a birth declares for a metric.
Carried(d, n) == IF d = NodeItself /\ n = REBIRTH_METRIC THEN Absent ELSE AliasAt[<<d, n>>]

\* The metrics of message m are those of the names, each once.
Keyed(m, names) ==
    /\ m.device \in Owners
    /\ DOMAIN m.metrics = DOMAIN names
    /\ \A i \in DOMAIN names : names[i] \in NamesOf(m.device)
    /\ \A i \in DOMAIN names :
          m.metrics[i].alias \in {Carried(m.device, names[i]), AliasAt[<<m.device, names[i]>>]}
    /\ \A i, j \in DOMAIN names : names[i] = names[j] => i = j

\* Each of them by its alias, declared or not.
Told(m, names) ==
    /\ Keyed(m, names)
    /\ \A i \in DOMAIN names : m.metrics[i].alias = AliasAt[<<m.device, names[i]>>]

\* A birth declares every metric of its owner, by name.
Declares(m, names) ==
    /\ Keyed(m, names)
    /\ \A i \in DOMAIN names : /\ m.metrics[i].name = names[i]
                               /\ m.metrics[i].alias = Carried(m.device, names[i])
    /\ \A n \in NamesOf(m.device) : \E i \in DOMAIN names : names[i] = n

\* Only the rebirth command is declared without an alias.
LEMMA CarriedIs ==
    \A d \in Owners : \A n \in NamesOf(d) :
        /\ <<d, n>> \in AliasKeys(Node)
        /\ ~(d = NodeItself /\ n = REBIRTH_METRIC) => Carried(d, n) # Absent
        /\ Carried(d, n) # Absent =>
              Carried(d, n) = AliasAt[<<d, n>>] /\ KeyOf(Node, Carried(d, n)) = <<d, n>>
  <1> SUFFICES ASSUME NEW d \in Owners, NEW n \in NamesOf(d)
               PROVE  /\ <<d, n>> \in AliasKeys(Node)
                      /\ ~(d = NodeItself /\ n = REBIRTH_METRIC) => Carried(d, n) # Absent
                      /\ Carried(d, n) # Absent =>
                            Carried(d, n) = AliasAt[<<d, n>>] /\ KeyOf(Node, Carried(d, n)) = <<d, n>>
    OBVIOUS
  <1>1. <<d, n>> \in AliasKeys(Node) BY NodeAliases
  <1>2. AliasAt[<<d, n>>] # Absent /\ KeyOf(Node, AliasAt[<<d, n>>]) = <<d, n>>
    BY <1>1, NodeAliases
  <1>3. CASE d = NodeItself /\ n = REBIRTH_METRIC
    <2>1. Carried(d, n) = Absent BY <1>3 DEF Carried
    <2> QED BY <1>1, <1>3, <2>1
  <1>4. CASE ~(d = NodeItself /\ n = REBIRTH_METRIC)
    <2>1. Carried(d, n) = AliasAt[<<d, n>>] BY <1>4 DEF Carried
    <2> QED BY <1>1, <1>2, <2>1
  <1> QED BY <1>3, <1>4

\* An alias that a message does carry stands for the metric, and only the rebirth
\* command can be without.
LEMMA KeyedAliases ==
    ASSUME NEW m, NEW names, Keyed(m, names), NEW i \in DOMAIN names
    PROVE  /\ m.metrics[i].alias # Absent =>
                 /\ m.metrics[i].alias = AliasAt[<<m.device, names[i]>>]
                 /\ KeyOf(Node, m.metrics[i].alias) = <<m.device, names[i]>>
           /\ Carried(m.device, names[i]) # Absent => m.metrics[i].alias # Absent
  <1> DEFINE d == m.device
             n == names[i]
             a == m.metrics[i].alias
  <1>1. d \in Owners /\ n \in NamesOf(d) /\ a \in {Carried(d, n), AliasAt[<<d, n>>]}
    BY DEF Keyed
  <1> HIDE DEF d, n, a
  <1>2. <<d, n>> \in AliasKeys(Node) BY <1>1, NodeAliases
  <1>3. AliasAt[<<d, n>>] # Absent /\ KeyOf(Node, AliasAt[<<d, n>>]) = <<d, n>>
    BY <1>2, NodeAliases
  <1>4. Carried(d, n) # Absent => Carried(d, n) = AliasAt[<<d, n>>] BY <1>1, CarriedIs
  <1>5. /\ a # Absent => a = AliasAt[<<d, n>>] /\ KeyOf(Node, a) = <<d, n>>
        /\ Carried(d, n) # Absent => a # Absent
    BY <1>1, <1>3, <1>4
  <1> QED BY <1>5 DEF d, n, a

\* The fields of a message.
MessageIs(m, type, d, q, ms, t) ==
    /\ m.type = type /\ m.device = d /\ m.seq = q /\ m.metrics = ms
    /\ m.ts = Now(Node, t) /\ m.qos = QosByTopicClass[type].qos
    /\ m.retain = QosByTopicClass[type].retain
    /\ m.topic = topic_for(Group, EdgeNode, type, IF d = NodeItself THEN "" ELSE Node.ids[d])
    /\ m # <<>>

\* _message() fills them in.
LEMMA MessageFields ==
    ASSUME NEW type, NEW d, NEW q, NEW ms, NEW t
    PROVE  MessageIs(Message(Node, type, d, q, ms, t), type, d, q, ms, t)
  <1>1. Node.group = Group /\ Node.edge = EdgeNode BY DEF Node
  <1>2. Message(Node, type, d, q, ms, t) # <<>>
    <2>1. "type" \in DOMAIN Message(Node, type, d, q, ms, t) BY DEF Message
    <2>2. DOMAIN <<>> = {} OBVIOUS
    <2> QED BY <2>1, <2>2
  <1> QED BY <1>1, <1>2 DEF Message, MessageIs

\* The fields of a metric.
LEMMA MetricFields ==
    ASSUME NEW n, NEW a, NEW dt, NEW v, NEW ts, NEW ps
    PROVE  LET x == Metric(n, a, dt, v, ts, ps)
           IN  x.name = n /\ x.alias = a /\ x.datatype = dt /\ x.value = v /\ x.ts = ts
  BY DEF Metric

\* The metrics of a birth of the node or of a device, as _birth_metrics builds them.
LEMMA BirthMetricsAre ==
    ASSUME NEW d \in Owners, NEW x, NEW t
    PROVE  LET names == InByteOrder(NamesOf(d))
               ms == BirthMetrics(Node, x, d, t)
           IN  /\ DOMAIN ms = DOMAIN names
               /\ \A i \in DOMAIN names :
                     /\ ms[i].name = names[i] /\ ms[i].alias = Carried(d, names[i])
                     /\ ms[i].ts = Now(Node, t)
                     /\ d = NodeItself /\ names[i] = BDSEQ_METRIC =>
                           ms[i].value = <<"int", x.bdseq>> /\ ms[i].datatype = "Int64"
  <1> DEFINE names == InByteOrder(NamesOf(d))
             ms == BirthMetrics(Node, x, d, t)
  <1>1. /\ DOMAIN ms = DOMAIN names
        /\ \A i \in DOMAIN names : ms[i] = BirthMetric(Node, x, d, SpecNamed(Node, d, names[i]), t)
    BY DEF BirthMetrics, NamesOf
  <1>2. \A i \in DOMAIN names : names[i] \in NamesOf(d)
    <2>1. NamesOf(d) \in SUBSET Nat /\ IsFiniteSet(NamesOf(d)) BY FixtureKeys
    <2> QED BY <2>1, ByteOrder
  <1> HIDE DEF names, ms
  <1>3. ASSUME NEW i \in DOMAIN names
        PROVE  /\ ms[i].name = names[i] /\ ms[i].alias = Carried(d, names[i])
               /\ ms[i].ts = Now(Node, t)
               /\ d = NodeItself /\ names[i] = BDSEQ_METRIC =>
                     ms[i].value = <<"int", x.bdseq>> /\ ms[i].datatype = "Int64"
    <2> DEFINE spec == SpecNamed(Node, d, names[i])
    <2>1. \E y \in SpecsOf(Node, d) : y.name = names[i] BY <1>2 DEF NamesOf
    <2>2. spec \in SpecsOf(Node, d) /\ spec.name = names[i] BY <2>1 DEF SpecNamed
    <2>3. d = NodeItself /\ names[i] = BDSEQ_METRIC => spec.datatype = "Int64"
      BY <2>2, Fixture DEF NodeItself
    <2>4. ms[i] = BirthMetric(Node, x, d, spec, t) BY <1>1
    <2> HIDE DEF spec
    <2>5. /\ ms[i].name = spec.name /\ ms[i].datatype = spec.datatype /\ ms[i].ts = Now(Node, t)
          /\ ms[i].alias = IF d = NodeItself /\ spec.name = REBIRTH_METRIC THEN Absent
                           ELSE assign_aliases(Node)[<<d, spec.name>>]
          /\ d = NodeItself /\ spec.name = BDSEQ_METRIC => ms[i].value = <<"int", x.bdseq>>
      BY <2>4, MetricFields DEF BirthMetric
    <2> QED BY <2>2, <2>3, <2>5 DEF Carried, AliasAt, Aliases
  <1> QED BY <1>1, <1>3 DEF names, ms

\* node_birth() and device_birth() declare every metric their owner will publish.
LEMMA BirthDeclares ==
    ASSUME NEW d \in Owners, NEW x, NEW t, NEW m, m.device = d,
           m.metrics = BirthMetrics(Node, x, d, t)
    PROVE  Declares(m, InByteOrder(NamesOf(d)))
  <1> DEFINE names == InByteOrder(NamesOf(d))
  <1>1. /\ \A i \in DOMAIN names : names[i] \in NamesOf(d)
        /\ \A i, j \in DOMAIN names : names[i] = names[j] => i = j
        /\ \A n \in NamesOf(d) : \E i \in DOMAIN names : names[i] = n
    <2>1. NamesOf(d) \in SUBSET Nat /\ IsFiniteSet(NamesOf(d)) BY FixtureKeys
    <2> QED BY <2>1, ByteOrder
  <1>2. /\ DOMAIN m.metrics = DOMAIN names
        /\ \A i \in DOMAIN names : /\ m.metrics[i].name = names[i]
                                   /\ m.metrics[i].alias = Carried(d, names[i])
    BY BirthMetricsAre
  <1> HIDE DEF names
  <1>3. Declares(m, names) BY <1>1, <1>2 DEF Declares, Keyed
  <1> QED BY <1>3 DEF names

\* _Trace.metric(): a name that one metric carries.
LEMMA OneNamed ==
    ASSUME NEW m, NEW n, NEW i \in DOMAIN m.metrics, i \in Int, m.metrics[i].name = n,
           \A j \in DOMAIN m.metrics : m.metrics[j].name = n => j = i
    PROVE  Has(m, n) /\ metric(m, n) = m.metrics[i]
  <1>1. Named(m, n) = {i} BY DEF Named
  <1>2. i <= i OBVIOUS
  <1>3. (CHOOSE k \in Named(m, n) : \A j \in Named(m, n) : k <= j) = i BY <1>1, <1>2
  <1> QED BY <1>1, <1>3 DEF Has, metric

\* The NBIRTH carries the bdSeq of its session, and as an Int64.
LEMMA BirthCarriesBdSeq ==
    ASSUME NEW x, NEW t
    PROVE  LET m == NodeBirthMessage(Node, x, t)
           IN  /\ m.type = "NBIRTH" /\ m.device = NodeItself /\ m.seq = x.seq
               /\ m.ts = Now(Node, t) /\ m # <<>>
               /\ Declares(m, InByteOrder(NamesOf(NodeItself)))
               /\ BdSeqIn(m) = x.bdseq /\ bdseq_datatype(m)
  <1> DEFINE m == NodeBirthMessage(Node, x, t)
             names == InByteOrder(NamesOf(NodeItself))
             ms == BirthMetrics(Node, x, NodeItself, t)
  <1>1. /\ m.type = "NBIRTH" /\ m.device = NodeItself /\ m.seq = x.seq /\ m.ts = Now(Node, t)
        /\ m.metrics = ms /\ m # <<>>
    <2>1. MessageIs(m, "NBIRTH", NodeItself, x.seq, ms, t)
      BY MessageFields DEF NodeBirthMessage
    <2> HIDE DEF m, ms
    <2> QED BY <2>1 DEF MessageIs
  <1>2. NodeItself \in Owners BY DEF Owners
  <1>3. Declares(m, names)
    <2> HIDE DEF m
    <2> QED BY <1>1, <1>2, BirthDeclares
  <1>4. /\ DOMAIN ms = DOMAIN names
        /\ \A i \in DOMAIN names :
              /\ ms[i].name = names[i]
              /\ names[i] = BDSEQ_METRIC =>
                    ms[i].value = <<"int", x.bdseq>> /\ ms[i].datatype = "Int64"
    BY <1>2, BirthMetricsAre
  <1>5. DOMAIN names \subseteq Int
    <2>1. NamesOf(NodeItself) \in SUBSET Nat /\ IsFiniteSet(NamesOf(NodeItself))
      BY <1>2, FixtureKeys
    <2> QED BY <2>1, ByteOrder
  <1>6. BDSEQ_METRIC \in NamesOf(NodeItself) BY Fixture DEF NodeItself, BDSEQ_METRIC
  <1> HIDE DEF m, ms, names
  <1>7. PICK i \in DOMAIN names : names[i] = BDSEQ_METRIC
    BY <1>1, <1>3, <1>6 DEF Declares
  <1>8. \A j \in DOMAIN names : names[j] = BDSEQ_METRIC => j = i
    BY <1>3, <1>7 DEF Declares, Keyed
  <1>9. Has(m, BDSEQ_METRIC) /\ metric(m, BDSEQ_METRIC) = ms[i]
    <2>1. i \in DOMAIN m.metrics /\ i \in Int /\ m.metrics[i].name = BDSEQ_METRIC
      BY <1>1, <1>4, <1>5, <1>7
    <2>2. \A j \in DOMAIN m.metrics : m.metrics[j].name = BDSEQ_METRIC => j = i
      BY <1>1, <1>4, <1>8
    <2> QED BY <1>1, <2>1, <2>2, OneNamed
  <1>10. BdSeqIn(m) = x.bdseq /\ bdseq_datatype(m)
    BY <1>4, <1>7, <1>9 DEF BdSeqIn, bdseq_datatype
  <1> QED BY <1>1, <1>3, <1>10 DEF m, names

\* The NDEATH, of the will and of disconnect(), carries bdSeq alone.
LEMMA DeathCarriesBdSeq ==
    ASSUME NEW x, NEW t
    PROVE  LET m == DeathMessage(Node, x, t)
           IN  /\ m.type = "NDEATH" /\ m.device = NodeItself /\ m.seq = Absent
               /\ m.ts = Now(Node, t) /\ m # <<>>
               /\ Told(m, <<BDSEQ_METRIC>>) /\ BdSeqIn(m) = x.bdseq
               /\ \A i \in DOMAIN m.metrics : m.metrics[i].ts = Now(Node, t)
  <1> DEFINE m == DeathMessage(Node, x, t)
             y == BdSeqMetric(Node, x, t)
  <1>1. /\ m.type = "NDEATH" /\ m.device = NodeItself /\ m.seq = Absent /\ m.ts = Now(Node, t)
        /\ m.metrics = <<y>> /\ m # <<>>
    <2>1. MessageIs(m, "NDEATH", NodeItself, Absent, <<y>>, t)
      BY MessageFields DEF DeathMessage
    <2> HIDE DEF m, y
    <2> QED BY <2>1 DEF MessageIs
  <1>2. /\ y.name = BDSEQ_METRIC /\ y.alias = assign_aliases(Node)[<<NodeItself, BDSEQ_METRIC>>]
        /\ y.value = <<"int", x.bdseq>> /\ y.ts = Now(Node, t)
    BY MetricFields DEF BdSeqMetric
  <1> HIDE DEF m, y
  <1>3. DOMAIN m.metrics = {1} /\ m.metrics[1] = y BY <1>1
  <1>4. BDSEQ_METRIC \in NamesOf(NodeItself) /\ NodeItself \in Owners
    BY Fixture DEF NodeItself, BDSEQ_METRIC, Owners
  <1>5. y.alias = AliasAt[<<NodeItself, BDSEQ_METRIC>>] BY <1>2 DEF AliasAt, Aliases
  <1>6. Told(m, <<BDSEQ_METRIC>>)
    <2>1. \A i \in DOMAIN <<BDSEQ_METRIC>> : i = 1 /\ <<BDSEQ_METRIC>>[i] = BDSEQ_METRIC OBVIOUS
    <2>2. DOMAIN m.metrics = DOMAIN <<BDSEQ_METRIC>> BY <1>3
    <2>3. Keyed(m, <<BDSEQ_METRIC>>) BY <1>1, <1>3, <1>4, <1>5, <2>1, <2>2 DEF Keyed
    <2> QED BY <1>1, <1>3, <1>5, <2>1, <2>3 DEF Told
  <1>7. metric(m, BDSEQ_METRIC) = y
    <2>1. 1 \in DOMAIN m.metrics /\ 1 \in Int /\ m.metrics[1].name = BDSEQ_METRIC BY <1>2, <1>3
    <2>2. \A j \in DOMAIN m.metrics : m.metrics[j].name = BDSEQ_METRIC => j = 1 BY <1>3
    <2>3. metric(m, BDSEQ_METRIC) = m.metrics[1] BY <2>1, <2>2, OneNamed
    <2> QED BY <1>3, <2>3
  <1>8. BdSeqIn(m) = x.bdseq BY <1>2, <1>7 DEF BdSeqIn
  <1> QED BY <1>1, <1>2, <1>3, <1>6, <1>8 DEF m

\* What the DBIRTH of a device says.
DeviceBirthIs(m, d, q, t) ==
    /\ m.type = "DBIRTH" /\ m.device = d /\ m.seq = q /\ m.ts = Now(Node, t)
    /\ Declares(m, InByteOrder(NamesOf(d)))

\* The DBIRTH of a device.
LEMMA DeviceBirthDeclares ==
    ASSUME NEW x, NEW d \in Devices, NEW t
    PROVE  DeviceBirthIs(DeviceBirthMessage(Node, x, d, t), d, x.seq, t)
  <1> DEFINE m == DeviceBirthMessage(Node, x, d, t)
  <1>1. /\ m.type = "DBIRTH" /\ m.device = d /\ m.seq = x.seq /\ m.ts = Now(Node, t)
        /\ m.metrics = BirthMetrics(Node, x, d, t)
    <2>1. MessageIs(m, "DBIRTH", d, x.seq, BirthMetrics(Node, x, d, t), t)
      BY MessageFields DEF DeviceBirthMessage
    <2> HIDE DEF m
    <2> QED BY <2>1 DEF MessageIs
  <1>2. d \in Owners BY DEF Owners
  <1> HIDE DEF m
  <1>3. Declares(m, InByteOrder(NamesOf(d))) BY <1>1, <1>2, BirthDeclares
  <1>4. DeviceBirthIs(m, d, x.seq, t) BY <1>1, <1>3 DEF DeviceBirthIs
  <1> QED BY <1>4 DEF m

\* The DDEATH of a device has no metrics.
LEMMA DeviceDeathIsEmpty ==
    ASSUME NEW x, NEW d \in Devices, NEW t
    PROVE  LET m == DeviceDeathMessage(Node, x, d, t)
           IN  /\ m.type = "DDEATH" /\ m.device = d /\ m.seq = x.seq /\ m.ts = Now(Node, t)
               /\ m.metrics = <<>> /\ Told(m, <<>>)
  <1> DEFINE m == DeviceDeathMessage(Node, x, d, t)
  <1>1. /\ m.type = "DDEATH" /\ m.device = d /\ m.seq = x.seq /\ m.ts = Now(Node, t)
        /\ m.metrics = <<>>
    <2>1. MessageIs(m, "DDEATH", d, x.seq, <<>>, t)
      BY MessageFields DEF DeviceDeathMessage
    <2> HIDE DEF m
    <2> QED BY <2>1 DEF MessageIs
  <1>2. d \in Owners BY DEF Owners
  <1> HIDE DEF m
  <1>3. Told(m, <<>>) BY <1>1, <1>2 DEF Told, Keyed
  <1> QED BY <1>1, <1>3 DEF m

\* What a data message of an owner says: the metrics of the names, each by its
\* alias alone.
DataIs(m, d, names, changed, q, t) ==
    /\ m.type = (IF d = NodeItself THEN "NDATA" ELSE "DDATA")
    /\ m.device = d /\ m.seq = q /\ m.ts = Now(Node, t)
    /\ Told(m, names)
    /\ \A n \in changed : \E i \in DOMAIN names : names[i] = n
    /\ \A i \in DOMAIN names : /\ names[i] \in changed /\ m.metrics[i].name = Absent
                               /\ m.metrics[i].ts = Now(Node, t)

\* node_data() and device_data(): the metrics the caller named, each once, by the
\* alias of the table and by nothing else.
LEMMA DataIsKeyed ==
    ASSUME NEW x, NEW d \in Owners, NEW changed \in SUBSET NamesOf(d), NEW v, NEW t
    PROVE  DataIs(DataMessage(Node, x, d, changed, v, t), d, InByteOrder(changed), changed, x.seq, t)
  <1> DEFINE m == DataMessage(Node, x, d, changed, v, t)
             names == InByteOrder(changed)
             ms == DataMetrics(Node, d, changed, v, t)
  <1>1. /\ m.type = (IF d = NodeItself THEN "NDATA" ELSE "DDATA") /\ m.device = d
        /\ m.seq = x.seq /\ m.ts = Now(Node, t) /\ m.metrics = ms
    <2>1. MessageIs(m, IF d = NodeItself THEN "NDATA" ELSE "DDATA", d, x.seq, ms, t)
      BY MessageFields DEF DataMessage
    <2> HIDE DEF m, ms
    <2> QED BY <2>1 DEF MessageIs
  <1>2. /\ DOMAIN ms = DOMAIN names
        /\ \A i \in DOMAIN names :
              ms[i] = Metric(Absent, assign_aliases(Node)[<<d, names[i]>>], "none", v,
                             Now(Node, t), NoProperties)
    BY DEF DataMetrics
  <1>3. changed \in SUBSET Nat /\ IsFiniteSet(changed) /\ changed \subseteq NamesOf(d)
    <2>1. NamesOf(d) \in SUBSET Nat /\ IsFiniteSet(NamesOf(d)) BY FixtureKeys
    <2> QED BY <2>1, FS_Subset
  <1>4. /\ \A i \in DOMAIN names : names[i] \in changed
        /\ \A i, j \in DOMAIN names : names[i] = names[j] => i = j
        /\ \A n \in changed : \E i \in DOMAIN names : names[i] = n
    BY <1>3, ByteOrder
  <1> HIDE DEF m, names, ms
  <1>5. \A i \in DOMAIN names : /\ ms[i].name = Absent /\ ms[i].ts = Now(Node, t)
                                /\ ms[i].alias = assign_aliases(Node)[<<d, names[i]>>]
    BY <1>2, MetricFields
  <1>6. \A i \in DOMAIN names : ms[i].alias = AliasAt[<<d, names[i]>>]
    BY <1>5 DEF AliasAt, Aliases
  <1>7. Keyed(m, names) BY <1>1, <1>2, <1>3, <1>4, <1>6 DEF Keyed
  <1>8. Told(m, names) BY <1>1, <1>6, <1>7 DEF Told
  <1>9. DataIs(m, d, names, changed, x.seq, t)
    BY <1>1, <1>2, <1>4, <1>5, <1>8 DEF DataIs
  <1> QED BY <1>9 DEF m, names

-----------------------------------------------------------------------------
(* The session.                                                            *)

Proved == INSTANCE EdgeNodeSessionProofs WITH
    NumDevices <- Cardinality(Devices),
    connected <- s.connected, bdseq <- s.bdseq, seq <- s.seq, born <- s.born,
    node_born <- s.node_born,
    outbox <- [i \in DOMAIN outbox |-> Abstract(outbox[i])],
    will <- IF will = NoWill THEN -1 ELSE BdSeqIn(will),
    view <- [alive |-> host.alive, bdseq |-> host.bdseq, born |-> host.born, next |-> host.next]

Counts == 0..SEQUENCE_MODULUS - 1

SessionSet == [connected : BOOLEAN, bdseq : {-1} \cup Counts, seq : Counts,
               born : SUBSET Devices, node_born : BOOLEAN]

\* The fields of a session.
IsSession(y, c, b, q, bs, nb) ==
    /\ y \in SessionSet /\ y.connected = c /\ y.bdseq = b /\ y.seq = q
    /\ y.born = bs /\ y.node_born = nb

\* What EdgeNodeSession assumes of its constants holds of the fixture.
LEMMA SessionAssumption ==
    Cardinality(Devices) \in Nat /\ SEQUENCE_MODULUS \in Nat \ {0} /\ Orderly \in BOOLEAN
  <1>1. Cardinality(Devices) = 2 BY Fixture
  <1> QED BY <1>1, MessageAssumption, BoundAssumption

\* Two messages count as two steps of a counter that does not wrap.
LEMMA Wraps ==
    /\ \A n \in Nat : n % SEQUENCE_MODULUS \in Counts
    /\ \A n \in Nat : ((n % SEQUENCE_MODULUS) + 1) % SEQUENCE_MODULUS = (n + 1) % SEQUENCE_MODULUS
    /\ 0 \in Counts /\ 0 % SEQUENCE_MODULUS = 0
  <1>1. SEQUENCE_MODULUS \in Nat \ {0} BY MessageAssumption
  <1>2. \A n \in Nat : ((n % SEQUENCE_MODULUS) + 1) % SEQUENCE_MODULUS = (n + 1) % SEQUENCE_MODULUS
    <2>1. ASSUME NEW M \in Nat \ {0}, NEW n \in Nat PROVE ((n % M) + 1) % M = (n + 1) % M
      BY SessionAssumption, Proved!WrapNext
    <2> QED BY <1>1, <2>1
  <1>3. \A n \in Nat : n % SEQUENCE_MODULUS \in Counts BY <1>1 DEF Counts
  <1>4. 0 \in Counts /\ 0 % SEQUENCE_MODULUS = 0 BY <1>1 DEF Counts
  <1> QED BY <1>2, <1>3, <1>4

\* What each method makes of the session's fields.
LEMMA SessionMoves ==
    ASSUME NEW x \in SessionSet
    PROVE  LET q == (x.seq + 1) % SEQUENCE_MODULUS
           IN  /\ IsSession(Connected(x), TRUE, (x.bdseq + 1) % SEQUENCE_MODULUS, 0, {}, FALSE)
               /\ IsSession(Disconnected(x), FALSE, x.bdseq, x.seq, {}, FALSE)
               /\ IsSession(NextSeq(x), x.connected, x.bdseq, q, x.born, x.node_born)
               /\ IsSession(NodeBorn(x), x.connected, x.bdseq, q, x.born, TRUE)
               /\ \A d \in Devices :
                     IsSession(DeviceBorn(x, d), x.connected, x.bdseq, q, x.born \cup {d}, x.node_born)
               /\ \A d :
                     IsSession(DeviceDied(x, d), x.connected, x.bdseq, q, x.born \ {d}, x.node_born)
               /\ IsSession([x EXCEPT !.seq = 0, !.born = {}], x.connected, x.bdseq, 0, {}, x.node_born)
  <1> DEFINE q == (x.seq + 1) % SEQUENCE_MODULUS
             b == (x.bdseq + 1) % SEQUENCE_MODULUS
  <1>1. q \in Counts /\ b \in Counts /\ 0 \in Counts
    BY MessageAssumption DEF Counts, SessionSet
  <1>2. NextSeq(x) = [x EXCEPT !.seq = q] BY DEF NextSeq
  <1> HIDE DEF q, b
  <1>3. IsSession(NextSeq(x), x.connected, x.bdseq, q, x.born, x.node_born)
    BY <1>1, <1>2 DEF IsSession, SessionSet
  <1>4. IsSession(Disconnected(x), FALSE, x.bdseq, x.seq, {}, FALSE)
    BY DEF Disconnected, IsSession, SessionSet
  <1>5. Connected(x) = [x EXCEPT !.bdseq = b, !.connected = TRUE, !.node_born = FALSE,
                                 !.born = {}, !.seq = 0]
    BY DEF Connected, b
  <1>6. IsSession(Connected(x), TRUE, b, 0, {}, FALSE) BY <1>1, <1>5 DEF IsSession, SessionSet
  <1>7. IsSession([x EXCEPT !.seq = 0, !.born = {}], x.connected, x.bdseq, 0, {}, x.node_born)
    BY <1>1 DEF IsSession, SessionSet
  <1>8. IsSession(NodeBorn(x), x.connected, x.bdseq, q, x.born, TRUE)
    <2> DEFINE y == [x EXCEPT !.node_born = TRUE]
    <2>1. /\ y \in SessionSet /\ y.seq = x.seq /\ y.connected = x.connected
          /\ y.bdseq = x.bdseq /\ y.born = x.born /\ y.node_born = TRUE
      BY DEF SessionSet
    <2>2. NodeBorn(x) = [y EXCEPT !.seq = q] BY <2>1 DEF NodeBorn, NextSeq, q
    <2> HIDE DEF y
    <2> QED BY <1>1, <2>1, <2>2 DEF IsSession, SessionSet
  <1>9. ASSUME NEW bs \in SUBSET Devices
        PROVE  IsSession(NextSeq([x EXCEPT !.born = bs]), x.connected, x.bdseq, q, bs, x.node_born)
    <2> DEFINE y == [x EXCEPT !.born = bs]
    <2>1. /\ y \in SessionSet /\ y.seq = x.seq /\ y.connected = x.connected
          /\ y.bdseq = x.bdseq /\ y.born = bs /\ y.node_born = x.node_born
      BY DEF SessionSet
    <2>2. NextSeq(y) = [y EXCEPT !.seq = q] BY <2>1 DEF NextSeq, q
    <2> HIDE DEF y
    <2>3. IsSession(NextSeq(y), x.connected, x.bdseq, q, bs, x.node_born)
      BY <1>1, <2>1, <2>2 DEF IsSession, SessionSet
    <2> QED BY <2>3 DEF y
  <1>10. x.born \in SUBSET Devices BY DEF SessionSet
  <1>11. ASSUME NEW d \in Devices
         PROVE  IsSession(DeviceBorn(x, d), x.connected, x.bdseq, q, x.born \cup {d}, x.node_born)
    BY <1>9, <1>10 DEF DeviceBorn
  <1>12. ASSUME NEW d
         PROVE  IsSession(DeviceDied(x, d), x.connected, x.bdseq, q, x.born \ {d}, x.node_born)
    BY <1>9, <1>10 DEF DeviceDied
  <1> QED BY <1>3, <1>4, <1>6, <1>7, <1>8, <1>11, <1>12 DEF q, b

\* The session x after its births up to device d.
BornUpTo(y, x, d) == IsSession(y, x.connected, x.bdseq, (d + 1) % SEQUENCE_MODULUS, 1..d, TRUE)

\* rebirth(): the session after the births of the node and of each device.
LEMMA RebirthIs ==
    ASSUME NEW x \in SessionSet
    PROVE  /\ \A d \in 0..2 : BornUpTo(RebirthSession(Node, x)[d], x, d)
           /\ BornUpTo(Reborn(Node, x), x, 2)
  <1> DEFINE base == NodeBorn([x EXCEPT !.seq = 0, !.born = {}])
             f == RebirthSession(Node, x)
             g == [d \in 0..2 |-> IF d = 0 THEN base
                                  ELSE IF d = 1 THEN DeviceBorn(base, 1)
                                  ELSE DeviceBorn(DeviceBorn(base, 1), 2)]
  <1>0. Cardinality(DOMAIN Node.devices) = 2 BY Fixture DEF Devices
  <1>1. g = [d \in 0..2 |-> IF d = 0 THEN base ELSE DeviceBorn(g[d-1], d)]
    OBVIOUS
  <1>2. f = CHOOSE h : h = [d \in 0..2 |-> IF d = 0 THEN base ELSE DeviceBorn(h[d-1], d)]
    BY <1>0 DEF RebirthSession
  <1> HIDE DEF f, g, base
  <1>3. f = [d \in 0..2 |-> IF d = 0 THEN base ELSE DeviceBorn(f[d-1], d)]
    BY <1>1, <1>2
  <1>4. f[0] = base /\ f[1] = DeviceBorn(f[0], 1) /\ f[2] = DeviceBorn(f[1], 2)
    BY <1>3
  <1>5. BornUpTo(base, x, 0)
    <2> DEFINE y == [x EXCEPT !.seq = 0, !.born = {}]
    <2>1. base = NodeBorn(y) BY DEF base
    <2>2. IsSession(y, x.connected, x.bdseq, 0, {}, x.node_born) BY SessionMoves
    <2>3. 1..0 = {} OBVIOUS
    <2> HIDE DEF y
    <2>4. y \in SessionSet BY <2>2 DEF IsSession
    <2>5. IsSession(NodeBorn(y), y.connected, y.bdseq, (y.seq + 1) % SEQUENCE_MODULUS, y.born, TRUE)
      BY <2>4, SessionMoves
    <2> QED BY <2>1, <2>2, <2>3, <2>5 DEF BornUpTo, IsSession
  <1>6. ASSUME NEW d \in 0..1, NEW y, BornUpTo(y, x, d) PROVE BornUpTo(DeviceBorn(y, d + 1), x, d + 1)
    <2>1. (((d + 1) % SEQUENCE_MODULUS) + 1) % SEQUENCE_MODULUS = (d + 1 + 1) % SEQUENCE_MODULUS
      BY Wraps
    <2>2. (1..d) \cup {d + 1} = 1..d + 1 /\ d + 1 \in Devices BY Fixture
    <2>3. /\ y \in SessionSet /\ y.connected = x.connected /\ y.bdseq = x.bdseq /\ y.born = 1..d
          /\ y.node_born = TRUE /\ y.seq = (d + 1) % SEQUENCE_MODULUS
      BY <1>6 DEF BornUpTo, IsSession
    <2>4. IsSession(DeviceBorn(y, d + 1), y.connected, y.bdseq, (y.seq + 1) % SEQUENCE_MODULUS,
                    y.born \cup {d + 1}, y.node_born)
      BY <2>2, <2>3, SessionMoves
    <2> QED BY <2>1, <2>2, <2>3, <2>4 DEF BornUpTo
  <1>7. BornUpTo(f[0], x, 0) BY <1>4, <1>5
  <1>8. BornUpTo(f[1], x, 1)
    <2>1. BornUpTo(DeviceBorn(f[0], 0 + 1), x, 0 + 1) BY <1>6, <1>7
    <2> QED BY <1>4, <2>1
  <1>9. BornUpTo(f[2], x, 2)
    <2>1. BornUpTo(DeviceBorn(f[1], 1 + 1), x, 1 + 1) BY <1>6, <1>8
    <2> QED BY <1>4, <2>1
  <1>10. Reborn(Node, x) = f[2] BY <1>0 DEF Reborn, f
  <1>11. \A d \in 0..2 : BornUpTo(f[d], x, d)
    <2>1. \A d \in 0..2 : d = 0 \/ d = 1 \/ d = 2 OBVIOUS
    <2> QED BY <1>7, <1>8, <1>9, <2>1
  <1> QED BY <1>9, <1>10, <1>11 DEF f

-----------------------------------------------------------------------------
(* The messages of a session that has counted b connections, at instant t. *)

NodeBirths(b, t) == {NodeBirthMessage(Node, At(q, b), t) : q \in Counts}
NodeDeaths(b, t) == {DeathMessage(Node, At(q, b), t) : q \in Counts}
DeviceBirths(b, t) == {DeviceBirthMessage(Node, At(q, b), d, t) : q \in Counts, d \in Devices}
DeviceDeaths(b, t) == {DeviceDeathMessage(Node, At(q, b), d, t) : q \in Counts, d \in Devices}
DataMessages(b, t) ==
    UNION {{DataMessage(Node, At(q, b), d, changed, v, t) :
              q \in Counts, changed \in SUBSET NamesOf(d), v \in Values} : d \in Owners}

Sent(b, t) == NodeBirths(b, t) \cup NodeDeaths(b, t) \cup DeviceBirths(b, t)
                \cup DeviceDeaths(b, t) \cup DataMessages(b, t)

\* The counters of a session that has no other field of interest.
LEMMA AtFields ==
    ASSUME NEW q, NEW b
    PROVE  At(q, b).seq = q /\ At(q, b).bdseq = b
  BY DEF At, NewSession

\* A message shows nothing of the session but its counters.
LEMMA OnlyCounters ==
    ASSUME NEW x, NEW t
    PROVE  LET y == At(x.seq, x.bdseq)
           IN  /\ NodeBirthMessage(Node, x, t) = NodeBirthMessage(Node, y, t)
               /\ DeathMessage(Node, x, t) = DeathMessage(Node, y, t)
               /\ \A d : DeviceBirthMessage(Node, x, d, t) = DeviceBirthMessage(Node, y, d, t)
               /\ \A d : DeviceDeathMessage(Node, x, d, t) = DeviceDeathMessage(Node, y, d, t)
               /\ \A d, changed, v :
                     DataMessage(Node, x, d, changed, v, t) = DataMessage(Node, y, d, changed, v, t)
  <1> DEFINE y == At(x.seq, x.bdseq)
  <1>1. y.seq = x.seq /\ y.bdseq = x.bdseq BY AtFields
  <1> HIDE DEF y
  <1>2. \A d : BirthMetrics(Node, x, d, t) = BirthMetrics(Node, y, d, t)
    <2>1. \A d, spec : BirthMetric(Node, x, d, spec, t) = BirthMetric(Node, y, d, spec, t)
      BY <1>1 DEF BirthMetric
    <2> QED BY <2>1 DEF BirthMetrics
  <1>3. BdSeqMetric(Node, x, t) = BdSeqMetric(Node, y, t) BY <1>1 DEF BdSeqMetric
  <1>4. NodeBirthMessage(Node, x, t) = NodeBirthMessage(Node, y, t)
    BY <1>1, <1>2 DEF NodeBirthMessage
  <1>5. DeathMessage(Node, x, t) = DeathMessage(Node, y, t) BY <1>3 DEF DeathMessage
  <1>6. \A d : DeviceBirthMessage(Node, x, d, t) = DeviceBirthMessage(Node, y, d, t)
    BY <1>1, <1>2 DEF DeviceBirthMessage
  <1>7. \A d : DeviceDeathMessage(Node, x, d, t) = DeviceDeathMessage(Node, y, d, t)
    BY <1>1 DEF DeviceDeathMessage
  <1>8. \A d, changed, v :
           DataMessage(Node, x, d, changed, v, t) = DataMessage(Node, y, d, changed, v, t)
    BY <1>1 DEF DataMessage
  <1> QED BY <1>4, <1>5, <1>6, <1>7, <1>8 DEF y

\* What each method hands back is among them.
LEMMA HandsBack ==
    ASSUME NEW x, x.seq \in Counts, NEW t
    PROVE  /\ NodeBirthMessage(Node, x, t) \in Sent(x.bdseq, t)
           /\ DeathMessage(Node, x, t) \in Sent(x.bdseq, t)
           /\ \A d \in Devices : /\ DeviceBirthMessage(Node, x, d, t) \in Sent(x.bdseq, t)
                                 /\ DeviceDeathMessage(Node, x, d, t) \in Sent(x.bdseq, t)
           /\ \A d \in Owners : \A changed \in SUBSET NamesOf(d), v \in Values :
                 DataMessage(Node, x, d, changed, v, t) \in Sent(x.bdseq, t)
  <1> DEFINE b == x.bdseq
             y == At(x.seq, b)
  <1>1. NodeBirthMessage(Node, y, t) \in NodeBirths(b, t) BY DEF NodeBirths
  <1>2. DeathMessage(Node, y, t) \in NodeDeaths(b, t) BY DEF NodeDeaths
  <1>3. \A d \in Devices : DeviceBirthMessage(Node, y, d, t) \in DeviceBirths(b, t)
    BY DEF DeviceBirths
  <1>4. \A d \in Devices : DeviceDeathMessage(Node, y, d, t) \in DeviceDeaths(b, t)
    BY DEF DeviceDeaths
  <1>5. ASSUME NEW d \in Owners, NEW changed \in SUBSET NamesOf(d), NEW v \in Values
        PROVE  DataMessage(Node, y, d, changed, v, t) \in DataMessages(b, t)
    BY DEF DataMessages
  <1>6. /\ NodeBirthMessage(Node, x, t) = NodeBirthMessage(Node, y, t)
        /\ DeathMessage(Node, x, t) = DeathMessage(Node, y, t)
        /\ \A d : DeviceBirthMessage(Node, x, d, t) = DeviceBirthMessage(Node, y, d, t)
        /\ \A d : DeviceDeathMessage(Node, x, d, t) = DeviceDeathMessage(Node, y, d, t)
        /\ \A d, changed, v :
              DataMessage(Node, x, d, changed, v, t) = DataMessage(Node, y, d, changed, v, t)
    BY OnlyCounters
  <1> HIDE DEF y, b
  <1>7. /\ NodeBirths(b, t) \subseteq Sent(b, t) /\ NodeDeaths(b, t) \subseteq Sent(b, t)
        /\ DeviceBirths(b, t) \subseteq Sent(b, t) /\ DeviceDeaths(b, t) \subseteq Sent(b, t)
        /\ DataMessages(b, t) \subseteq Sent(b, t)
    BY DEF Sent
  <1>8. \A d \in Owners : \A changed \in SUBSET NamesOf(d), v \in Values :
           DataMessage(Node, x, d, changed, v, t) \in Sent(b, t)
    BY <1>5, <1>6, <1>7
  <1> QED BY <1>1, <1>2, <1>3, <1>4, <1>6, <1>7, <1>8 DEF b

BirthKinds == {"NBIRTH", "DBIRTH"}
DataKinds == {"NDATA", "DDATA"}

\* What a subscriber can rely on in a message of a session with count b.
Shape(m, b) ==
    /\ m.type \in {"NBIRTH", "DBIRTH", "NDATA", "DDATA", "DDEATH", "NDEATH"}
    /\ m.type \in {"NBIRTH", "NDATA", "NDEATH"} => m.device = NodeItself
    /\ m.type \in {"DBIRTH", "DDATA", "DDEATH"} => m.device \in Devices
    /\ m.type = "NDEATH" => m.seq = Absent
    /\ m.type # "NDEATH" => m.seq \in Counts
    /\ m.type \in {"NBIRTH", "NDEATH"} => BdSeqIn(m) = b
    /\ m.type = "DDEATH" => m.metrics = <<>>
    /\ m.type \notin BirthKinds => \E names : Told(m, names)
    /\ m.type \in BirthKinds => \E names : Declares(m, names)

\* Every message of the session has that shape.
LEMMA SentShape ==
    ASSUME NEW b, NEW t, NEW m \in Sent(b, t)
    PROVE  Shape(m, b)
  <1> USE DEF BirthKinds
  <1>1. CASE m \in NodeBirths(b, t)
    <2>1. PICK q \in Counts : m = NodeBirthMessage(Node, At(q, b), t) BY <1>1 DEF NodeBirths
    <2>2. /\ m.type = "NBIRTH" /\ m.device = NodeItself /\ m.seq = q /\ BdSeqIn(m) = b
          /\ Declares(m, InByteOrder(NamesOf(NodeItself)))
      BY <2>1, BirthCarriesBdSeq, AtFields
    <2> QED BY <2>2 DEF Shape
  <1>2. CASE m \in NodeDeaths(b, t)
    <2>1. PICK q \in Counts : m = DeathMessage(Node, At(q, b), t) BY <1>2 DEF NodeDeaths
    <2>2. /\ m.type = "NDEATH" /\ m.device = NodeItself /\ m.seq = Absent /\ BdSeqIn(m) = b
          /\ Told(m, <<BDSEQ_METRIC>>)
      BY <2>1, DeathCarriesBdSeq, AtFields
    <2> QED BY <2>2 DEF Shape
  <1>3. CASE m \in DeviceBirths(b, t)
    <2>1. PICK q \in Counts, d \in Devices : m = DeviceBirthMessage(Node, At(q, b), d, t)
      BY <1>3 DEF DeviceBirths
    <2>2. /\ m.type = "DBIRTH" /\ m.device = d /\ m.seq = q
          /\ Declares(m, InByteOrder(NamesOf(d)))
      BY <2>1, DeviceBirthDeclares, AtFields DEF DeviceBirthIs
    <2> QED BY <2>2 DEF Shape
  <1>4. CASE m \in DeviceDeaths(b, t)
    <2>1. PICK q \in Counts, d \in Devices : m = DeviceDeathMessage(Node, At(q, b), d, t)
      BY <1>4 DEF DeviceDeaths
    <2>2. /\ m.type = "DDEATH" /\ m.device = d /\ m.seq = q /\ m.metrics = <<>> /\ Told(m, <<>>)
      BY <2>1, DeviceDeathIsEmpty, AtFields
    <2> QED BY <2>2 DEF Shape
  <1>5. CASE m \in DataMessages(b, t)
    <2>1. PICK d \in Owners : \E q \in Counts, changed \in SUBSET NamesOf(d), v \in Values :
                                 m = DataMessage(Node, At(q, b), d, changed, v, t)
      BY <1>5 DEF DataMessages
    <2>2. PICK q \in Counts, changed \in SUBSET NamesOf(d), v \in Values :
                 m = DataMessage(Node, At(q, b), d, changed, v, t)
      BY <2>1
    <2>3. /\ m.type = (IF d = NodeItself THEN "NDATA" ELSE "DDATA") /\ m.device = d /\ m.seq = q
          /\ Told(m, InByteOrder(changed))
      <3> DEFINE x == At(q, b)
      <3>1. x.seq = q BY AtFields
      <3> HIDE DEF x
      <3>2. /\ m.type = (IF d = NodeItself THEN "NDATA" ELSE "DDATA") /\ m.device = d
            /\ m.seq = x.seq /\ Told(m, InByteOrder(changed))
        BY <2>2, DataIsKeyed DEF x, DataIs
      <3> QED BY <3>1, <3>2
    <2>4. d = NodeItself \/ d \in Devices BY DEF Owners
    <2> QED BY <2>3, <2>4 DEF Shape
  <1> QED BY <1>1, <1>2, <1>3, <1>4, <1>5 DEF Sent

-----------------------------------------------------------------------------
(* The subscriber.                                                         *)

HostFields == {"alive", "bdseq", "next", "born", "lost", "book", "read"}

\* What the book says is in the alias table, and is not of the rebirth command.
BookOK(book) ==
    \A a \in DOMAIN book : \E k \in AliasKeys(Node) \ {RebirthCommand} :
        a = AliasAt[k] /\ book[a] = k

\* The entries of two functions.
LEMMA OverIs ==
    ASSUME NEW f, NEW g
    PROVE  /\ DOMAIN Over(f, g) = DOMAIN f \cup DOMAIN g
           /\ \A x \in DOMAIN f : Over(f, g)[x] = f[x]
           /\ \A x \in DOMAIN g : x \notin DOMAIN f => Over(f, g)[x] = g[x]
  BY DEF Over

\* A birth enters each metric of its owner under the alias of the table, and
\* leaves out the rebirth command only.
LEMMA EntriesAre ==
    ASSUME NEW m, NEW names, Declares(m, names)
    PROVE  /\ BookOK(Entries(m))
           /\ \A n \in NamesOf(m.device) :
                 Carried(m.device, n) # Absent => AliasAt[<<m.device, n>>] \in DOMAIN Entries(m)
  <1> DEFINE d == m.device
             aliased == {i \in DOMAIN m.metrics : m.metrics[i].alias # Absent}
             e == Entries(m)
  <1>1. d \in Owners BY DEF Declares, Keyed
  <1>2. \A i \in DOMAIN m.metrics :
           /\ i \in DOMAIN names /\ names[i] \in NamesOf(d) /\ m.metrics[i].name = names[i]
           /\ m.metrics[i].alias = Carried(d, names[i])
    BY DEF Declares, Keyed
  <1>3. \A i \in aliased : /\ <<d, m.metrics[i].name>> \in AliasKeys(Node) \ {RebirthCommand}
                           /\ m.metrics[i].alias = AliasAt[<<d, m.metrics[i].name>>]
    <2> SUFFICES ASSUME NEW i \in aliased
                 PROVE  /\ <<d, names[i]>> \in AliasKeys(Node) \ {RebirthCommand}
                        /\ Carried(d, names[i]) = AliasAt[<<d, names[i]>>]
      BY <1>2
    <2>1. names[i] \in NamesOf(d) /\ Carried(d, names[i]) # Absent BY <1>2
    <2>2. <<d, names[i]>> # RebirthCommand BY <2>1 DEF Carried, RebirthCommand
    <2> QED BY <1>1, <2>1, <2>2, CarriedIs
  <1>4. /\ DOMAIN e = {m.metrics[i].alias : i \in aliased}
        /\ \A a \in DOMAIN e :
              e[a] = <<d, m.metrics[CHOOSE i \in aliased : m.metrics[i].alias = a].name>>
    BY DEF Entries
  <1>5. ASSUME NEW n \in NamesOf(d), Carried(d, n) # Absent
        PROVE  AliasAt[<<d, n>>] \in DOMAIN e
    <2>1. PICK i \in DOMAIN m.metrics : names[i] = n BY DEF Declares, Keyed
    <2>2. m.metrics[i].alias = Carried(d, n) /\ i \in aliased BY <1>2, <1>5, <2>1
    <2>3. Carried(d, n) = AliasAt[<<d, n>>] BY <1>1, <1>5, CarriedIs
    <2> HIDE DEF aliased, e, d
    <2> QED BY <1>4, <2>2, <2>3
  <1> HIDE DEF aliased, e, d
  <1>6. ASSUME NEW a \in DOMAIN e
        PROVE  \E k \in AliasKeys(Node) \ {RebirthCommand} : a = AliasAt[k] /\ e[a] = k
    <2> DEFINE i == CHOOSE j \in aliased : m.metrics[j].alias = a
    <2>1. \E j \in aliased : m.metrics[j].alias = a BY <1>4
    <2>2. i \in aliased /\ m.metrics[i].alias = a BY <2>1
    <2>3. e[a] = <<d, m.metrics[i].name>> BY <1>4
    <2> HIDE DEF i
    <2> QED BY <1>3, <2>2, <2>3
  <1> QED BY <1>5, <1>6 DEF BookOK, d, e

\* Two books that agree with the table make one that does.
LEMMA BooksOver ==
    ASSUME NEW f, NEW g, BookOK(f), BookOK(g)
    PROVE  BookOK(Over(f, g))
  <1> SUFFICES ASSUME NEW a \in DOMAIN Over(f, g)
               PROVE  \E k \in AliasKeys(Node) \ {RebirthCommand} :
                         a = AliasAt[k] /\ Over(f, g)[a] = k
    BY DEF BookOK
  <1>0. /\ DOMAIN Over(f, g) = DOMAIN f \cup DOMAIN g
        /\ \A x \in DOMAIN f : Over(f, g)[x] = f[x]
        /\ \A x \in DOMAIN g : x \notin DOMAIN f => Over(f, g)[x] = g[x]
    BY OverIs
  <1>1. CASE a \in DOMAIN f
    <2>1. Over(f, g)[a] = f[a] BY <1>0, <1>1
    <2> QED BY <1>1, <2>1 DEF BookOK
  <1>2. CASE a \notin DOMAIN f
    <2>1. a \in DOMAIN g /\ Over(f, g)[a] = g[a] BY <1>0, <1>2
    <2> QED BY <2>1 DEF BookOK
  <1> QED BY <1>1, <1>2

\* The readings of a message are the values of its metrics, each under the name
\* it stands for, as far as the book goes.
ReadingsSay(m, names, book) ==
    /\ \A k \in DOMAIN Readings(book, m) : \E i \in DOMAIN names :
          k = <<m.device, names[i]>> /\ Readings(book, m)[k] = m.metrics[i].value
    /\ \A i \in DOMAIN names :
          /\ Carried(m.device, names[i]) # Absent
          /\ AliasAt[<<m.device, names[i]>>] \in DOMAIN book
          => <<m.device, names[i]>> \in DOMAIN Readings(book, m)

\* A message is read as its metrics were meant.
LEMMA ReadingsAre ==
    ASSUME NEW m, NEW names, Keyed(m, names), NEW book, BookOK(book)
    PROVE  ReadingsSay(m, names, book)
  <1> DEFINE d == m.device
             known == {i \in DOMAIN m.metrics : m.metrics[i].alias \in DOMAIN book}
             r == Readings(book, m)
  <1>1. d \in Owners BY DEF Keyed
  <1>2. ASSUME NEW i \in DOMAIN m.metrics
        PROVE  /\ i \in DOMAIN names /\ names[i] \in NamesOf(d)
               /\ m.metrics[i].alias # Absent => m.metrics[i].alias = AliasAt[<<d, names[i]>>]
               /\ Carried(d, names[i]) # Absent => m.metrics[i].alias # Absent
    <2>1. i \in DOMAIN names /\ names[i] \in NamesOf(d) BY DEF Keyed
    <2> QED BY <2>1, KeyedAliases
  <1>3. \A a \in DOMAIN book : a # Absent BY NodeAliases DEF BookOK
  <1>4. ASSUME NEW i \in known PROVE book[m.metrics[i].alias] = <<d, names[i]>>
    <2>1. i \in DOMAIN m.metrics /\ m.metrics[i].alias # Absent BY <1>3
    <2>2. PICK k \in AliasKeys(Node) :
             m.metrics[i].alias = AliasAt[k] /\ book[m.metrics[i].alias] = k
      BY DEF BookOK
    <2>3. /\ m.metrics[i].alias = AliasAt[<<d, names[i]>>] /\ <<d, names[i]>> \in AliasKeys(Node)
      BY <1>1, <1>2, <2>1, NodeAliases
    <2> QED BY <2>2, <2>3, NodeAliases
  <1>5. /\ DOMAIN r = {book[m.metrics[i].alias] : i \in known}
        /\ \A k \in DOMAIN r :
              r[k] = m.metrics[CHOOSE i \in known : book[m.metrics[i].alias] = k].value
    BY DEF Readings
  <1>6. ASSUME NEW i \in DOMAIN names, Carried(d, names[i]) # Absent,
               AliasAt[<<d, names[i]>>] \in DOMAIN book
        PROVE  <<d, names[i]>> \in DOMAIN r
    <2>1. i \in DOMAIN m.metrics BY DEF Keyed
    <2>2. m.metrics[i].alias = AliasAt[<<d, names[i]>>] BY <1>2, <1>6, <2>1
    <2>3. i \in known BY <1>6, <2>1, <2>2
    <2>4. book[m.metrics[i].alias] = <<d, names[i]>> BY <1>4, <2>3
    <2> HIDE DEF known, r, d
    <2>5. book[m.metrics[i].alias] \in DOMAIN r BY <1>5, <2>3
    <2> QED BY <2>4, <2>5
  <1>7. known \subseteq DOMAIN names BY <1>2
  <1> HIDE DEF known, r, d
  <1>8. ASSUME NEW k \in DOMAIN r
        PROVE  \E i \in DOMAIN names : k = <<d, names[i]>> /\ r[k] = m.metrics[i].value
    <2> DEFINE i == CHOOSE j \in known : book[m.metrics[j].alias] = k
    <2>1. \E j \in known : book[m.metrics[j].alias] = k BY <1>5
    <2>2. i \in known /\ book[m.metrics[i].alias] = k BY <2>1
    <2>3. r[k] = m.metrics[i].value BY <1>5
    <2> HIDE DEF i
    <2> QED BY <1>4, <1>7, <2>2, <2>3
  <1> QED BY <1>6, <1>8 DEF ReadingsSay, r, d

\* What a set of records leaves on each of their topics.
Retained(records) ==
    [k \in {r.key : r \in records} |->
        LET r == CHOOSE x \in records : x.key = k
        IN  [value |-> r.value, quality |-> r.quality]]

\* A retained value is that of a record of its key.
LEMMA RetainedIs ==
    ASSUME NEW records
    PROVE  /\ \A r \in records : r.key \in DOMAIN Retained(records)
           /\ \A k \in DOMAIN Retained(records) : \E r \in records :
                 r.key = k /\ Retained(records)[k] = [value |-> r.value, quality |-> r.quality]
  <1>1. DOMAIN Retained(records) = {r.key : r \in records} BY DEF Retained
  <1>2. ASSUME NEW k \in DOMAIN Retained(records)
        PROVE  \E r \in records :
                 r.key = k /\ Retained(records)[k] = [value |-> r.value, quality |-> r.quality]
    <2> DEFINE r == CHOOSE x \in records : x.key = k
    <2>1. \E x \in records : x.key = k BY <1>1
    <2>2. r \in records /\ r.key = k BY <2>1
    <2>3. Retained(records)[k] = [value |-> r.value, quality |-> r.quality]
      BY <1>1 DEF Retained
    <2> HIDE DEF r
    <2> QED BY <2>2, <2>3
  <1> QED BY <1>1, <1>2

\* The mirror of a message has the value of each metric of a device under its own
\* topic, and nothing of the node's.
MirrorSays(m, names) ==
    LET z == Retained(mirror_records(Node, m))
    IN  /\ \A k \in DOMAIN z : \E i \in DOMAIN names :
              /\ m.device \in Devices /\ k = <<m.device, names[i]>>
              /\ z[k] = [value |-> m.metrics[i].value, quality |-> "good"]
        /\ m.device \in Devices => \A i \in DOMAIN names : <<m.device, names[i]>> \in DOMAIN z

\* mirror_records() resolves the aliases through the table they were assigned from.
LEMMA MirrorIs ==
    ASSUME NEW m, NEW names, Keyed(m, names)
    PROVE  MirrorSays(m, names)
  <1> DEFINE d == m.device
             shown == {j \in DOMAIN m.metrics : /\ m.metrics[j].alias # Absent
                                                /\ KeyOf(Node, m.metrics[j].alias)[1] # NodeItself}
             rec(i) == [key |-> KeyOf(Node, m.metrics[i].alias), value |-> m.metrics[i].value,
                        quality |-> "good", ts |-> m.metrics[i].ts, seq |-> m.seq]
             records == mirror_records(Node, m)
             z == Retained(records)
  <1>1. d \in Owners BY DEF Keyed
  <1>2. ASSUME NEW i \in DOMAIN m.metrics
        PROVE  /\ i \in DOMAIN names /\ names[i] \in NamesOf(d)
               /\ Carried(d, names[i]) # Absent => m.metrics[i].alias # Absent
               /\ m.metrics[i].alias # Absent => KeyOf(Node, m.metrics[i].alias) = <<d, names[i]>>
    <2>1. i \in DOMAIN names /\ names[i] \in NamesOf(d) BY DEF Keyed
    <2>2. /\ m.metrics[i].alias # Absent =>
                /\ m.metrics[i].alias = AliasAt[<<d, names[i]>>]
                /\ KeyOf(Node, m.metrics[i].alias) = <<d, names[i]>>
          /\ Carried(d, names[i]) # Absent => m.metrics[i].alias # Absent
      BY <2>1, KeyedAliases
    <2> QED BY <2>1, <2>2
  <1>3. records = {rec(i) : i \in shown} BY DEF mirror_records
  <1>4. \A i \in shown : d \in Devices /\ KeyOf(Node, m.metrics[i].alias) = <<d, names[i]>>
    <2> SUFFICES ASSUME NEW i \in shown
                 PROVE  d \in Devices /\ KeyOf(Node, m.metrics[i].alias) = <<d, names[i]>>
      OBVIOUS
    <2>1. KeyOf(Node, m.metrics[i].alias) = <<d, names[i]>> BY <1>2
    <2>2. KeyOf(Node, m.metrics[i].alias)[1] = d BY <2>1
    <2>3. d # NodeItself BY <2>2
    <2> QED BY <1>1, <2>1, <2>3 DEF Owners
  <1>5. /\ \A r \in records : r.key \in DOMAIN z
        /\ \A k \in DOMAIN z : \E r \in records :
              r.key = k /\ z[k] = [value |-> r.value, quality |-> r.quality]
    <2> HIDE DEF shown, rec, d, records
    <2> QED BY RetainedIs
  <1>6. ASSUME d \in Devices, NEW i \in DOMAIN names PROVE <<d, names[i]>> \in DOMAIN z
    <2>1. i \in DOMAIN m.metrics BY DEF Keyed
    <2>2. d # NodeItself BY <1>6, Fixture
    <2>3. m.metrics[i].alias # Absent BY <1>1, <1>2, <2>1, <2>2, CarriedIs
    <2>4. KeyOf(Node, m.metrics[i].alias) = <<d, names[i]>> BY <1>2, <2>1, <2>3
    <2>5. KeyOf(Node, m.metrics[i].alias)[1] = d BY <2>4
    <2>6. i \in shown BY <1>2, <2>1, <2>2, <2>3, <2>5
    <2>7. rec(i).key = <<d, names[i]>> BY <2>4
    <2> HIDE DEF shown, rec, records, z, d
    <2> QED BY <1>3, <1>5, <2>6, <2>7
  <1>7. \A i \in shown : rec(i).key = KeyOf(Node, m.metrics[i].alias)
                         /\ rec(i).value = m.metrics[i].value /\ rec(i).quality = "good"
    OBVIOUS
  <1>8. shown \subseteq DOMAIN names BY <1>2
  <1> HIDE DEF shown, rec, records, z, d
  <1>9. ASSUME NEW k \in DOMAIN z
         PROVE  \E i \in DOMAIN names : /\ d \in Devices /\ k = <<d, names[i]>>
                                        /\ z[k] = [value |-> m.metrics[i].value, quality |-> "good"]
    <2>1. PICK r \in records : r.key = k /\ z[k] = [value |-> r.value, quality |-> r.quality]
      BY <1>5
    <2>2. PICK i \in shown : r = rec(i) BY <1>3
    <2> QED BY <1>4, <1>7, <1>8, <2>1, <2>2
  <1> QED BY <1>6, <1>9 DEF MirrorSays, z, d, records

\* mirror_tombstones(): every topic of the device, and no other, says bad.
LEMMA TombstonesAre ==
    ASSUME NEW d \in Devices, NEW t
    PROVE  LET z == Retained(mirror_tombstones(Node, d, t))
           IN  /\ \A k \in DOMAIN z : \E n \in NamesOf(d) : k = <<d, n>>
               /\ \A n \in NamesOf(d) : /\ <<d, n>> \in DOMAIN z
                                        /\ z[<<d, n>>] = [value |-> Null, quality |-> "bad"]
  <1> DEFINE records == mirror_tombstones(Node, d, t)
             rec(spec) == [key |-> <<d, spec.name>>, value |-> Null, quality |-> "bad",
                           ts |-> Now(Node, t), seq |-> Absent]
             z == Retained(records)
  <1>1. records = {rec(spec) : spec \in SpecsOf(Node, d)} BY Fixture DEF mirror_tombstones
  <1>2. \A spec \in SpecsOf(Node, d) :
           rec(spec).key = <<d, spec.name>> /\ rec(spec).value = Null /\ rec(spec).quality = "bad"
    OBVIOUS
  <1>3. /\ \A r \in records : r.key \in DOMAIN z
        /\ \A k \in DOMAIN z : \E r \in records :
              r.key = k /\ z[k] = [value |-> r.value, quality |-> r.quality]
    BY RetainedIs
  <1> HIDE DEF records, rec, z
  <1>4. ASSUME NEW k \in DOMAIN z
        PROVE  /\ \E n \in NamesOf(d) : k = <<d, n>>
               /\ z[k] = [value |-> Null, quality |-> "bad"]
    <2>1. PICK r \in records : r.key = k /\ z[k] = [value |-> r.value, quality |-> r.quality]
      BY <1>3
    <2>2. PICK spec \in SpecsOf(Node, d) : r = rec(spec) BY <1>1
    <2>3. spec.name \in NamesOf(d) BY DEF NamesOf
    <2> QED BY <1>2, <2>1, <2>2, <2>3
  <1>5. \A n \in NamesOf(d) : <<d, n>> \in DOMAIN z BY <1>1, <1>2, <1>3 DEF NamesOf
  <1> QED BY <1>4, <1>5 DEF z, records

\* What a message of each type makes of the subscriber h.
Observed(h, m, g) ==
    /\ DOMAIN g = HostFields
    /\ m.type = "NBIRTH" =>
          /\ g.alive = TRUE /\ g.bdseq = BdSeqIn(m) /\ g.born = {} /\ g.lost = {}
          /\ g.next = (m.seq + 1) % SEQUENCE_MODULUS
          /\ g.book = Entries(m) /\ g.read = Readings(Entries(m), m)
    /\ m.type = "NDEATH" /\ BdSeqIn(m) # h.bdseq => g = h
    /\ m.type = "NDEATH" /\ BdSeqIn(m) = h.bdseq =>
          /\ g.alive = FALSE /\ g.bdseq = h.bdseq /\ g.born = {} /\ g.lost = {}
          /\ g.next = 0 /\ g.book = Nothing /\ g.read = Nothing
    /\ m.type \notin {"NBIRTH", "NDEATH"} =>
          /\ g.alive = h.alive /\ g.bdseq = h.bdseq
          /\ g.next = (m.seq + 1) % SEQUENCE_MODULUS
          /\ g.born = (IF m.type = "DBIRTH" THEN h.born \cup {m.device}
                       ELSE IF m.type = "DDEATH" THEN h.born \ {m.device} ELSE h.born)
          /\ g.lost = (IF m.type = "DDEATH" THEN h.lost \cup {m.device} ELSE h.lost \ {m.device})
          /\ g.book = (IF m.type = "DBIRTH" THEN Over(Entries(m), h.book) ELSE h.book)
          /\ g.read = Over(Readings(g.book, m), h.read)

\* Observe, field by field.
LEMMA ObserveIs ==
    ASSUME NEW h, DOMAIN h = HostFields, NEW m
    PROVE  Observed(h, m, Observe(h, m))
  <1> DEFINE bk == IF m.type = "NBIRTH" THEN Entries(m)
                   ELSE IF m.type = "DBIRTH" THEN Over(Entries(m), h.book) ELSE h.book
             bs == IF m.type = "DBIRTH" THEN h.born \cup {m.device}
                   ELSE IF m.type = "DDEATH" THEN h.born \ {m.device} ELSE h.born
             ls == IF m.type = "DDEATH" THEN h.lost \cup {m.device} ELSE h.lost \ {m.device}
             nx == (m.seq + 1) % SEQUENCE_MODULUS
             rd == Over(Readings(bk, m), h.read)
             after == [alive |-> h.alive, bdseq |-> h.bdseq, next |-> nx, born |-> bs,
                       lost |-> ls, book |-> bk, read |-> rd]
             g == Observe(h, m)
  <1>1. /\ m.type = "NBIRTH" =>
              g = [after EXCEPT !.alive = TRUE, !.bdseq = BdSeqIn(m), !.born = {}, !.lost = {},
                                !.read = Readings(bk, m)]
        /\ m.type = "NDEATH" /\ BdSeqIn(m) # h.bdseq => g = h
        /\ m.type = "NDEATH" /\ BdSeqIn(m) = h.bdseq =>
              g = [h EXCEPT !.alive = FALSE, !.born = {}, !.lost = {}, !.next = 0,
                            !.book = Nothing, !.read = Nothing]
        /\ m.type \notin {"NBIRTH", "NDEATH"} => g = after
    BY DEF Observe
  <1>2. m.type = "NBIRTH" => bk = Entries(m) OBVIOUS
  <1>3. m.type # "NBIRTH" => bk = IF m.type = "DBIRTH" THEN Over(Entries(m), h.book) ELSE h.book
    OBVIOUS
  <1> HIDE DEF bk, bs, ls, nx, rd, g
  <1>4. CASE m.type = "NBIRTH"
    <2>1. DOMAIN g = HostFields BY <1>1, <1>4 DEF HostFields
    <2>2. /\ g.alive = TRUE /\ g.bdseq = BdSeqIn(m) /\ g.born = {} /\ g.lost = {}
          /\ g.next = nx /\ g.book = bk /\ g.read = Readings(bk, m)
      BY <1>1, <1>4
    <2> QED BY <1>2, <1>4, <2>1, <2>2 DEF Observed, nx, g
  <1>5. CASE m.type = "NDEATH" /\ BdSeqIn(m) = h.bdseq
    <2> DEFINE gg == [h EXCEPT !.alive = FALSE, !.born = {}, !.lost = {}, !.next = 0,
                              !.book = Nothing, !.read = Nothing]
    <2>1. /\ DOMAIN gg = HostFields /\ gg.alive = FALSE /\ gg.bdseq = h.bdseq /\ gg.born = {}
          /\ gg.lost = {} /\ gg.next = 0 /\ gg.book = Nothing /\ gg.read = Nothing
      BY DEF HostFields
    <2>2. g = gg BY <1>1, <1>5
    <2> HIDE DEF gg
    <2> QED BY <1>5, <2>1, <2>2 DEF Observed, g
  <1>6. CASE m.type = "NDEATH" /\ BdSeqIn(m) # h.bdseq
    <2>1. g = h BY <1>1, <1>6
    <2> QED BY <1>6, <2>1 DEF Observed, g
  <1>7. CASE m.type \notin {"NBIRTH", "NDEATH"}
    <2>1. DOMAIN g = HostFields BY <1>1, <1>7 DEF HostFields
    <2>2. /\ g.alive = h.alive /\ g.bdseq = h.bdseq /\ g.next = nx /\ g.born = bs
          /\ g.lost = ls /\ g.book = bk /\ g.read = rd
      BY <1>1, <1>7
    <2> QED BY <1>3, <1>7, <2>1, <2>2 DEF Observed, nx, bs, ls, rd, g
  <1> QED BY <1>4, <1>5, <1>6, <1>7

\* What the subscriber h has in its book: the metrics of every owner it holds for
\* born.
HostInv(h) ==
    /\ DOMAIN h = HostFields
    /\ h.born \in SUBSET Devices /\ h.lost \in SUBSET Devices
    /\ BookOK(h.book)
    /\ h.alive => \A n \in NamesOf(NodeItself) :
          n # REBIRTH_METRIC => AliasAt[<<NodeItself, n>>] \in DOMAIN h.book
    /\ \A d \in h.born : \A n \in NamesOf(d) : AliasAt[<<d, n>>] \in DOMAIN h.book

\* The book stays that way, whatever arrives.
LEMMA ObserveKeeps ==
    ASSUME NEW h, HostInv(h), NEW b, NEW m, Shape(m, b)
    PROVE  HostInv(Observe(h, m))
  <1> DEFINE g == Observe(h, m)
  <1>1. Observed(h, m, g) BY ObserveIs DEF HostInv
  <1>2. DOMAIN g = HostFields BY <1>1 DEF Observed
  <1> HIDE DEF g
  <1>3. CASE m.type = "NBIRTH"
    <2>1. PICK names : Declares(m, names) BY <1>3 DEF Shape, BirthKinds
    <2>2. m.device = NodeItself BY <1>3 DEF Shape
    <2>3. NodeItself \in Owners BY DEF Owners
    <2>4. g.born = {} /\ g.lost = {} /\ g.book = Entries(m) BY <1>1, <1>3 DEF Observed
    <2>5. \A n \in NamesOf(NodeItself) :
             n # REBIRTH_METRIC => AliasAt[<<NodeItself, n>>] \in DOMAIN g.book
      <3>1. \A n \in NamesOf(NodeItself) : n # REBIRTH_METRIC => Carried(NodeItself, n) # Absent
        BY <2>3, CarriedIs
      <3>2. \A n \in NamesOf(NodeItself) :
               Carried(NodeItself, n) # Absent => AliasAt[<<NodeItself, n>>] \in DOMAIN Entries(m)
        BY <2>1, <2>2, EntriesAre
      <3> QED BY <2>4, <3>1, <3>2
    <2>6. BookOK(g.book) BY <2>1, <2>4, EntriesAre
    <2> QED BY <1>2, <2>4, <2>5, <2>6 DEF HostInv, g
  <1>4. CASE m.type = "DBIRTH"
    <2>1. PICK names : Declares(m, names) BY <1>4 DEF Shape, BirthKinds
    <2>2. m.device \in Devices BY <1>4 DEF Shape
    <2>3. /\ g.alive = h.alive /\ g.born = h.born \cup {m.device} /\ g.lost = h.lost \ {m.device}
          /\ g.book = Over(Entries(m), h.book)
      BY <1>1, <1>4 DEF Observed
    <2>4. BookOK(Entries(m)) BY <2>1, EntriesAre
    <2>5. BookOK(h.book) BY DEF HostInv
    <2>6. BookOK(g.book) BY <2>3, <2>4, <2>5, BooksOver
    <2>7. DOMAIN g.book = DOMAIN Entries(m) \cup DOMAIN h.book
      <3>1. DOMAIN Over(Entries(m), h.book) = DOMAIN Entries(m) \cup DOMAIN h.book BY OverIs
      <3> QED BY <2>3, <3>1
    <2>8. \A n \in NamesOf(m.device) : AliasAt[<<m.device, n>>] \in DOMAIN g.book
      <3>1. m.device \in Owners /\ m.device # NodeItself BY <2>2, Fixture DEF Owners
      <3>2. \A n \in NamesOf(m.device) : Carried(m.device, n) # Absent BY <3>1, CarriedIs
      <3> QED BY <2>1, <2>7, <3>2, EntriesAre
    <2>9. \A d \in g.born : \A n \in NamesOf(d) : AliasAt[<<d, n>>] \in DOMAIN g.book
      BY <2>3, <2>7, <2>8 DEF HostInv
    <2>10. g.alive => \A n \in NamesOf(NodeItself) :
              n # REBIRTH_METRIC => AliasAt[<<NodeItself, n>>] \in DOMAIN g.book
      BY <2>3, <2>7 DEF HostInv
    <2>11. g.born \in SUBSET Devices /\ g.lost \in SUBSET Devices BY <2>2, <2>3 DEF HostInv
    <2> QED BY <1>2, <2>6, <2>9, <2>10, <2>11 DEF HostInv, g
  <1>5. CASE m.type \in {"NDATA", "DDATA", "DDEATH"}
    <2>1. g.alive = h.alive /\ g.book = h.book /\ g.born \subseteq h.born
      BY <1>1, <1>5 DEF Observed
    <2>2. g.lost \in SUBSET Devices BY <1>1, <1>5 DEF Observed, Shape, HostInv
    <2> QED BY <1>2, <2>1, <2>2 DEF HostInv, g
  <1>6. CASE m.type = "NDEATH" /\ BdSeqIn(m) = h.bdseq
    <2>1. g.alive = FALSE /\ g.born = {} /\ g.lost = {} /\ g.book = Nothing
      BY <1>1, <1>6 DEF Observed
    <2>2. DOMAIN Nothing = {} BY DEF Nothing
    <2>3. BookOK(g.book) BY <2>1, <2>2 DEF BookOK
    <2> QED BY <1>2, <2>1, <2>3 DEF HostInv, g
  <1>7. CASE m.type = "NDEATH" /\ BdSeqIn(m) # h.bdseq
    <2>1. g = h BY <1>1, <1>7 DEF Observed
    <2> QED BY <2>1 DEF g
  <1> QED BY <1>3, <1>4, <1>5, <1>6, <1>7 DEF Shape

\* The mirror z agrees with what the subscriber h read of the devices it holds for
\* born, and says bad for those whose death was announced.
MirrorShows(h, z) ==
    /\ \A d \in h.born : \A n \in NamesOf(d) :
          /\ <<d, n>> \in DOMAIN h.read /\ <<d, n>> \in DOMAIN z
          /\ z[<<d, n>>].value = h.read[<<d, n>>]
    /\ \A d \in h.lost : \A n \in NamesOf(d) :
          <<d, n>> \in DOMAIN z /\ z[<<d, n>>] = [value |-> Null, quality |-> "bad"]

\* What a message of device d brings to the readings, f, and to the mirror, r, is
\* of that device only.
Within(d, f, r) == \A k \in DOMAIN f \cup DOMAIN r : k[1] = d

\* It brings the same values to both.
Agreeing(d, f, r) ==
    /\ \A n \in NamesOf(d) : <<d, n>> \in DOMAIN f <=> <<d, n>> \in DOMAIN r
    /\ \A n \in NamesOf(d) : <<d, n>> \in DOMAIN r => r[<<d, n>>].value = f[<<d, n>>]

\* Both read the same metrics, each through its own table of aliases.
LEMMA BothAgree ==
    ASSUME NEW m, m.device \in Devices, NEW names, Keyed(m, names), NEW book, BookOK(book),
           \A n \in NamesOf(m.device) : AliasAt[<<m.device, n>>] \in DOMAIN book
    PROVE  /\ Agreeing(m.device, Readings(book, m), Retained(mirror_records(Node, m)))
           /\ Within(m.device, Readings(book, m), Retained(mirror_records(Node, m)))
           /\ \A i \in DOMAIN names : <<m.device, names[i]>> \in DOMAIN Readings(book, m)
  <1> DEFINE d == m.device
             f == Readings(book, m)
             r == Retained(mirror_records(Node, m))
  <1>1. d \in Owners /\ d # NodeItself BY Fixture DEF Owners
  <1>2. /\ \A i \in DOMAIN names : names[i] \in NamesOf(d)
        /\ \A i, j \in DOMAIN names : names[i] = names[j] => i = j
    BY DEF Keyed
  <1>3. \A i \in DOMAIN names : Carried(d, names[i]) # Absent BY <1>1, <1>2, CarriedIs
  <1>4. /\ \A k \in DOMAIN f : \E i \in DOMAIN names : k = <<d, names[i]>> /\ f[k] = m.metrics[i].value
        /\ \A i \in DOMAIN names : <<d, names[i]>> \in DOMAIN f
    <2>1. ReadingsSay(m, names, book) BY ReadingsAre
    <2> QED BY <1>2, <1>3, <2>1 DEF ReadingsSay
  <1>5. /\ \A k \in DOMAIN r : \E i \in DOMAIN names :
              k = <<d, names[i]>> /\ r[k] = [value |-> m.metrics[i].value, quality |-> "good"]
        /\ \A i \in DOMAIN names : <<d, names[i]>> \in DOMAIN r
    <2>1. MirrorSays(m, names) BY MirrorIs
    <2> QED BY <2>1 DEF MirrorSays
  <1> HIDE DEF f, r, d
  <1>6. Within(d, f, r) BY <1>4, <1>5 DEF Within
  <1>7. \A n \in NamesOf(d) : <<d, n>> \in DOMAIN f <=> <<d, n>> \in DOMAIN r
    <2>1. \A k \in DOMAIN f : k \in DOMAIN r BY <1>4, <1>5
    <2>2. \A k \in DOMAIN r : k \in DOMAIN f BY <1>4, <1>5
    <2> QED BY <2>1, <2>2
  <1>8. ASSUME NEW n \in NamesOf(d), <<d, n>> \in DOMAIN r
        PROVE  r[<<d, n>>].value = f[<<d, n>>]
    <2>1. PICK i \in DOMAIN names : /\ <<d, n>> = <<d, names[i]>>
                                    /\ r[<<d, n>>] = [value |-> m.metrics[i].value, quality |-> "good"]
      BY <1>5, <1>8
    <2>2. <<d, n>> \in DOMAIN f BY <1>7, <1>8
    <2>3. PICK j \in DOMAIN names : <<d, n>> = <<d, names[j]>> /\ f[<<d, n>>] = m.metrics[j].value
      BY <1>4, <2>2
    <2>4. names[i] = n /\ names[j] = n BY <2>1, <2>3
    <2>5. i = j BY <1>2, <2>4
    <2> QED BY <2>1, <2>3, <2>5
  <1>9. Agreeing(d, f, r) BY <1>7, <1>8 DEF Agreeing
  <1> QED BY <1>4, <1>6, <1>9 DEF d, f, r

\* A message of device d leaves readings and mirror in agreement: the other devices
\* are as they were, a born device is told to both, and of a birth all metrics are;
\* a dead device is marked bad throughout.
LEMMA AgreeingKeeps ==
    ASSUME NEW h, NEW z, MirrorShows(h, z), NEW d, NEW f, NEW r, Within(d, f, r),
           NEW g, g.read = Over(f, h.read),
           g.born \subseteq h.born \cup {d}, g.lost \subseteq h.lost \cup {d},
           d \in g.born => Agreeing(d, f, r),
           d \in g.born \ h.born => \A n \in NamesOf(d) : <<d, n>> \in DOMAIN f,
           d \in g.lost => \A n \in NamesOf(d) :
              <<d, n>> \in DOMAIN r /\ r[<<d, n>>] = [value |-> Null, quality |-> "bad"]
    PROVE  MirrorShows(g, Over(r, z))
  <1> DEFINE y == Over(r, z)
  <1>1. /\ DOMAIN y = DOMAIN r \cup DOMAIN z
        /\ \A x \in DOMAIN r : y[x] = r[x]
        /\ \A x \in DOMAIN z : x \notin DOMAIN r => y[x] = z[x]
    BY OverIs, ZenonT(60)
  <1>2. /\ DOMAIN g.read = DOMAIN f \cup DOMAIN h.read
        /\ \A x \in DOMAIN f : g.read[x] = f[x]
        /\ \A x \in DOMAIN h.read : x \notin DOMAIN f => g.read[x] = h.read[x]
    <2>1. /\ DOMAIN Over(f, h.read) = DOMAIN f \cup DOMAIN h.read
          /\ \A x \in DOMAIN f : Over(f, h.read)[x] = f[x]
          /\ \A x \in DOMAIN h.read : x \notin DOMAIN f => Over(f, h.read)[x] = h.read[x]
      BY OverIs, ZenonT(60)
    <2> QED BY <2>1
  <1> HIDE DEF y
  <1>3. \A e : e # d => \A n : <<e, n>> \notin DOMAIN f /\ <<e, n>> \notin DOMAIN r
    <2> SUFFICES ASSUME NEW e, e # d, NEW n PROVE <<e, n>> \notin DOMAIN f /\ <<e, n>> \notin DOMAIN r
      OBVIOUS
    <2>1. <<e, n>>[1] # d OBVIOUS
    <2> QED BY <2>1 DEF Within
  <1>4. ASSUME NEW e \in g.born, NEW n \in NamesOf(e)
        PROVE  /\ <<e, n>> \in DOMAIN g.read /\ <<e, n>> \in DOMAIN y
               /\ y[<<e, n>>].value = g.read[<<e, n>>]
    <2>1. CASE e # d
      <3>1. e \in h.born BY <2>1
      <3>2. <<e, n>> \notin DOMAIN f /\ <<e, n>> \notin DOMAIN r BY <1>3, <2>1
      <3>3. /\ <<e, n>> \in DOMAIN h.read /\ <<e, n>> \in DOMAIN z
            /\ z[<<e, n>>].value = h.read[<<e, n>>]
        BY <3>1 DEF MirrorShows
      <3> QED BY <1>1, <1>2, <3>2, <3>3
    <2>2. CASE e = d /\ <<e, n>> \in DOMAIN f
      <3>1. <<e, n>> \in DOMAIN r /\ r[<<e, n>>].value = f[<<e, n>>] BY <2>2 DEF Agreeing
      <3> QED BY <1>1, <1>2, <2>2, <3>1
    <2>3. CASE e = d /\ <<e, n>> \notin DOMAIN f
      <3>1. <<e, n>> \notin DOMAIN r BY <2>3 DEF Agreeing
      <3>2. e \in h.born BY <2>3
      <3>3. /\ <<e, n>> \in DOMAIN h.read /\ <<e, n>> \in DOMAIN z
            /\ z[<<e, n>>].value = h.read[<<e, n>>]
        BY <3>2 DEF MirrorShows
      <3> QED BY <1>1, <1>2, <2>3, <3>1, <3>3
    <2> QED BY <2>1, <2>2, <2>3
  <1>5. ASSUME NEW e \in g.lost, NEW n \in NamesOf(e)
        PROVE  <<e, n>> \in DOMAIN y /\ y[<<e, n>>] = [value |-> Null, quality |-> "bad"]
    <2>1. CASE e # d
      <3>1. <<e, n>> \notin DOMAIN r BY <1>3, <2>1
      <3>2. <<e, n>> \in DOMAIN z /\ z[<<e, n>>] = [value |-> Null, quality |-> "bad"]
        BY <2>1 DEF MirrorShows
      <3> QED BY <1>1, <3>1, <3>2
    <2>2. CASE e = d BY <1>1, <2>2
    <2> QED BY <2>1, <2>2
  <1> QED BY <1>4, <1>5 DEF MirrorShows, y

\* Retain: the mirror after message m goes on agreeing with what m was read as.
LEMMA MirrorKeeps ==
    ASSUME NEW h, HostInv(h), NEW z, MirrorShows(h, z), NEW b, NEW m, Shape(m, b)
    PROVE  MirrorShows(Observe(h, m), Over(Retained(MirrorOf(m)), z))
  <1> DEFINE g == Observe(h, m)
             d == m.device
             f == Readings(g.book, m)
             r == Retained(MirrorOf(m))
  <1>1. Observed(h, m, g) BY ObserveIs DEF HostInv
  <1>2. HostInv(g) BY ObserveKeeps
  <1>3. m.type # "DDEATH" => r = Retained(mirror_records(Node, m)) BY DEF MirrorOf
  <1>4. m.type = "DDEATH" => r = Retained(mirror_tombstones(Node, d, ticks)) BY DEF MirrorOf
  <1>5. d \in Devices => d # NodeItself BY Fixture
  <1> HIDE DEF r, g
  <1>6. ASSUME g.born = {}, g.lost = {} PROVE MirrorShows(g, Over(r, z))
    BY <1>6 DEF MirrorShows
  <1>7. CASE m.type = "NBIRTH"
    <2>1. g.born = {} /\ g.lost = {} BY <1>1, <1>7 DEF Observed
    <2> QED BY <1>6, <2>1 DEF g, r
  <1>8. CASE m.type = "NDEATH" /\ BdSeqIn(m) = h.bdseq
    <2>1. g.born = {} /\ g.lost = {} BY <1>1, <1>8 DEF Observed
    <2> QED BY <1>6, <2>1 DEF g, r
  <1>9. CASE m.type = "NDEATH" /\ BdSeqIn(m) # h.bdseq
    <2>1. g = h BY <1>1, <1>9 DEF Observed
    <2>2. PICK names : Keyed(m, names) BY <1>9 DEF Shape, Told, BirthKinds
    <2>3. MirrorSays(m, names) BY <2>2, MirrorIs
    <2>4. d \notin Devices BY <1>5, <1>9 DEF Shape
    <2>5. DOMAIN r = {} BY <1>3, <1>9, <2>3, <2>4 DEF MirrorSays
    <2>6. /\ DOMAIN Over(r, z) = DOMAIN r \cup DOMAIN z
          /\ \A x \in DOMAIN z : x \notin DOMAIN r => Over(r, z)[x] = z[x]
      BY OverIs
    <2>7. MirrorShows(h, Over(r, z)) BY <2>5, <2>6 DEF MirrorShows
    <2> QED BY <2>1, <2>7 DEF g, r
  <1>10. CASE m.type = "DBIRTH"
    <2>1. /\ g.born = h.born \cup {d} /\ g.lost = h.lost \ {d} /\ g.read = Over(f, h.read)
      BY <1>1, <1>10 DEF Observed
    <2>2. d \in Devices BY <1>10 DEF Shape
    <2>3. PICK names : Declares(m, names) BY <1>10 DEF Shape, BirthKinds
    <2>4. Keyed(m, names) /\ \A n \in NamesOf(d) : \E i \in DOMAIN names : names[i] = n
      BY <2>3 DEF Declares
    <2>5. BookOK(g.book) /\ \A n \in NamesOf(d) : AliasAt[<<d, n>>] \in DOMAIN g.book
      BY <1>2, <2>1 DEF HostInv
    <2>6. /\ Agreeing(d, f, r) /\ Within(d, f, r)
          /\ \A i \in DOMAIN names : <<d, names[i]>> \in DOMAIN f
      BY <1>3, <1>10, <2>2, <2>4, <2>5, BothAgree
    <2>7. \A n \in NamesOf(d) : <<d, n>> \in DOMAIN f BY <2>4, <2>6
    <2> HIDE DEF f, d
    <2>8. MirrorShows(g, Over(r, z)) BY <2>1, <2>6, <2>7, AgreeingKeeps
    <2> QED BY <2>8 DEF g, r
  <1>11. CASE m.type \in DataKinds
    <2>1. /\ g.born = h.born /\ g.lost = h.lost \ {d} /\ g.read = Over(f, h.read)
          /\ g.book = h.book
      BY <1>1, <1>11 DEF Observed, DataKinds
    <2>2. PICK names : Keyed(m, names) BY <1>11 DEF Shape, Told, BirthKinds, DataKinds
    <2>3. BookOK(g.book) BY <1>2 DEF HostInv
    <2>4. Within(d, f, r)
      <3>1. MirrorSays(m, names) BY <2>2, MirrorIs
      <3>2. ReadingsSay(m, names, g.book) BY <2>2, <2>3, ReadingsAre
      <3>3. \A k \in DOMAIN r : k[1] = d BY <1>3, <1>11, <3>1 DEF MirrorSays, DataKinds
      <3>4. \A k \in DOMAIN f : k[1] = d BY <3>2 DEF ReadingsSay
      <3> QED BY <3>3, <3>4 DEF Within
    <2>5. ASSUME d \in g.born PROVE Agreeing(d, f, r)
      <3>1. d \in Devices /\ \A n \in NamesOf(d) : AliasAt[<<d, n>>] \in DOMAIN g.book
        BY <1>2, <2>5 DEF HostInv
      <3> QED BY <1>3, <1>11, <2>2, <2>3, <3>1, BothAgree DEF DataKinds
    <2> HIDE DEF f, d
    <2>6. MirrorShows(g, Over(r, z)) BY <2>1, <2>4, <2>5, AgreeingKeeps
    <2> QED BY <2>6 DEF g, r
  <1>12. CASE m.type = "DDEATH"
    <2>1. /\ g.born = h.born \ {d} /\ g.lost = h.lost \cup {d} /\ g.read = Over(f, h.read)
      BY <1>1, <1>12 DEF Observed
    <2>2. d \in Devices /\ m.metrics = <<>> BY <1>12 DEF Shape
    <2>3. DOMAIN f = {} BY <2>2 DEF Readings
    <2>4. /\ \A k \in DOMAIN r : \E n \in NamesOf(d) : k = <<d, n>>
          /\ \A n \in NamesOf(d) :
                <<d, n>> \in DOMAIN r /\ r[<<d, n>>] = [value |-> Null, quality |-> "bad"]
      BY <1>4, <1>12, <2>2, TombstonesAre
    <2>5. Within(d, f, r) BY <2>3, <2>4 DEF Within
    <2> HIDE DEF f, d
    <2>6. MirrorShows(g, Over(r, z)) BY <2>1, <2>4, <2>5, AgreeingKeeps
    <2> QED BY <2>6 DEF g, r
  <1> QED BY <1>7, <1>8, <1>9, <1>10, <1>11, <1>12 DEF Shape, DataKinds

-----------------------------------------------------------------------------
(* The messages that are on their way.                                     *)

\* The sequence q: a first, then the n of f.
PutFirst(S, a, n, f, q) ==
    q \in Seq(S) /\ Len(q) = n + 1 /\ q[1] = a /\ \A i \in 1..n : q[i + 1] = f[i]

\* Concatenation puts it there.
LEMMA FirstThen ==
    ASSUME NEW S, NEW a \in S, NEW n \in Nat, NEW f \in [1..n -> S], NEW q, q = <<a>> \o f
    PROVE  PutFirst(S, a, n, f, q)
  <1>1. <<a>> \in Seq(S) /\ f \in Seq(S) /\ Len(f) = n /\ Len(<<a>>) = 1 OBVIOUS
  <1> QED BY <1>1 DEF PutFirst

\* The message of a rebirth at each place, with the number it carries.
RebirthAre(q, x, t) ==
    /\ q \in Seq(Sent(x.bdseq, t)) /\ Len(q) = 3 /\ DOMAIN q = 1..3
    /\ q[1].type = "NBIRTH" /\ q[1].device = NodeItself /\ q[1].seq = 0
    /\ \A d \in Devices : q[d + 1].type = "DBIRTH" /\ q[d + 1].device = d
                          /\ q[d + 1].seq = d % SEQUENCE_MODULUS

\* rebirth() hands back the births of the node and of each device, numbered from
\* zero, and no data.
LEMMA RebirthMessagesAre ==
    ASSUME NEW x \in SessionSet, NEW t
    PROVE  RebirthAre(RebirthMessages(Node, x, t), x, t)
  <1> DEFINE y == [x EXCEPT !.seq = 0, !.born = {}]
             S == Sent(x.bdseq, t)
             first == NodeBirthMessage(Node, y, t)
             f == [d \in 1..2 |-> DeviceBirthMessage(Node, RebirthSession(Node, x)[d - 1], d, t)]
             q == RebirthMessages(Node, x, t)
  <1>1. Cardinality(DOMAIN Node.devices) = 2 BY Fixture DEF Devices
  <1>2. q = <<first>> \o f BY <1>1 DEF RebirthMessages
  <1>3. y.seq = 0 /\ y.bdseq = x.bdseq /\ y.seq \in Counts
    BY Wraps DEF SessionSet
  <1> HIDE DEF y
  <1>4. first \in S /\ first.type = "NBIRTH" /\ first.device = NodeItself /\ first.seq = 0
    <2>1. first \in Sent(y.bdseq, t) BY <1>3, HandsBack
    <2>2. first.type = "NBIRTH" /\ first.device = NodeItself /\ first.seq = y.seq
      BY BirthCarriesBdSeq
    <2> QED BY <1>3, <2>1, <2>2
  <1>5. ASSUME NEW d \in 1..2
        PROVE  /\ f[d] \in S /\ f[d].type = "DBIRTH" /\ f[d].device = d
               /\ f[d].seq = d % SEQUENCE_MODULUS
    <2> DEFINE u == RebirthSession(Node, x)[d - 1]
    <2>1. d - 1 \in 0..2 /\ d - 1 + 1 = d /\ d \in Devices BY Fixture
    <2>2. BornUpTo(u, x, d - 1) BY <2>1, RebirthIs
    <2>3. u.bdseq = x.bdseq /\ u.seq = d % SEQUENCE_MODULUS /\ u.seq \in Counts
      BY <2>1, <2>2 DEF BornUpTo, IsSession, SessionSet
    <2> DEFINE m == DeviceBirthMessage(Node, u, d, t)
    <2>4. f[d] = m OBVIOUS
    <2> HIDE DEF u, f
    <2>5. m \in Sent(u.bdseq, t) BY <2>1, <2>3, HandsBack
    <2>6. m.type = "DBIRTH" /\ m.device = d /\ m.seq = u.seq
      <3>1. DeviceBirthIs(m, d, u.seq, t) BY <2>1, DeviceBirthDeclares
      <3> HIDE DEF m
      <3> QED BY <3>1 DEF DeviceBirthIs
    <2> HIDE DEF m
    <2> QED BY <2>3, <2>4, <2>5, <2>6
  <1>6. f \in [1..2 -> S]
    <2>1. DOMAIN f = 1..2 /\ f = [d \in 1..2 |-> f[d]] OBVIOUS
    <2> HIDE DEF f, S
    <2> QED BY <1>5, <2>1
  <1> HIDE DEF f, S, first, q
  <1>7. /\ q \in Seq(S) /\ Len(q) = 2 + 1 /\ q[1] = first /\ \A d \in 1..2 : q[d + 1] = f[d]
    <2>1. 2 \in Nat /\ first \in S BY <1>4
    <2>2. PutFirst(S, first, 2, f, q) BY <1>2, <1>6, <2>1, FirstThen
    <2> QED BY <2>2 DEF PutFirst
  <1>8. DOMAIN q = 1..3 BY <1>7
  <1>9. Devices = 1..2 BY Fixture
  <1> QED BY <1>4, <1>5, <1>7, <1>8, <1>9 DEF RebirthAre, q, S

\* The keys the metrics of a message stand for.
KeysOf(m) == {KeyOf(Node, m.metrics[i].alias) : i \in DOMAIN m.metrics}

\* Data comes alone, and its aliases stand for the keys the caller named.
MeantInv(q, keys) ==
    \A i \in DOMAIN q : q[i].type \in DataKinds => Len(q) = 1 /\ keys = KeysOf(q[i])

\* node_data() and device_data() leave no name out and add none.
LEMMA DataMeans ==
    ASSUME NEW x, NEW d \in Owners, NEW changed \in SUBSET NamesOf(d), NEW v, NEW t
    PROVE  KeysOf(DataMessage(Node, x, d, changed, v, t)) = {<<d, name>> : name \in changed}
  <1> DEFINE m == DataMessage(Node, x, d, changed, v, t)
             names == InByteOrder(changed)
  <1>1. /\ m.device = d /\ Told(m, names)
        /\ \A n \in changed : \E i \in DOMAIN names : names[i] = n
        /\ \A i \in DOMAIN names : names[i] \in changed
    <2>1. DataIs(m, d, names, changed, x.seq, t) BY DataIsKeyed
    <2> HIDE DEF m, names
    <2> QED BY <2>1 DEF DataIs
  <1> HIDE DEF m, names
  <1>2. DOMAIN m.metrics = DOMAIN names BY <1>1 DEF Told, Keyed
  <1>3. ASSUME NEW i \in DOMAIN names PROVE KeyOf(Node, m.metrics[i].alias) = <<d, names[i]>>
    <2>1. names[i] \in NamesOf(d) /\ m.metrics[i].alias = AliasAt[<<d, names[i]>>]
      BY <1>1 DEF Told, Keyed
    <2>2. <<d, names[i]>> \in AliasKeys(Node) BY <2>1, NodeAliases
    <2> QED BY <2>1, <2>2, NodeAliases
  <1>4. ASSUME NEW k \in KeysOf(m) PROVE k \in {<<d, name>> : name \in changed}
    <2>1. PICK i \in DOMAIN names : k = KeyOf(Node, m.metrics[i].alias) BY <1>2 DEF KeysOf
    <2> QED BY <1>1, <1>3, <2>1
  <1>5. ASSUME NEW n \in changed PROVE <<d, n>> \in KeysOf(m)
    <2>1. PICK i \in DOMAIN names : names[i] = n BY <1>1
    <2>2. KeyOf(Node, m.metrics[i].alias) = <<d, n>> BY <1>3, <2>1
    <2> QED BY <1>2, <2>2 DEF KeysOf
  <1>6. KeysOf(m) = {<<d, name>> : name \in changed} BY <1>4, <1>5
  <1> QED BY <1>6 DEF m

-----------------------------------------------------------------------------
(* The inductive invariant of the wire, for any caller.                    *)

\* The session's counters are in their ranges; what is on its way are messages of
\* the session as it counts now, at this instant; the bus holds no will or a death
\* of some count; and the subscriber's book and the mirror are right.
WireInv ==
    /\ s \in SessionSet /\ ticks \in 0..MaxTicks
    /\ s.connected \/ outbox # <<>> => s.bdseq \in Counts
    /\ outbox \in Seq(Sent(s.bdseq, ticks)) /\ MeantInv(outbox, meant)
    /\ will = NoWill \/ \E b \in Counts, t \in 0..MaxTicks : will \in NodeDeaths(b, t)
    /\ HostInv(host) /\ MirrorShows(host, mirror)

\* The death in a will is one of the session's messages, and names its count.
LEMMA WillIs ==
    ASSUME NEW b, NEW t, NEW w \in NodeDeaths(b, t)
    PROVE  w \in Sent(b, t) /\ w.type = "NDEATH" /\ BdSeqIn(w) = b /\ w # NoWill
  <1>1. PICK q \in Counts : w = DeathMessage(Node, At(q, b), t) BY DEF NodeDeaths
  <1>2. w.type = "NDEATH" /\ BdSeqIn(w) = b /\ w # <<>> BY <1>1, DeathCarriesBdSeq, AtFields
  <1> QED BY <1>2 DEF NoWill, Sent

\* A call that hands back messages of the session keeps the invariant.
LEMMA HandBackKeeps ==
    ASSUME WireInv, NEW messages, NEW keys, HandBack(messages, keys),
           s' \in SessionSet, s'.bdseq = s.bdseq, s.bdseq \in Counts,
           messages \in Seq(Sent(s.bdseq, ticks)), MeantInv(messages, keys)
    PROVE  WireInv'
  <1>1. /\ outbox' = messages /\ meant' = keys /\ ticks' = ticks /\ will' = will
        /\ host' = host /\ mirror' = mirror
    BY DEF HandBack
  <1>2. outbox' \in Seq(Sent(s'.bdseq, ticks')) /\ MeantInv(outbox', meant') BY <1>1
  <1>3. HostInv(host') /\ MirrorShows(host', mirror') BY <1>1 DEF WireInv
  <1>4. will' = NoWill \/ \E b \in Counts, t \in 0..MaxTicks : will' \in NodeDeaths(b, t)
    BY <1>1 DEF WireInv
  <1>5. ticks' \in 0..MaxTicks BY <1>1 DEF WireInv
  <1> QED BY <1>2, <1>3, <1>4, <1>5 DEF WireInv

\* One message that is not data.
LEMMA OneBack ==
    ASSUME NEW b, NEW t, NEW m \in Sent(b, t), m.type \notin DataKinds, NEW keys
    PROVE  <<m>> \in Seq(Sent(b, t)) /\ MeantInv(<<m>>, keys)
  BY DEF MeantInv

\* The methods that hand back one message of a birth or a death.
LEMMA OneKeeps ==
    ASSUME WireInv,
           \/ Disconnect \/ NodeBirth
           \/ \E d \in Devices : DeviceBirth(d) \/ DeviceDeath(d)
    PROVE  WireInv'
  <1> DEFINE b == s.bdseq
  <1>1. s \in SessionSet /\ s.seq \in Counts /\ ticks \in Int
    BY DEF WireInv, SessionSet
  <1>2. s.connected => b \in Counts BY DEF WireInv
  <1>3. CASE Disconnect
    <2> DEFINE m == DeathMessage(Node, s, ticks)
    <2>1. s.connected /\ s' = Disconnected(s) /\ HandBack(<<m>>, {}) BY <1>3 DEF Disconnect
    <2>2. m \in Sent(b, ticks) BY <1>1, HandsBack
    <2>3. m.type = "NDEATH" BY DeathCarriesBdSeq
    <2> HIDE DEF m
    <2>4. <<m>> \in Seq(Sent(b, ticks)) /\ MeantInv(<<m>>, {}) BY <2>2, <2>3, OneBack DEF DataKinds
    <2>5. s' \in SessionSet /\ s'.bdseq = b BY <1>1, <2>1, SessionMoves DEF IsSession
    <2> QED BY <1>2, <2>1, <2>4, <2>5, HandBackKeeps
  <1>4. CASE NodeBirth
    <2> DEFINE m == NodeBirthMessage(Node, s, ticks)
    <2>1. s.connected /\ s' = NodeBorn(s) /\ HandBack(<<m>>, {})
      BY <1>4 DEF NodeBirth, CanBirthNode
    <2>2. m \in Sent(b, ticks) BY <1>1, HandsBack
    <2>3. m.type = "NBIRTH" BY BirthCarriesBdSeq
    <2> HIDE DEF m
    <2>4. <<m>> \in Seq(Sent(b, ticks)) /\ MeantInv(<<m>>, {}) BY <2>2, <2>3, OneBack DEF DataKinds
    <2>5. s' \in SessionSet /\ s'.bdseq = b BY <1>1, <2>1, SessionMoves DEF IsSession
    <2> QED BY <1>2, <2>1, <2>4, <2>5, HandBackKeeps
  <1>5. ASSUME NEW d \in Devices, DeviceBirth(d) PROVE WireInv'
    <2> DEFINE m == DeviceBirthMessage(Node, s, d, ticks)
    <2>1. s.connected /\ s' = DeviceBorn(s, d) /\ HandBack(<<m>>, {})
      BY <1>5 DEF DeviceBirth, CanBirthDevice
    <2>2. m \in Sent(b, ticks) BY <1>1, HandsBack
    <2>3. m.type = "DBIRTH" BY DeviceBirthDeclares DEF DeviceBirthIs
    <2> HIDE DEF m
    <2>4. <<m>> \in Seq(Sent(b, ticks)) /\ MeantInv(<<m>>, {}) BY <2>2, <2>3, OneBack DEF DataKinds
    <2>5. s' \in SessionSet /\ s'.bdseq = b
      <3>1. IsSession(DeviceBorn(s, d), s.connected, b, (s.seq + 1) % SEQUENCE_MODULUS,
                      s.born \cup {d}, s.node_born)
        BY <1>1, SessionMoves
      <3> QED BY <2>1, <3>1 DEF IsSession
    <2> QED BY <1>2, <2>1, <2>4, <2>5, HandBackKeeps
  <1>6. ASSUME NEW d \in Devices, DeviceDeath(d) PROVE WireInv'
    <2> DEFINE m == DeviceDeathMessage(Node, s, d, ticks)
    <2>1. s.connected /\ s' = DeviceDied(s, d) /\ HandBack(<<m>>, {})
      BY <1>6 DEF DeviceDeath, CanKill
    <2>2. m \in Sent(b, ticks) BY <1>1, HandsBack
    <2>3. m.type = "DDEATH" BY DeviceDeathIsEmpty, ZenonT(60)
    <2> HIDE DEF m
    <2>4. <<m>> \in Seq(Sent(b, ticks)) /\ MeantInv(<<m>>, {}) BY <2>2, <2>3, OneBack DEF DataKinds
    <2>5. s' \in SessionSet /\ s'.bdseq = b
      <3>1. IsSession(DeviceDied(s, d), s.connected, b, (s.seq + 1) % SEQUENCE_MODULUS,
                      s.born \ {d}, s.node_born)
        BY <1>1, SessionMoves
      <3> QED BY <2>1, <3>1 DEF IsSession
    <2> QED BY <1>2, <2>1, <2>4, <2>5, HandBackKeeps
  <1> QED BY <1>3, <1>4, <1>5, <1>6

\* The names that a data call lets through.
LEMMA MayPublish ==
    ASSUME NEW d \in Owners, NEW changed, CanPublish(Node, s, d, changed)
    PROVE  changed \in SUBSET NamesOf(d) /\ s.connected
  <1>1. \A name \in changed : name \in NamesOf(d) BY FixtureKeys DEF CanPublish
  <1> QED BY <1>1 DEF CanPublish, AllBorn

\* Data, and the rebirth.
LEMMA ManyKeeps ==
    ASSUME WireInv,
           \/ \E d \in Owners, v \in Values : \E changed : PublishData(d, changed, v)
           \/ \E command : NodeCommand(command)
    PROVE  WireInv'
  <1> DEFINE b == s.bdseq
  <1>1. s \in SessionSet /\ s.seq \in Counts BY DEF WireInv, SessionSet
  <1>2. s.connected => b \in Counts BY DEF WireInv
  <1>3. ASSUME NEW d \in Owners, NEW v \in Values, NEW changed,
               PublishData(d, changed, v)
        PROVE  WireInv'
    <2> DEFINE m == DataMessage(Node, s, d, changed, v, ticks)
               keys == {<<d, name>> : name \in changed}
    <2>1. CanPublish(Node, s, d, changed) /\ s' = NextSeq(s) /\ HandBack(<<m>>, keys)
      BY <1>3 DEF PublishData
    <2>2. changed \in SUBSET NamesOf(d) /\ s.connected BY <1>3, <2>1, MayPublish
    <2>3. m \in Sent(b, ticks) BY <1>1, <2>2, HandsBack
    <2>4. keys = KeysOf(m) BY <2>2, DataMeans
    <2> HIDE DEF m, keys
    <2>5. <<m>> \in Seq(Sent(b, ticks)) /\ MeantInv(<<m>>, keys) BY <2>3, <2>4 DEF MeantInv
    <2>6. s' \in SessionSet /\ s'.bdseq = b BY <1>1, <2>1, SessionMoves DEF IsSession
    <2> QED BY <1>2, <2>1, <2>2, <2>5, <2>6, HandBackKeeps
  <1>4. ASSUME NEW command, NodeCommand(command) PROVE WireInv'
    <2> DEFINE q == RebirthMessages(Node, s, ticks)
    <2>1. s.connected /\ s' = Reborn(Node, s) /\ HandBack(q, {}) BY <1>4 DEF NodeCommand
    <2>2. RebirthAre(q, s, ticks) BY <1>1, RebirthMessagesAre
    <2> HIDE DEF q
    <2>3. q \in Seq(Sent(b, ticks)) BY <2>2 DEF RebirthAre
    <2>4. \A i \in DOMAIN q : q[i].type \in {"NBIRTH", "DBIRTH"}
      <3>1. \A i \in 1..3 : i = 1 \/ i - 1 \in Devices BY Fixture
      <3>2. \A i \in 1..3 : i = i - 1 + 1 OBVIOUS
      <3> QED BY <2>2, <3>1, <3>2 DEF RebirthAre
    <2>5. MeantInv(q, {}) BY <2>4 DEF MeantInv, DataKinds
    <2>6. s' \in SessionSet /\ s'.bdseq = b BY <1>1, <2>1, RebirthIs DEF BornUpTo, IsSession
    <2> QED BY <1>2, <2>1, <2>3, <2>5, <2>6, HandBackKeeps
  <1> QED BY <1>3, <1>4

\* A message of the outbox, and the rest.
LEMMA HeadOf ==
    ASSUME WireInv, outbox # <<>>
    PROVE  /\ Head(outbox) \in Sent(s.bdseq, ticks) /\ Shape(Head(outbox), s.bdseq)
           /\ Head(outbox) = outbox[1] /\ 1 \in DOMAIN outbox /\ s.bdseq \in Counts
           /\ Tail(outbox) \in Seq(Sent(s.bdseq, ticks)) /\ MeantInv(Tail(outbox), {})
  <1>1. outbox \in Seq(Sent(s.bdseq, ticks)) BY DEF WireInv
  <1>2. ASSUME NEW S, NEW q \in Seq(S), q # <<>>
        PROVE  /\ Head(q) \in S /\ Head(q) = q[1] /\ 1 \in DOMAIN q /\ Tail(q) \in Seq(S)
               /\ \A i \in DOMAIN Tail(q) : i \in Nat \ {0} /\ Tail(q)[i] = q[i + 1] /\ i + 1 \in DOMAIN q
               /\ Len(q) = 1 => DOMAIN q = {1}
    BY <1>2
  <1>3. /\ Head(outbox) \in Sent(s.bdseq, ticks) /\ Head(outbox) = outbox[1] /\ 1 \in DOMAIN outbox
        /\ Tail(outbox) \in Seq(Sent(s.bdseq, ticks))
    BY <1>1, <1>2
  <1>4. \A i \in DOMAIN Tail(outbox) :
           i \in Nat \ {0} /\ Tail(outbox)[i] = outbox[i + 1] /\ i + 1 \in DOMAIN outbox
    BY <1>1, <1>2
  <1>5. Len(outbox) = 1 => DOMAIN outbox = {1} BY <1>1, <1>2
  <1>6. ASSUME NEW i \in DOMAIN Tail(outbox) PROVE Tail(outbox)[i].type \notin DataKinds
    <2>1. i + 1 \in DOMAIN outbox /\ i + 1 # 1 /\ Tail(outbox)[i] = outbox[i + 1] BY <1>4
    <2>2. Len(outbox) # 1 BY <1>5, <2>1
    <2> QED BY <2>1, <2>2 DEF WireInv, MeantInv
  <1>7. MeantInv(Tail(outbox), {}) BY <1>6 DEF MeantInv
  <1>8. Shape(Head(outbox), s.bdseq) BY <1>3, SentShape
  <1> QED BY <1>3, <1>7, <1>8 DEF WireInv

\* connect(): the counter moves on, and the bus is given a death that says so.
LEMMA ConnectKeeps ==
    ASSUME WireInv, Connect
    PROVE  /\ WireInv' /\ outbox = <<>>
           /\ IsSession(s', TRUE, (s.bdseq + 1) % SEQUENCE_MODULUS, 0, {}, FALSE)
           /\ will = NoWill => will' \in NodeDeaths(s'.bdseq, ticks)
           /\ will # NoWill => will' = will
  <1>1. s \in SessionSet /\ ticks \in 0..MaxTicks BY DEF WireInv
  <1>2. /\ outbox = <<>> /\ s' = Connected(s) /\ ticks' = ticks /\ outbox' = outbox /\ meant' = meant
        /\ host' = host /\ mirror' = mirror
        /\ will' = IF will = NoWill THEN WillRegistration(Node, s', ticks).message ELSE will
    BY DEF Connect, Idle
  <1>3. IsSession(s', TRUE, (s.bdseq + 1) % SEQUENCE_MODULUS, 0, {}, FALSE)
    BY <1>1, <1>2, SessionMoves
  <1>4. s' \in SessionSet /\ s'.seq = 0 /\ s'.seq \in Counts BY <1>3, Wraps DEF IsSession
  <1>5. s'.bdseq \in Counts
    <2>1. (s.bdseq + 1) % SEQUENCE_MODULUS \in Counts
      BY <1>1, MessageAssumption DEF SessionSet, Counts
    <2> QED BY <1>3, <2>1 DEF IsSession
  <1>6. will = NoWill => will' \in NodeDeaths(s'.bdseq, ticks)
    <2>1. PICK x : x = s' OBVIOUS
    <2>2. WillRegistration(Node, x, ticks).message = DeathMessage(Node, x, ticks)
      BY DEF WillRegistration
    <2>3. DeathMessage(Node, x, ticks) = DeathMessage(Node, At(x.seq, x.bdseq), ticks)
      BY OnlyCounters
    <2>4. DeathMessage(Node, x, ticks) \in NodeDeaths(x.bdseq, ticks)
      BY <1>4, <2>1, <2>3 DEF NodeDeaths
    <2> QED BY <1>2, <2>1, <2>2, <2>4
  <1>7. outbox' \in Seq(Sent(s'.bdseq, ticks')) /\ MeantInv(outbox', meant')
    BY <1>2 DEF MeantInv
  <1>8. will' = NoWill \/ \E b \in Counts, t \in 0..MaxTicks : will' \in NodeDeaths(b, t)
    BY <1>1, <1>2, <1>5, <1>6 DEF WireInv
  <1>9. HostInv(host') /\ MirrorShows(host', mirror') BY <1>2 DEF WireInv
  <1>10. ticks' \in 0..MaxTicks BY <1>1, <1>2
  <1>11. WireInv' BY <1>4, <1>5, <1>7, <1>8, <1>9, <1>10 DEF WireInv
  <1> QED BY <1>2, <1>3, <1>6, <1>11

\* The transport and the clock.
LEMMA TransportKeeps ==
    ASSUME WireInv, Publish \/ Drop \/ Tick
    PROVE  WireInv'
  <1>1. CASE Publish
    <2> DEFINE m == Head(outbox)
    <2>1. outbox # <<>> /\ s' = s /\ ticks' = ticks /\ meant' = {} BY <1>1 DEF Publish, Idle
    <2>2. /\ Shape(m, s.bdseq) /\ s.bdseq \in Counts
          /\ Tail(outbox) \in Seq(Sent(s.bdseq, ticks)) /\ MeantInv(Tail(outbox), {})
      BY <2>1, HeadOf
    <2>3. CASE will = NoWill
      <3>1. outbox' = <<>> /\ will' = will /\ host' = host /\ mirror' = mirror
        BY <1>1, <2>3 DEF Publish
      <3>2. outbox' \in Seq(Sent(s'.bdseq, ticks')) /\ MeantInv(outbox', meant')
        BY <3>1 DEF MeantInv
      <3>3. HostInv(host') /\ MirrorShows(host', mirror') BY <3>1 DEF WireInv
      <3> QED BY <2>1, <2>2, <2>3, <3>1, <3>2, <3>3 DEF WireInv
    <2>4. CASE will # NoWill
      <3>1. /\ outbox' = Tail(outbox) /\ host' = Observe(host, m)
            /\ will' = (IF m.type = "NDEATH" THEN NoWill ELSE will)
            /\ mirror' = Over(Retained(MirrorOf(m)), mirror)
        BY <1>1, <2>4 DEF Publish, Retain, Retained
      <3> HIDE DEF m
      <3>2. HostInv(host) /\ MirrorShows(host, mirror) BY DEF WireInv
      <3>3. HostInv(Observe(host, m)) BY <2>2, <3>2, ObserveKeeps
      <3>4. MirrorShows(Observe(host, m), Over(Retained(MirrorOf(m)), mirror))
        BY <2>2, <3>2, MirrorKeeps
      <3>5. HostInv(host') /\ MirrorShows(host', mirror') BY <3>1, <3>3, <3>4
      <3>6. outbox' \in Seq(Sent(s'.bdseq, ticks')) /\ MeantInv(outbox', meant')
        BY <2>1, <2>2, <3>1
      <3>7. will' = NoWill \/ \E b \in Counts, t \in 0..MaxTicks : will' \in NodeDeaths(b, t)
        BY <3>1 DEF WireInv
      <3>8. s' \in SessionSet /\ ticks' \in 0..MaxTicks /\ s'.bdseq \in Counts
        BY <2>1, <2>2 DEF WireInv
      <3> QED BY <3>5, <3>6, <3>7, <3>8 DEF WireInv
    <2> QED BY <2>3, <2>4
  <1>2. CASE Drop
    <2>1. /\ will # NoWill /\ host' = Observe(host, will) /\ will' = NoWill
          /\ s' = s /\ ticks' = ticks /\ outbox' = outbox /\ meant' = meant /\ mirror' = mirror
      BY <1>2 DEF Drop
    <2>2. HostInv(host) /\ MirrorShows(host, mirror) BY DEF WireInv
    <2>3. PICK b \in Counts, t \in 0..MaxTicks : will \in NodeDeaths(b, t) BY <2>1 DEF WireInv
    <2>4. Shape(will, b) /\ will.type = "NDEATH" BY <2>3, WillIs, SentShape
    <2>5. HostInv(Observe(host, will)) BY <2>2, <2>4, ObserveKeeps
    <2>6. Observed(host, will, Observe(host, will)) BY <2>2, ObserveIs DEF HostInv
    <2>7. MirrorShows(Observe(host, will), mirror)
      <3>1. CASE BdSeqIn(will) = host.bdseq
        <4>1. Observe(host, will).born = {} /\ Observe(host, will).lost = {}
          BY <2>4, <2>6, <3>1 DEF Observed
        <4> QED BY <4>1 DEF MirrorShows
      <3>2. CASE BdSeqIn(will) # host.bdseq
        <4>1. Observe(host, will) = host BY <2>4, <2>6, <3>2 DEF Observed
        <4> QED BY <2>2, <4>1
      <3> QED BY <3>1, <3>2
    <2>8. HostInv(host') /\ MirrorShows(host', mirror') BY <2>1, <2>5, <2>7
    <2> QED BY <2>1, <2>8 DEF WireInv
  <1>3. CASE Tick
    <2>1. /\ outbox = <<>> /\ ticks < MaxTicks /\ ticks' = ticks + 1
          /\ s' = s /\ outbox' = outbox /\ meant' = meant /\ will' = will
          /\ host' = host /\ mirror' = mirror
      BY <1>3 DEF Tick, Idle
    <2>2. ticks' \in 0..MaxTicks BY <2>1, BoundAssumption DEF WireInv
    <2>3. outbox' \in Seq(Sent(s'.bdseq, ticks')) /\ MeantInv(outbox', meant')
      BY <2>1 DEF MeantInv
    <2>4. HostInv(host') /\ MirrorShows(host', mirror') BY <2>1 DEF WireInv
    <2> QED BY <2>1, <2>2, <2>3, <2>4 DEF WireInv
  <1> QED BY <1>1, <1>2, <1>3

\* Before the first call nothing was sent, and nobody has read anything.
LEMMA InitWireInv == Init => WireInv
  <1> SUFFICES ASSUME Init PROVE WireInv OBVIOUS
  <1>1. s \in SessionSet
    <2>1. s = NewSession /\ 0 \in Counts BY Wraps DEF Init
    <2> QED BY <2>1 DEF NewSession, SessionSet
  <1>2. ~s.connected BY DEF Init, NewSession
  <1>3. ticks \in 0..MaxTicks BY BoundAssumption DEF Init
  <1>4. outbox \in Seq(Sent(s.bdseq, ticks)) /\ outbox = <<>> /\ MeantInv(outbox, meant)
    BY DEF Init, MeantInv
  <1>5. HostInv(host)
    <2>1. DOMAIN Nothing = {} BY DEF Nothing
    <2>2. BookOK(Nothing) BY <2>1 DEF BookOK
    <2>3. host = [alive |-> FALSE, bdseq |-> -1, next |-> 0, born |-> {}, lost |-> {},
                  book |-> Nothing, read |-> Nothing]
      BY DEF Init
    <2>4. /\ DOMAIN host = HostFields /\ host.alive = FALSE /\ host.born = {} /\ host.lost = {}
          /\ host.book = Nothing
      BY <2>3 DEF HostFields
    <2> QED BY <2>2, <2>4 DEF HostInv
  <1>6. MirrorShows(host, mirror)
    <2>1. host.born = {} /\ host.lost = {} BY DEF Init
    <2> QED BY <2>1 DEF MirrorShows
  <1> QED BY <1>1, <1>2, <1>3, <1>4, <1>5, <1>6 DEF Init, WireInv

\* The steps, each with the names its call may have.
LEMMA Steps ==
    ASSUME Next
    PROVE  \/ Connect
           \/ Disconnect \/ NodeBirth \/ \E d \in Devices : DeviceBirth(d) \/ DeviceDeath(d)
           \/ \E d \in Owners, v \in Values : \E changed : PublishData(d, changed, v)
           \/ \E command : NodeCommand(command)
           \/ Publish \/ Drop \/ Tick
  BY DEF Next, Owners

\* No step breaks the invariant.
LEMMA StepWireInv ==
    ASSUME WireInv, [Next]_vars
    PROVE  WireInv'
  <1>1. CASE Next
    <2>1. CASE Connect BY <2>1, ConnectKeeps
    <2>2. CASE Disconnect \/ NodeBirth \/ \E d \in Devices : DeviceBirth(d) \/ DeviceDeath(d)
      BY <2>2, OneKeeps
    <2>3. CASE \/ \E d \in Owners, v \in Values : \E changed : PublishData(d, changed, v)
               \/ \E command : NodeCommand(command)
      BY <2>3, ManyKeeps
    <2>4. CASE Publish \/ Drop \/ Tick BY <2>4, TransportKeeps
    <2> QED BY <1>1, <2>1, <2>2, <2>3, <2>4, Steps
  <1>2. CASE UNCHANGED vars BY <1>2 DEF vars, WireInv
  <1> QED BY <1>1, <1>2

\* What is on the wire is what the session hands back, and the subscriber's book
\* and the mirror are right, whatever the caller does.
THEOREM WireInvariance == Spec => []WireInv
  <1>1. WireInv /\ [Next]_vars => WireInv' BY StepWireInv
  <1> QED BY <1>1, InitWireInv, PTL DEF Spec

\* The two namespaces cannot disagree: of a device that is born the mirror retains
\* what the subscriber read, of one whose death was announced a null of bad quality.
THEOREM MirrorNeverDisagrees == Spec => []MirrorAgrees
  <1>1. WireInv => MirrorAgrees
    <2> SUFFICES ASSUME WireInv, NEW k \in Keys
                 PROVE  /\ k[1] \in host.born => k \in DOMAIN mirror /\ mirror[k].value = host.read[k]
                        /\ k[1] \in host.lost => mirror[k] = [value |-> Null, quality |-> "bad"]
      BY DEF MirrorAgrees
    <2>1. k = <<k[1], k[2]>> /\ k[2] \in NamesOf(k[1]) BY FixtureKeys DEF Keys
    <2>2. PICK d, n : d = k[1] /\ n = k[2] OBVIOUS
    <2>3. k = <<d, n>> /\ n \in NamesOf(d) BY <2>1, <2>2
    <2>4. /\ d \in host.born => <<d, n>> \in DOMAIN mirror /\ mirror[<<d, n>>].value = host.read[<<d, n>>]
          /\ d \in host.lost => mirror[<<d, n>>] = [value |-> Null, quality |-> "bad"]
      BY <2>3 DEF WireInv, MirrorShows
    <2> QED BY <2>2, <2>3, <2>4
  <1> QED BY <1>1, WireInvariance, PTL

-----------------------------------------------------------------------------
(* The refinement.                                                         *)

\* The outbox, the will and the subscriber as the abstract session has them.
Wired     == [i \in DOMAIN outbox |-> Abstract(outbox[i])]
WillShown == IF will = NoWill THEN -1 ELSE BdSeqIn(will)
ViewShown == [alive |-> host.alive, bdseq |-> host.bdseq, born |-> host.born, next |-> host.next]

Shown(m, b) == [type |-> m.type, device |-> m.device, seq |-> m.seq, bdseq |-> b]
WireOf(q, b) == [i \in DOMAIN q |-> Shown(q[i], b)]

\* What is shown of a sequence of messages.
LEMMA WireOfIs ==
    ASSUME NEW S, NEW q \in Seq(S), NEW b
    PROVE  /\ q = <<>> <=> WireOf(q, b) = <<>>
           /\ \A m : q = <<m>> => WireOf(q, b) = <<Shown(m, b)>>
           /\ q # <<>> => /\ Head(WireOf(q, b)) = Shown(Head(q), b)
                          /\ Tail(WireOf(q, b)) = WireOf(Tail(q), b)
  <1> DEFINE w == WireOf(q, b)
  <1>1. DOMAIN w = 1..Len(q) /\ Len(q) \in Nat /\ \A i \in 1..Len(q) : w[i] = Shown(q[i], b)
    BY DEF WireOf
  <1>2. w \in Seq({Shown(m, b) : m \in S}) /\ Len(w) = Len(q)
    <2> DEFINE T == {Shown(m, b) : m \in S}
    <2>1. \A i \in 1..Len(q) : w[i] \in T BY <1>1
    <2>2. w = [i \in 1..Len(q) |-> w[i]] BY DEF WireOf
    <2> HIDE DEF w, T
    <2>3. w \in [1..Len(q) -> T] BY <2>1, <2>2
    <2> QED BY <1>1, <2>3
  <1>3. q = <<>> <=> w = <<>>
    <2> HIDE DEF w
    <2> QED BY <1>2
  <1>4. ASSUME NEW m, q = <<m>> PROVE w = <<Shown(m, b)>>
    <2>1. Len(q) = 1 /\ q[1] = m BY <1>4
    <2> HIDE DEF w
    <2> QED BY <1>1, <1>2, <2>1
  <1>5. ASSUME q # <<>> PROVE Head(w) = Shown(Head(q), b) /\ Tail(w) = WireOf(Tail(q), b)
    <2>1. Len(q) > 0 BY <1>5
    <2>2. Head(w) = w[1] /\ Head(q) = q[1] BY <1>2, <1>3, <1>5 
    <2>3. Tail(q) \in Seq(S) /\ DOMAIN Tail(q) = 1..Len(q)-1
          /\ \A i \in 1..Len(q)-1 : Tail(q)[i] = q[i+1]
      BY <1>5
    <2>4. Tail(w) \in Seq({Shown(m, b) : m \in S}) /\ DOMAIN Tail(w) = 1..Len(q)-1
          /\ \A i \in 1..Len(q)-1 : Tail(w)[i] = w[i+1]
      <3> HIDE DEF w
      <3> QED BY <1>2, <1>3, <1>5
    <2>5. Tail(w) = [i \in 1..Len(q)-1 |-> Shown(q[i+1], b)]
      <3> HIDE DEF w
      <3>1. \A i \in 1..Len(q)-1 : i + 1 \in 1..Len(q) BY <1>1
      <3>2. ASSUME NEW T, NEW p \in Seq(T), NEW n \in Nat, DOMAIN p = 1..n
            PROVE  p = [i \in 1..n |-> p[i]]
        BY <3>2
      <3>3. Len(q) - 1 \in Nat BY <1>1, <2>1
      <3>4. Tail(w) = [i \in 1..Len(q)-1 |-> Tail(w)[i]] BY <2>4, <3>2, <3>3
      <3> QED BY <1>1, <2>4, <3>1, <3>4
    <2>6. WireOf(Tail(q), b) = [i \in 1..Len(q)-1 |-> Shown(q[i+1], b)] BY <2>3 DEF WireOf
    <2> HIDE DEF w
    <2> QED BY <1>1, <2>1, <2>2, <2>5, <2>6
  <1> QED BY <1>3, <1>4, <1>5

\* One message, and none.
LEMMA OneShown ==
    ASSUME NEW m, NEW b
    PROVE  WireOf(<<m>>, b) = <<Shown(m, b)>> /\ WireOf(<<>>, b) = <<>>
  <1>1. <<m>> \in Seq({m}) /\ <<>> \in Seq({m}) OBVIOUS
  <1> QED BY <1>1, WireOfIs, ZenonT(60)

\* What the session hands back shows in its own numbers.
LEMMA WiredIs == Wired = WireOf(outbox, s.bdseq) /\ Wired' = WireOf(outbox', s'.bdseq)
  BY DEF Wired, WireOf, Shown, Abstract

\* The bus holds a will in the one when it does in the other.
LEMMA WillShownIs ==
    ASSUME WireInv
    PROVE  WillShown = -1 <=> will = NoWill
  <1>1. CASE will = NoWill BY <1>1 DEF WillShown
  <1>2. CASE will # NoWill
    <2>1. PICK b \in Counts, t \in 0..MaxTicks : will \in NodeDeaths(b, t) BY <1>2 DEF WireInv
    <2>2. BdSeqIn(will) = b /\ b # -1 BY <2>1, WillIs, MessageAssumption DEF Counts
    <2> QED BY <1>2, <2>2 DEF WillShown
  <1> QED BY <1>1, <1>2

\* A call that hands back one message, read as the session's.
OneShows(m) ==
    /\ Wired = <<>> /\ Wired' = <<Shown(m, s.bdseq)>>
    /\ WillShown' = WillShown /\ ViewShown' = ViewShown

\* Every such call leaves the bus and the subscriber alone.
LEMMA OneMaps ==
    ASSUME NEW m, NEW keys, outbox = <<>>, HandBack(<<m>>, keys), s'.bdseq = s.bdseq
    PROVE  OneShows(m)
  <1>1. outbox' = <<m>> /\ will' = will /\ host' = host BY DEF HandBack
  <1>2. Wired' = WireOf(<<m>>, s.bdseq) BY <1>1, WiredIs
  <1>3. Wired = WireOf(<<>>, s.bdseq) BY WiredIs
  <1>4. WillShown' = WillShown /\ ViewShown' = ViewShown BY <1>1 DEF WillShown, ViewShown
  <1> QED BY <1>2, <1>3, <1>4, OneShown DEF OneShows

\* The devices of the two.
LEMMA SameDevices == Session!Devices = Devices /\ Devices = 1..2 /\ Cardinality(Devices) = 2
  BY Fixture DEF Session!Devices

\* disconnect() is that of the session.
LEMMA DisconnectMaps ==
    ASSUME WireInv, Disconnect
    PROVE  Session!Disconnect
  <1> DEFINE m == DeathMessage(Node, s, ticks)
  <1>1. outbox = <<>> /\ s.connected /\ s' = Disconnected(s) /\ HandBack(<<m>>, {})
    BY DEF Disconnect, Idle
  <1>2. IsSession(s', FALSE, s.bdseq, s.seq, {}, FALSE)
    BY <1>1, SessionMoves DEF WireInv
  <1>3. m.type = "NDEATH" /\ m.device = NodeItself /\ m.seq = Absent BY DeathCarriesBdSeq
  <1> HIDE DEF m
  <1>4. OneShows(m) BY <1>1, <1>2, OneMaps DEF IsSession
  <1>5. Shown(m, s.bdseq) = Session!Death(s.bdseq)
    BY <1>3 DEF Shown, Session!Death, Session!NoDevice, Session!NoWill, NodeItself, Absent
  <1> QED BY <1>1, <1>2, <1>4, <1>5
          DEF Session!Disconnect, Session!Idle, OneShows, Wired, WillShown, ViewShown, IsSession

\* A message with the session's number is handed back as the session does.
LEMMA MessageMaps ==
    ASSUME NEW m, NEW type, NEW d, m.type = type, m.device = d, m.seq = s.seq
    PROVE  Shown(m, s.bdseq) = Session!message(type, d)
  BY DEF Shown, Session!message

\* node_birth().
LEMMA NodeBirthMaps ==
    ASSUME WireInv, NodeBirth
    PROVE  Session!NodeBirth
  <1> DEFINE m == NodeBirthMessage(Node, s, ticks)
  <1>1. /\ outbox = <<>> /\ s.connected /\ (Orderly => ~s.node_born)
        /\ s' = NodeBorn(s) /\ HandBack(<<m>>, {})
    BY DEF NodeBirth, CanBirthNode, Idle
  <1>2. IsSession(s', s.connected, s.bdseq, (s.seq + 1) % SEQUENCE_MODULUS, s.born, TRUE)
    BY <1>1, SessionMoves DEF WireInv
  <1>3. m.type = "NBIRTH" /\ m.device = NodeItself /\ m.seq = s.seq BY BirthCarriesBdSeq
  <1> HIDE DEF m
  <1>4. OneShows(m) BY <1>1, <1>2, OneMaps DEF IsSession
  <1>5. Shown(m, s.bdseq) = Session!message("NBIRTH", Session!NoDevice)
    BY <1>3, MessageMaps DEF Session!NoDevice, NodeItself
  <1> QED BY <1>1, <1>2, <1>4, <1>5
          DEF Session!NodeBirth, Session!Idle, Session!HandBack, Session!next_seq, OneShows,
              Wired, WillShown, ViewShown, IsSession

\* device_birth().
LEMMA DeviceBirthMaps ==
    ASSUME WireInv, NEW d \in Devices, DeviceBirth(d)
    PROVE  Session!DeviceBirth(d)
  <1> DEFINE m == DeviceBirthMessage(Node, s, d, ticks)
  <1>1. /\ outbox = <<>> /\ s.connected /\ s.node_born
        /\ s' = DeviceBorn(s, d) /\ HandBack(<<m>>, {})
    BY DEF DeviceBirth, CanBirthDevice, Idle
  <1>2. IsSession(s', s.connected, s.bdseq, (s.seq + 1) % SEQUENCE_MODULUS,
                  s.born \cup {d}, s.node_born)
    <2>1. IsSession(DeviceBorn(s, d), s.connected, s.bdseq, (s.seq + 1) % SEQUENCE_MODULUS,
                    s.born \cup {d}, s.node_born)
      BY SessionMoves DEF WireInv
    <2> QED BY <1>1, <2>1
  <1>3. m.type = "DBIRTH" /\ m.device = d /\ m.seq = s.seq
    <2>1. DeviceBirthIs(m, d, s.seq, ticks) BY DeviceBirthDeclares
    <2> HIDE DEF m
    <2> QED BY <2>1 DEF DeviceBirthIs
  <1> HIDE DEF m
  <1>4. OneShows(m) BY <1>1, <1>2, OneMaps DEF IsSession
  <1>5. Shown(m, s.bdseq) = Session!message("DBIRTH", d) BY <1>3, MessageMaps
  <1> QED BY <1>1, <1>2, <1>4, <1>5
          DEF Session!DeviceBirth, Session!Idle, Session!HandBack, Session!next_seq, OneShows,
              Wired, WillShown, ViewShown, IsSession

\* device_death().
LEMMA DeviceDeathMaps ==
    ASSUME WireInv, NEW d \in Devices, DeviceDeath(d)
    PROVE  Session!DeviceDeath(d)
  <1> DEFINE m == DeviceDeathMessage(Node, s, d, ticks)
  <1>1. /\ outbox = <<>> /\ s.connected /\ (Orderly => d \in s.born)
        /\ s' = DeviceDied(s, d) /\ HandBack(<<m>>, {})
    BY DEF DeviceDeath, CanKill, Idle
  <1>2. IsSession(s', s.connected, s.bdseq, (s.seq + 1) % SEQUENCE_MODULUS,
                  s.born \ {d}, s.node_born)
    <2>1. IsSession(DeviceDied(s, d), s.connected, s.bdseq, (s.seq + 1) % SEQUENCE_MODULUS,
                    s.born \ {d}, s.node_born)
      BY SessionMoves DEF WireInv
    <2> QED BY <1>1, <2>1
  <1>3. m.type = "DDEATH" /\ m.device = d /\ m.seq = s.seq BY DeviceDeathIsEmpty
  <1> HIDE DEF m
  <1>4. OneShows(m) BY <1>1, <1>2, OneMaps DEF IsSession
  <1>5. Shown(m, s.bdseq) = Session!message("DDEATH", d) BY <1>3, MessageMaps
  <1> QED BY <1>1, <1>2, <1>4, <1>5
          DEF Session!DeviceDeath, Session!Idle, Session!HandBack, Session!next_seq, OneShows,
              Wired, WillShown, ViewShown, IsSession

\* node_data() and device_data(), whatever metrics they name.
LEMMA PublishDataMaps ==
    ASSUME WireInv, NEW d \in Owners, NEW v \in Values, NEW changed,
           PublishData(d, changed, v)
    PROVE  Session!NodeData \/ \E e \in Session!Devices : Session!DeviceData(e)
  <1> DEFINE m == DataMessage(Node, s, d, changed, v, ticks)
             keys == {<<d, name>> : name \in changed}
  <1>1. /\ outbox = <<>> /\ CanPublish(Node, s, d, changed)
        /\ s' = NextSeq(s) /\ HandBack(<<m>>, keys)
    BY DEF PublishData, Idle
  <1>2. IsSession(s', s.connected, s.bdseq, (s.seq + 1) % SEQUENCE_MODULUS, s.born, s.node_born)
    BY <1>1, SessionMoves DEF WireInv
  <1>3. changed \in SUBSET NamesOf(d) BY <1>1, MayPublish
  <1>4. m.type = (IF d = NodeItself THEN "NDATA" ELSE "DDATA") /\ m.device = d /\ m.seq = s.seq
    <2>1. DataIs(m, d, InByteOrder(changed), changed, s.seq, ticks) BY <1>3, DataIsKeyed
    <2> HIDE DEF m
    <2> QED BY <2>1 DEF DataIs
  <1>5. Session!require_all_born
    BY <1>1, SameDevices DEF CanPublish, AllBorn, Devices, Session!require_all_born
  <1> HIDE DEF m, keys
  <1>6. OneShows(m) BY <1>1, <1>2, OneMaps DEF IsSession
  <1>7. CASE d = NodeItself
    <2>1. Shown(m, s.bdseq) = Session!message("NDATA", Session!NoDevice)
      BY <1>4, <1>7, MessageMaps DEF Session!NoDevice, NodeItself
    <2>2. Session!NodeData
      BY <1>2, <1>5, <1>6, <2>1
         DEF Session!NodeData, Session!Idle, Session!HandBack, Session!next_seq, OneShows,
             Wired, WillShown, ViewShown, IsSession
    <2> QED BY <2>2
  <1>8. CASE d \in Devices
    <2>1. d # NodeItself BY <1>8, Fixture
    <2>2. Shown(m, s.bdseq) = Session!message("DDATA", d) BY <1>4, <2>1, MessageMaps
    <2>3. Session!DeviceData(d)
      BY <1>2, <1>5, <1>6, <2>2
         DEF Session!DeviceData, Session!Idle, Session!HandBack, Session!next_seq, OneShows,
             Wired, WillShown, ViewShown, IsSession
    <2> QED BY <1>8, <2>3, SameDevices
  <1> QED BY <1>7, <1>8 DEF Owners

\* handle_node_command with the rebirth set true: the births, numbered from zero.
LEMMA NodeCommandMaps ==
    ASSUME WireInv, NEW command, NodeCommand(command)
    PROVE  Session!Rebirth
  <1> DEFINE q == RebirthMessages(Node, s, ticks)
             b == s.bdseq
  <1>1. /\ outbox = <<>> /\ s.connected /\ s' = Reborn(Node, s)
        /\ outbox' = q /\ will' = will /\ host' = host
    BY DEF NodeCommand, Idle, HandBack
  <1>2. IsSession(s', s.connected, b, (2 + 1) % SEQUENCE_MODULUS, 1..2, TRUE)
    <2>1. BornUpTo(Reborn(Node, s), s, 2) BY RebirthIs DEF WireInv
    <2> QED BY <1>1, <2>1 DEF BornUpTo
  <1>3. RebirthAre(q, s, ticks) BY RebirthMessagesAre DEF WireInv
  <1> HIDE DEF q
  <1>4. Wired' = WireOf(q, b) BY <1>1, <1>2, WiredIs DEF IsSession
  <1>5. WireOf(q, b) = Session!BirthMessages(b)
    <2>1. DOMAIN q = 1..3 BY <1>3 DEF RebirthAre
    <2>2. WireOf(q, b) = [i \in 1..3 |-> Shown(q[i], b)] BY <2>1 DEF WireOf
    <2>3. Session!BirthMessages(b)
             = [i \in 1..3 |-> [type |-> IF i = 1 THEN "NBIRTH" ELSE "DBIRTH", device |-> i - 1,
                                seq |-> (i - 1) % SEQUENCE_MODULUS, bdseq |-> b]]
      BY SameDevices DEF Session!BirthMessages
    <2>4. ASSUME NEW i \in 1..3
          PROVE  Shown(q[i], b) = [type |-> IF i = 1 THEN "NBIRTH" ELSE "DBIRTH", device |-> i - 1,
                                   seq |-> (i - 1) % SEQUENCE_MODULUS, bdseq |-> b]
      <3>1. CASE i = 1
        <4>1. i - 1 = NodeItself /\ (i - 1) % SEQUENCE_MODULUS = 0
          BY <3>1, Wraps DEF NodeItself
        <4> QED BY <1>3, <3>1, <4>1 DEF RebirthAre, Shown
      <3>2. CASE i # 1
        <4>1. i - 1 \in Devices /\ i - 1 + 1 = i BY <3>2, SameDevices
        <4>2. /\ q[i].type = "DBIRTH" /\ q[i].device = i - 1
              /\ q[i].seq = (i - 1) % SEQUENCE_MODULUS
          BY <1>3, <4>1 DEF RebirthAre
        <4> QED BY <3>2, <4>2 DEF Shown
      <3> QED BY <3>1, <3>2
    <2> QED BY <2>2, <2>3, <2>4
  <1>6. Wired = <<>> BY <1>1, WiredIs, OneShown
  <1>7. WillShown' = WillShown /\ ViewShown' = ViewShown BY <1>1 DEF WillShown, ViewShown
  <1>8. Session!Devices = 1..2 /\ (Cardinality(Devices) + 1) = 2 + 1 BY SameDevices
  <1> QED BY <1>1, <1>2, <1>4, <1>5, <1>6, <1>7, <1>8
          DEF Session!Rebirth, Session!Idle, Wired, WillShown, ViewShown, IsSession

\* connect().
LEMMA ConnectMaps ==
    ASSUME WireInv, Connect
    PROVE  Session!Connect
  <1>1. /\ outbox = <<>> /\ IsSession(s', TRUE, (s.bdseq + 1) % SEQUENCE_MODULUS, 0, {}, FALSE)
        /\ will = NoWill => will' \in NodeDeaths(s'.bdseq, ticks)
        /\ will # NoWill => will' = will
    BY ConnectKeeps
  <1>2. (Orderly => will = NoWill) /\ outbox' = outbox /\ host' = host BY DEF Connect
  <1>3. Wired = <<>> /\ Wired' = <<>> BY <1>1, <1>2, WiredIs, OneShown
  <1>4. ViewShown' = ViewShown BY <1>2 DEF ViewShown
  <1>5. WillShown = Session!NoWill <=> will = NoWill BY WillShownIs DEF Session!NoWill
  <1>6. WillShown' = IF WillShown = Session!NoWill THEN s'.bdseq ELSE WillShown
    <2>1. CASE will = NoWill
      <3>1. will' # NoWill /\ BdSeqIn(will') = s'.bdseq
        <4>1. PICK b, w : b = s'.bdseq /\ w = will' OBVIOUS
        <4> QED BY <1>1, <2>1, <4>1, WillIs
      <3>2. WillShown' = IF will' = NoWill THEN -1 ELSE BdSeqIn(will') BY DEF WillShown
      <3> QED BY <1>5, <2>1, <3>1, <3>2
    <2>2. CASE will # NoWill
      <3>1. WillShown' = WillShown BY <1>1, <2>2 DEF WillShown
      <3> QED BY <1>5, <2>2, <3>1
    <2> QED BY <2>1, <2>2
  <1> QED BY <1>1, <1>2, <1>3, <1>4, <1>5, <1>6
          DEF Session!Connect, Session!Idle, Wired, WillShown, ViewShown, IsSession

ViewOf(h) == [alive |-> h.alive, bdseq |-> h.bdseq, born |-> h.born, next |-> h.next]

\* The subscriber that reads metrics makes of a message what the abstract one does.
LEMMA ObserveMaps ==
    ASSUME NEW h, HostInv(h), NEW b, NEW m, Shape(m, b)
    PROVE  ViewOf(Observe(h, m)) = Session!Observe(ViewOf(h), Shown(m, b))
  <1> DEFINE g == Observe(h, m)
             v == ViewOf(h)
             n == Shown(m, b)
  <1>1. Observed(h, m, g) BY ObserveIs DEF HostInv
  <1>2. /\ n.type = m.type /\ n.device = m.device /\ n.seq = m.seq /\ n.bdseq = b
        /\ v.alive = h.alive /\ v.bdseq = h.bdseq /\ v.born = h.born /\ v.next = h.next
    BY DEF Shown, ViewOf
  <1>3. ViewOf(g) = [alive |-> g.alive, bdseq |-> g.bdseq, born |-> g.born, next |-> g.next]
    BY DEF ViewOf
  <1> HIDE DEF g, n
  <1>4. CASE m.type = "NBIRTH"
    <2>1. /\ g.alive = TRUE /\ g.bdseq = b /\ g.born = {} /\ g.next = (m.seq + 1) % SEQUENCE_MODULUS
      BY <1>1, <1>4 DEF Observed, Shape
    <2>2. Session!Observe(v, n) = [alive |-> TRUE, bdseq |-> b, born |-> {},
                                   next |-> (m.seq + 1) % SEQUENCE_MODULUS]
      BY <1>2, <1>4 DEF Session!Observe
    <2> QED BY <1>3, <2>1, <2>2 DEF g, n
  <1>5. CASE m.type = "NDEATH" /\ b = h.bdseq
    <2>1. BdSeqIn(m) = b BY <1>5 DEF Shape
    <2>2. g.alive = FALSE /\ g.bdseq = h.bdseq /\ g.born = {} /\ g.next = 0
      BY <1>1, <1>5, <2>1 DEF Observed
    <2>3. Session!Observe(v, n) = [alive |-> FALSE, bdseq |-> h.bdseq, born |-> {}, next |-> 0]
      BY <1>2, <1>5 DEF Session!Observe, Session!Dead
    <2> QED BY <1>3, <2>2, <2>3 DEF g, n
  <1>6. CASE m.type = "NDEATH" /\ b # h.bdseq
    <2>1. BdSeqIn(m) = b BY <1>6 DEF Shape
    <2>2. g = h BY <1>1, <1>6, <2>1 DEF Observed
    <2>3. Session!Observe(v, n) = v BY <1>2, <1>6 DEF Session!Observe
    <2> QED BY <2>2, <2>3 DEF g, n
  <1>7. CASE m.type \notin {"NBIRTH", "NDEATH"}
    <2> DEFINE bs == IF m.type = "DBIRTH" THEN h.born \cup {m.device}
                     ELSE IF m.type = "DDEATH" THEN h.born \ {m.device} ELSE h.born
    <2>1. /\ g.alive = h.alive /\ g.bdseq = h.bdseq /\ g.born = bs
          /\ g.next = (m.seq + 1) % SEQUENCE_MODULUS
      BY <1>1, <1>7 DEF Observed
    <2>2. Session!Observe(v, n) = [alive |-> h.alive, bdseq |-> h.bdseq, born |-> bs,
                                   next |-> (m.seq + 1) % SEQUENCE_MODULUS]
      BY <1>2, <1>7 DEF Session!Observe
    <2> QED BY <1>3, <2>1, <2>2 DEF g, n
  <1> QED BY <1>4, <1>5, <1>6, <1>7

\* publish() of the next message, or of none.
LEMMA PublishMaps ==
    ASSUME WireInv, Publish
    PROVE  Session!Publish
  <1> DEFINE m == Head(outbox)
             b == s.bdseq
  <1>1. outbox # <<>> /\ s' = s BY DEF Publish, Idle
  <1>2. Shape(m, b) BY <1>1, HeadOf
  <1>3. outbox \in Seq(Sent(b, ticks)) /\ HostInv(host) BY DEF WireInv
  <1>4. Wired # <<>> /\ Head(Wired) = Shown(m, b) /\ Tail(Wired) = WireOf(Tail(outbox), b)
    BY <1>1, <1>3, WiredIs, WireOfIs
  <1>5. WillShown = Session!NoWill <=> will = NoWill BY WillShownIs DEF Session!NoWill
  <1>6. CASE will = NoWill
    <2>1. outbox' = <<>> /\ will' = will /\ host' = host BY <1>6 DEF Publish
    <2>2. Wired' = <<>> BY <1>1, <2>1, WiredIs, OneShown
    <2>3. WillShown' = WillShown /\ ViewShown' = ViewShown BY <2>1 DEF WillShown, ViewShown
    <2> QED BY <1>1, <1>4, <1>5, <1>6, <2>2, <2>3
            DEF Session!Publish, Session!session_vars, Wired, WillShown, ViewShown
  <1>7. CASE will # NoWill
    <2>1. /\ outbox' = Tail(outbox) /\ host' = Observe(host, m)
          /\ will' = (IF m.type = "NDEATH" THEN NoWill ELSE will)
      BY <1>7 DEF Publish
    <2> HIDE DEF m
    <2>2. Wired' = Tail(Wired) BY <1>1, <1>4, <2>1, WiredIs
    <2>3. ViewShown' = Session!Observe(ViewShown, Head(Wired))
      <3>1. ViewOf(Observe(host, m)) = Session!Observe(ViewOf(host), Shown(m, b))
        BY <1>2, <1>3, ObserveMaps
      <3>2. ViewShown = ViewOf(host) /\ ViewShown' = ViewOf(host') BY DEF ViewShown, ViewOf
      <3> QED BY <1>4, <2>1, <3>1, <3>2
    <2>4. WillShown' = IF Head(Wired).type = "NDEATH" THEN Session!NoWill ELSE WillShown
      <3>1. Head(Wired).type = m.type BY <1>4 DEF Shown
      <3> QED BY <2>1, <3>1 DEF WillShown, Session!NoWill
    <2> QED BY <1>1, <1>4, <1>5, <1>7, <2>2, <2>3, <2>4
            DEF Session!Publish, Session!session_vars, Wired, WillShown, ViewShown
  <1> QED BY <1>6, <1>7

\* The connection is lost.
LEMMA DropMaps ==
    ASSUME WireInv, Drop
    PROVE  Session!Drop
  <1>1. /\ will # NoWill /\ host' = Observe(host, will) /\ will' = NoWill
        /\ s' = s /\ outbox' = outbox
    BY DEF Drop
  <1>2. PICK b \in Counts, t \in 0..MaxTicks : will \in NodeDeaths(b, t) BY <1>1 DEF WireInv
  <1>3. /\ Shape(will, b) /\ will.type = "NDEATH" /\ will.device = NodeItself
        /\ will.seq = Absent /\ BdSeqIn(will) = b
    BY <1>2, WillIs, SentShape DEF Shape
  <1>4. WillShown = b /\ WillShown # Session!NoWill
    BY <1>1, <1>3, WillShownIs DEF WillShown, Session!NoWill
  <1>5. Shown(will, b) = Session!Death(b)
    BY <1>3 DEF Shown, Session!Death, Session!NoDevice, Session!NoWill, NodeItself, Absent
  <1>6. ViewShown' = Session!Observe(ViewShown, Session!Death(WillShown))
    <2>1. ViewOf(Observe(host, will)) = Session!Observe(ViewOf(host), Shown(will, b))
      BY <1>3, ObserveMaps DEF WireInv
    <2>2. ViewShown = ViewOf(host) /\ ViewShown' = ViewOf(host') BY DEF ViewShown, ViewOf
    <2> QED BY <1>1, <1>4, <1>5, <2>1, <2>2
  <1>7. WillShown' = Session!NoWill BY <1>1 DEF WillShown, Session!NoWill
  <1>8. Wired' = Wired BY <1>1, WiredIs
  <1> QED BY <1>1, <1>4, <1>6, <1>7, <1>8
          DEF Session!Drop, Session!session_vars, Wired, WillShown, ViewShown

\* Before the first call.
LEMMA InitMaps == Init => Session!Init
  <1> SUFFICES ASSUME Init PROVE Session!Init OBVIOUS
  <1>1. /\ s.connected = FALSE /\ s.bdseq = -1 /\ s.seq = 0 /\ s.born = {}
        /\ s.node_born = FALSE
    BY DEF Init, NewSession
  <1>2. outbox = <<>> /\ will = NoWill BY DEF Init
  <1>3. Wired = <<>> BY <1>2, WiredIs, OneShown
  <1>4. WillShown = Session!NoWill BY <1>2 DEF WillShown, Session!NoWill
  <1>5. ViewShown = Session!Dead(Session!NoWill)
    BY DEF Init, ViewShown, Session!Dead, Session!NoWill
  <1> QED BY <1>1, <1>3, <1>4, <1>5 DEF Session!Init, Wired, WillShown, ViewShown

\* The clock, and a step of nothing: the session does not see them.
LEMMA StutterMaps ==
    ASSUME Tick \/ UNCHANGED vars
    PROVE  UNCHANGED Session!vars
  <1>1. s' = s /\ outbox' = outbox /\ will' = will /\ host' = host BY DEF Tick, vars
  <1>2. Wired' = Wired BY <1>1, WiredIs
  <1>3. WillShown' = WillShown /\ ViewShown' = ViewShown BY <1>1 DEF WillShown, ViewShown
  <1> QED BY <1>1, <1>2, <1>3 DEF Session!vars, Session!session_vars, Wired, WillShown, ViewShown

\* Every step of the edge node is one of the session, or none.
LEMMA StepMaps ==
    ASSUME WireInv, [Next]_vars
    PROVE  [Session!Next]_(Session!vars)
  <1>1. CASE Next
    <2>1. CASE Connect BY <2>1, ConnectMaps DEF Session!Next
    <2>2. CASE Disconnect BY <2>2, DisconnectMaps DEF Session!Next
    <2>3. CASE NodeBirth BY <2>3, NodeBirthMaps DEF Session!Next
    <2>4. ASSUME NEW d \in Devices, DeviceBirth(d) PROVE Session!Next
      <3>1. Session!DeviceBirth(d) /\ d \in Session!Devices BY <2>4, DeviceBirthMaps, SameDevices
      <3> QED BY <3>1 DEF Session!Next
    <2>5. ASSUME NEW d \in Devices, DeviceDeath(d) PROVE Session!Next
      <3>1. Session!DeviceDeath(d) /\ d \in Session!Devices BY <2>5, DeviceDeathMaps, SameDevices
      <3> QED BY <3>1 DEF Session!Next
    <2>6. ASSUME NEW d \in Owners, NEW v \in Values, NEW changed,
                 PublishData(d, changed, v)
          PROVE  Session!Next
      <3>1. Session!NodeData \/ \E e \in Session!Devices : Session!DeviceData(e)
        BY <2>6, PublishDataMaps
      <3> QED BY <3>1 DEF Session!Next
    <2>7. ASSUME NEW command, NodeCommand(command) PROVE Session!Next
      BY <2>7, NodeCommandMaps DEF Session!Next
    <2>8. CASE Publish BY <2>8, PublishMaps DEF Session!Next
    <2>9. CASE Drop BY <2>9, DropMaps DEF Session!Next
    <2>10. CASE Tick BY <2>10, StutterMaps
    <2> QED BY <1>1, <2>1, <2>2, <2>3, <2>4, <2>5, <2>6, <2>7, <2>8, <2>9, <2>10, Steps
  <1>2. CASE UNCHANGED vars BY <1>2, StutterMaps
  <1> QED BY <1>1, <1>2

\* The edge node with its metrics, aliases and instants implements the session that
\* leaves them out, whatever the caller does: what the session promises of its
\* counters, its deaths and its stream holds of the messages as they travel.
THEOREM ImplementsAbstractSession == Spec => ImplementsSession
  <1>1. WireInv /\ [Next]_vars => [Session!Next]_(Session!vars) BY StepMaps
  <1> QED BY <1>1, InitMaps, WireInvariance, PTL DEF Spec, ImplementsSession, Session!Spec

-----------------------------------------------------------------------------
(* What is proved of the session holds of the messages.                    *)

\* The session of the refinement and the one of the proofs have the same steps.
LEMMA SameSession ==
    /\ Session!Init => Proved!Init
    /\ [Session!Next]_(Session!vars) => [Proved!Next]_(Proved!vars)
  <1>1. Session!Init => Proved!Init
    BY DEF Session!Init, Proved!Init, Session!NoWill, Proved!NoWill, Session!Dead, Proved!Dead
  <1>2. Session!Idle <=> Proved!Idle BY DEF Session!Idle, Proved!Idle
  <1>3. Session!NoWill = Proved!NoWill BY DEF Session!NoWill, Proved!NoWill
  <1>4. Session!Devices = Proved!Devices BY DEF Session!Devices, Proved!Devices
  <1>5. \A t, d : Session!HandBack(t, d) <=> Proved!HandBack(t, d)
    BY DEF Session!HandBack, Proved!HandBack, Session!message, Proved!message, Session!next_seq, Proved!next_seq
  <1>6. Session!NoDevice = Proved!NoDevice BY DEF Session!NoDevice, Proved!NoDevice
  <1>7. \A b : Session!Death(b) = Proved!Death(b)
    BY <1>3, <1>6 DEF Session!Death, Proved!Death
  <1>8. \A v, m : Session!Observe(v, m) = Proved!Observe(v, m)
    BY DEF Session!Observe, Proved!Observe, Session!Dead, Proved!Dead
  <1>9. \A b : Session!BirthMessages(b) = Proved!BirthMessages(b)
    BY DEF Session!BirthMessages, Proved!BirthMessages
  <1>10. Session!Connect => Proved!Connect BY <1>2, <1>3 DEF Session!Connect, Proved!Connect
  <1>11. Session!Disconnect => Proved!Disconnect
    BY <1>2, <1>7 DEF Session!Disconnect, Proved!Disconnect
  <1>12. Session!NodeBirth => Proved!NodeBirth
    BY <1>2, <1>5, <1>6 DEF Session!NodeBirth, Proved!NodeBirth
  <1>13. (Session!require_all_born <=> Proved!require_all_born)
    BY <1>4 DEF Session!require_all_born, Proved!require_all_born
  <1>14. Session!NodeData => Proved!NodeData
    BY <1>2, <1>5, <1>6, <1>13 DEF Session!NodeData, Proved!NodeData
  <1>15. Session!Rebirth => Proved!Rebirth
    BY <1>2, <1>4, <1>9 DEF Session!Rebirth, Proved!Rebirth
  <1>16. \A d : Session!DeviceBirth(d) => Proved!DeviceBirth(d)
    BY <1>2, <1>5 DEF Session!DeviceBirth, Proved!DeviceBirth
  <1>17. \A d : Session!DeviceData(d) => Proved!DeviceData(d)
    BY <1>2, <1>5, <1>13 DEF Session!DeviceData, Proved!DeviceData
  <1>18. \A d : Session!DeviceDeath(d) => Proved!DeviceDeath(d)
    BY <1>2, <1>5 DEF Session!DeviceDeath, Proved!DeviceDeath
  <1>19. Session!session_vars = Proved!session_vars BY DEF Session!session_vars, Proved!session_vars
  <1>20. Session!Publish => Proved!Publish
    BY <1>3, <1>8 DEF Session!Publish, Proved!Publish, Session!session_vars, Proved!session_vars
  <1>21. Session!Drop => Proved!Drop
    BY <1>3, <1>7, <1>8 DEF Session!Drop, Proved!Drop, Session!session_vars, Proved!session_vars
  <1>22. Session!Next => Proved!Next
    BY <1>4, <1>10, <1>11, <1>12, <1>14, <1>15, <1>16, <1>17, <1>18, <1>20, <1>21
       DEF Session!Next, Proved!Next
  <1>23. UNCHANGED Session!vars => UNCHANGED Proved!vars
    BY DEF Session!vars, Proved!vars, Session!session_vars, Proved!session_vars
  <1> QED BY <1>1, <1>22, <1>23

\* An orderly caller: everything EdgeNodeSessionProofs shows of a session.
THEOREM SessionInvariance == ASSUME Orderly PROVE Spec => []Proved!IInv
  <1>1. Session!Spec => Proved!Spec BY SameSession, PTL DEF Session!Spec, Proved!Spec
  <1>2. Spec => Session!Spec BY ImplementsAbstractSession DEF ImplementsSession
  <1>3. Proved!Spec => []Proved!IInv BY SessionAssumption, Proved!Invariance
  <1> QED BY <1>1, <1>2, <1>3, PTL

\* The message at the head of the wire can be read with the births the subscriber
\* holds.
LEMMA HeadReadable ==
    ASSUME WireInv, Proved!IInv, outbox # <<>>, will # NoWill
    PROVE  /\ Head(outbox).type = "NDATA" => host.alive
           /\ Head(outbox).type = "DDATA" => Head(outbox).device \in host.born
  <1> DEFINE m == Head(outbox)
  <1>1. Proved!DataReadable
    BY SessionAssumption, Proved!StreamInvIsStream DEF Proved!IInv
  <1>2. outbox \in Seq(Sent(s.bdseq, ticks)) BY DEF WireInv
  <1>3. Wired # <<>> /\ Head(Wired) = Shown(m, s.bdseq) BY <1>2, WiredIs, WireOfIs
  <1>4. WillShown # Proved!NoWill BY WillShownIs DEF Proved!NoWill
  <1>5. Proved!Arriving = Wired BY <1>4 DEF Proved!Arriving, Wired, WillShown
  <1>6. ~Proved!Unreadable(ViewShown, Head(Wired))
    <2>1. Proved!DataReadable =>
             (Proved!Arriving # <<>> => ~Proved!Unreadable(ViewShown, Head(Proved!Arriving)))
      BY DEF Proved!DataReadable, ViewShown
    <2> QED BY <1>1, <1>3, <1>5, <2>1
  <1> QED BY <1>3, <1>6 DEF Proved!Unreadable, ViewShown, Shown

\* What the book says of an alias is what the alias stands for, never the rebirth
\* command.
LEMMA BookSays ==
    ASSUME NEW book, BookOK(book), NEW a \in DOMAIN book
    PROVE  book[a] = KeyOf(Node, a) /\ book[a] # RebirthCommand
  <1>1. PICK k \in AliasKeys(Node) \ {RebirthCommand} : a = AliasAt[k] /\ book[a] = k BY DEF BookOK
  <1> QED BY <1>1, NodeAliases

\* With an orderly caller, a subscriber that knows the births resolves the aliases of
\* a data message to the metrics the caller named, whichever births, rebirths, deaths
\* and reconnections it has lived through, save the rebirth command: that one's
\* alias, which no birth declares, is the only one it can meet and not know.
THEOREM AliasesResolve == ASSUME Orderly PROVE Spec => []DataResolves
  <1>1. WireInv /\ Proved!IInv => DataResolves
    <2> SUFFICES ASSUME WireInv, Proved!IInv, Arriving # <<>>,
                        Head(Arriving).type \in {"NDATA", "DDATA"}
                 PROVE  LET m == Head(Arriving)
                            known == {i \in DOMAIN m.metrics : m.metrics[i].alias \in DOMAIN host.book}
                        IN  /\ {host.book[m.metrics[i].alias] : i \in known} = meant \ {RebirthCommand}
                            /\ \A i \in DOMAIN m.metrics \ known :
                                  KeyOf(Node, m.metrics[i].alias) = RebirthCommand
      BY DEF DataResolves
    <2> DEFINE m == Head(outbox)
               known == {i \in DOMAIN m.metrics : m.metrics[i].alias \in DOMAIN host.book}
               key(i) == KeyOf(Node, m.metrics[i].alias)
    <2>1. will # NoWill /\ Arriving = outbox /\ outbox # <<>> BY DEF Arriving
    <2>2. m.type \in DataKinds BY <2>1 DEF DataKinds
    <2>3. /\ Shape(m, s.bdseq) /\ m = outbox[1] /\ 1 \in DOMAIN outbox
      BY <2>1, HeadOf
    <2>4. /\ m.type = "NDATA" => host.alive
          /\ m.type = "DDATA" => m.device \in host.born
      BY <2>1, HeadReadable
    <2>5. meant = {key(i) : i \in DOMAIN m.metrics}
      BY <2>2, <2>3 DEF WireInv, MeantInv, KeysOf
    <2>6. HostInv(host) BY DEF WireInv
    <2> HIDE DEF m
    <2>7. PICK names : Told(m, names) BY <2>2, <2>3 DEF Shape, BirthKinds, DataKinds
    <2>8. ASSUME NEW i \in DOMAIN m.metrics, m.metrics[i].alias \notin DOMAIN host.book
          PROVE  key(i) = RebirthCommand
      <3>1. /\ m.device \in Owners /\ names[i] \in NamesOf(m.device)
            /\ m.metrics[i].alias = AliasAt[<<m.device, names[i]>>]
        BY <2>7 DEF Told, Keyed
      <3>2. m.type # "DDATA" BY <2>4, <2>6, <2>8, <3>1 DEF HostInv
      <3>3. m.type = "NDATA" /\ m.device = NodeItself
        BY <2>2, <2>3, <3>2 DEF Shape, DataKinds
      <3>4. names[i] = REBIRTH_METRIC BY <2>4, <2>6, <2>8, <3>1, <3>3 DEF HostInv
      <3>5. key(i) = <<m.device, names[i]>> BY <3>1, NodeAliases
      <3> QED BY <3>3, <3>4, <3>5 DEF RebirthCommand
    <2>9. ASSUME NEW i \in known
          PROVE  host.book[m.metrics[i].alias] = key(i) /\ key(i) # RebirthCommand
      BY <2>6, BookSays DEF HostInv
    <2>10. {host.book[m.metrics[i].alias] : i \in known} = {key(i) : i \in known} BY <2>9
    <2>11. {key(i) : i \in known} = {key(i) : i \in DOMAIN m.metrics} \ {RebirthCommand}
      <3>1. \A i \in DOMAIN m.metrics : i \in known \/ key(i) = RebirthCommand BY <2>8
      <3>2. \A i \in known : i \in DOMAIN m.metrics /\ key(i) # RebirthCommand BY <2>9
      <3> HIDE DEF known, key
      <3> QED BY <3>1, <3>2
    <2> QED BY <2>1, <2>5, <2>8, <2>10, <2>11 DEF m
  <1> QED BY <1>1, WireInvariance, SessionInvariance, PTL

-----------------------------------------------------------------------------
(* The assertions of the runner, of every message of every session.        *)

\* The topic, the delivery flags and the instant that the assertions ask for.
Addressed(m) ==
    /\ topic_is(m, IF m.device = NodeItself THEN NodeTopic(m.type) ELSE DeviceTopic(m.type, m.device))
    /\ published_delivery(m, IF m.type = "NDEATH" THEN 1 ELSE 0, FALSE)
    /\ utc_timestamp(m.ts)

\* Appending is concatenating with one element; nothing concatenated adds nothing.
LEMMA Levels ==
    ASSUME NEW S, NEW q \in Seq(S), NEW e \in S
    PROVE  q \o <<e>> = Append(q, e) /\ q \o <<>> = q
  OBVIOUS

\* topic_for() gives a message of the node the node's form and one of a device the
\* device's form.
LEMMA TopicsAre ==
    /\ \A type \in {"NBIRTH", "NDATA", "NDEATH"} :
          topic_for(Group, EdgeNode, type, "") = NodeTopic(type)
    /\ \A type \in {"DBIRTH", "DDATA", "DDEATH"}, d \in Devices :
          topic_for(Group, EdgeNode, type, Node.ids[d]) = DeviceTopic(type, d)
  <1>1. ASSUME NEW type \in {"NBIRTH", "NDATA", "NDEATH"}
        PROVE  topic_for(Group, EdgeNode, type, "") = NodeTopic(type)
    <2> DEFINE q == <<"spBv1.0", Group, type, EdgeNode>>
               S == {"spBv1.0", Group, type, EdgeNode}
    <2>1. topic_for(Group, EdgeNode, type, "") = q \o <<>>
      BY DEF topic_for, DEVICE_MESSAGE_TYPES
    <2>2. q \in Seq(S) /\ Group \in S OBVIOUS
    <2>3. q \o <<>> = q
      <3> HIDE DEF q, S
      <3> QED BY <2>2, Levels
    <2> QED BY <2>1, <2>3 DEF NodeTopic
  <1>2. ASSUME NEW type \in {"DBIRTH", "DDATA", "DDEATH"}, NEW d \in Devices
        PROVE  topic_for(Group, EdgeNode, type, Node.ids[d]) = DeviceTopic(type, d)
    <2> DEFINE e == Node.ids[d]
               q == <<"spBv1.0", Group, type, EdgeNode>>
               S == {"spBv1.0", Group, type, EdgeNode, e}
    <2>1. e \in {"conveyor-02", "portal-03"} BY Fixture DEF Node
    <2>2. q \in Seq(S) /\ e \in S OBVIOUS
    <2> HIDE DEF e
    <2>3. e # "" /\ IsIdentifier(e) BY <2>1 DEF IsIdentifier, NotIdentifiers
    <2>4. topic_for(Group, EdgeNode, type, e) = q \o <<e>>
      BY <2>3 DEF topic_for, DEVICE_MESSAGE_TYPES
    <2>5. q \o <<e>> = Append(q, e)
      <3> HIDE DEF q, S
      <3> QED BY <2>2, Levels
    <2> QED BY <2>4, <2>5 DEF DeviceTopic, NodeTopic, e
  <1> QED BY <1>1, <1>2

\* The instants of the simulated clock are past the floor the assertion sets.
LEMMA Instants ==
    ASSUME NEW t \in Nat
    PROVE  Now(Node, t) \in Nat /\ utc_timestamp(Now(Node, t))
  <1>1. ASSUME NEW a \in Nat, NEW k \in Nat \ {0} PROVE a \div k \in Nat OBVIOUS
  <1>2. t * 1000 \in Nat OBVIOUS
  <1>3. (t * 1000) \div TickHz \in Nat BY <1>1, <1>2, MessageAssumption
  <1>4. Node.epoch = EPOCH_MS BY DEF Node
  <1> QED BY <1>3, <1>4, EpochAssumption DEF Now, utc_timestamp

\* _message() addresses what the session hands back.
LEMMA MessagesAddressed ==
    ASSUME NEW m, NEW type, NEW d \in Owners, NEW q, NEW ms, NEW t \in Nat,
           MessageIs(m, type, d, q, ms, t),
           \/ d = NodeItself /\ type \in {"NBIRTH", "NDATA", "NDEATH"}
           \/ d \in Devices /\ type \in {"DBIRTH", "DDATA", "DDEATH"}
    PROVE  Addressed(m)
  <1>1. /\ m.type = type /\ m.device = d /\ m.ts = Now(Node, t)
        /\ m.qos = QosByTopicClass[type].qos /\ m.retain = QosByTopicClass[type].retain
        /\ m.topic = topic_for(Group, EdgeNode, type, IF d = NodeItself THEN "" ELSE Node.ids[d])
    BY DEF MessageIs
  <1>2. topic_is(m, IF d = NodeItself THEN NodeTopic(type) ELSE DeviceTopic(type, d))
    <2>1. CASE d = NodeItself
      <3>1. type \in {"NBIRTH", "NDATA", "NDEATH"} BY <2>1, Fixture
      <3> QED BY <1>1, <2>1, <3>1, TopicsAre DEF topic_is
    <2>2. CASE d # NodeItself BY <1>1, <2>2, TopicsAre DEF topic_is
    <2> QED BY <2>1, <2>2
  <1>3. published_delivery(m, IF type = "NDEATH" THEN 1 ELSE 0, FALSE)
    <2>1. type \in MessageTypes /\ type # "STATE" BY DEF MessageTypes
    <2>2. CASE type = "NDEATH"
      <3>1. QosByTopicClass[type] = [qos |-> 1, retain |-> FALSE]
        BY <2>1, <2>2 DEF QosByTopicClass
      <3>2. QosByTopicClass[type].qos = 1 /\ QosByTopicClass[type].retain = FALSE BY <3>1
      <3>3. published_qos(m, 1) BY <1>1, <3>2 DEF published_qos
      <3>4. published_retain(m, FALSE) BY <1>1, <3>2, Zenon DEF published_retain
      <3> QED BY <2>2, <3>3, <3>4 DEF published_delivery
    <2>3. CASE type # "NDEATH"
      <3>1. QosByTopicClass[type] = [qos |-> 0, retain |-> FALSE]
        BY <2>1, <2>3 DEF QosByTopicClass
      <3>2. QosByTopicClass[type].qos = 0 /\ QosByTopicClass[type].retain = FALSE BY <3>1
      <3>3. published_qos(m, 0) BY <1>1, <3>2 DEF published_qos
      <3>4. published_retain(m, FALSE) BY <1>1, <3>2, Zenon DEF published_retain
      <3> QED BY <2>3, <3>3, <3>4 DEF published_delivery
    <2> QED BY <2>2, <2>3
  <1>4. utc_timestamp(m.ts) BY <1>1, Instants
  <1> QED BY <1>1, <1>2, <1>3, <1>4 DEF Addressed

\* Metrics of one instant are in the order of their instants.
LEMMA OneInstant ==
    ASSUME NEW m, NEW t \in Nat, \A i \in DOMAIN m.metrics : m.metrics[i].ts = Now(Node, t)
    PROVE  Chronological(m)
  <1>1. Now(Node, t) <= Now(Node, t) BY Instants
  <1> QED BY <1>1 DEF Chronological

\* The metrics of a birth have names, and aliases but for the rebirth command.
LEMMA BirthsNamed ==
    ASSUME NEW m, NEW names, Declares(m, names)
    PROVE  NamedAndAliased(m)
  <1>1. ASSUME NEW i \in DOMAIN m.metrics
        PROVE  \/ m.metrics[i].name = REBIRTH_METRIC
               \/ m.metrics[i].name # Absent /\ m.metrics[i].alias # Absent
    <2>1. /\ i \in DOMAIN names /\ m.device \in Owners /\ names[i] \in NamesOf(m.device)
          /\ m.metrics[i].name = names[i] /\ m.metrics[i].alias = Carried(m.device, names[i])
      BY DEF Declares, Keyed
    <2>2. names[i] \in Nat BY <2>1, FixtureKeys
    <2>3. names[i] # REBIRTH_METRIC => Carried(m.device, names[i]) # Absent BY <2>1, CarriedIs
    <2> QED BY <2>1, <2>2, <2>3 DEF Absent
  <1> QED BY <1>1 DEF NamedAndAliased, every_metric

\* The session a frame is made of is one of those the frames are.
LEMMA FramesHold ==
    ASSUME NEW q \in Counts, NEW b \in Counts, NEW t \in 0..MaxTicks
    PROVE  /\ NodeBirthMessage(Node, At(q, b), t) \in Frames
           /\ DeathMessage(Node, At(q, b), t) \in Frames
           /\ \A d \in Devices : /\ DeviceBirthMessage(Node, At(q, b), d, t) \in Frames
                                 /\ DeviceDeathMessage(Node, At(q, b), d, t) \in Frames
  <1> DEFINE sessions == {At(k, c) : k, c \in Counts}
             x == At(q, b)
  <1>1. x \in sessions OBVIOUS
  <1>2. Frames = {NodeBirthMessage(Node, y, i) : y \in sessions, i \in 0..MaxTicks}
                 \cup {DeathMessage(Node, y, i) : y \in sessions, i \in 0..MaxTicks}
                 \cup {DeviceBirthMessage(Node, y, d, i) :
                         y \in sessions, d \in Devices, i \in 0..MaxTicks}
                 \cup {DeviceDeathMessage(Node, y, d, i) :
                         y \in sessions, d \in Devices, i \in 0..MaxTicks}
    BY DEF Frames, FramesOf, Counts, Devices, At
  <1> HIDE DEF sessions, x
  <1>3. NodeBirthMessage(Node, x, t) \in Frames BY <1>1, <1>2
  <1>4. DeathMessage(Node, x, t) \in Frames BY <1>1, <1>2
  <1>5. ASSUME NEW d \in Devices PROVE DeviceBirthMessage(Node, x, d, t) \in Frames
    BY <1>1, <1>2
  <1>6. ASSUME NEW d \in Devices PROVE DeviceDeathMessage(Node, x, d, t) \in Frames
    BY <1>1, <1>2
  <1> QED BY <1>3, <1>4, <1>5, <1>6 DEF x

\* What is left of the assertions once the address is right.
Says(m) ==
    /\ Chronological(m)
    /\ IF m.type = "NDEATH" THEN m.seq = Absent ELSE seq_present(m)
    /\ m.type = "NBIRTH" => m.seq = 0 /\ bdseq_datatype(m)
    /\ m.type \in {"NBIRTH", "DBIRTH"} => NamedAndAliased(m)
    /\ IF m.type \in {"NDATA", "DDATA"} THEN AliasedOnly(m) ELSE m \in Frames

\* A number of the counter is present.
LEMMA NumberPresent ==
    ASSUME NEW m, m.seq \in Counts
    PROVE  seq_present(m)
  BY MessageAssumption DEF seq_present, Absent, Counts

\* The births and the deaths.
LEMMA CertificatesConform ==
    ASSUME NEW b \in Counts, NEW t \in 0..MaxTicks, NEW m, m.type = "NBIRTH" => m.seq = 0,
           \/ m \in NodeBirths(b, t) \cup NodeDeaths(b, t)
           \/ m \in DeviceBirths(b, t) \cup DeviceDeaths(b, t)
    PROVE  Addressed(m) /\ Says(m)
  <1>0. t \in Nat /\ NodeItself \in Owners /\ \A d \in Devices : d \in Owners
    BY BoundAssumption DEF Owners
  <1>1. CASE m \in NodeBirths(b, t)
    <2>1. PICK q \in Counts : m = NodeBirthMessage(Node, At(q, b), t) BY <1>1 DEF NodeBirths
    <2> DEFINE x == At(q, b)
               ms == BirthMetrics(Node, x, NodeItself, t)
    <2>2. MessageIs(m, "NBIRTH", NodeItself, x.seq, ms, t)
      BY <2>1, MessageFields DEF NodeBirthMessage
    <2>3. /\ m.type = "NBIRTH" /\ m.device = NodeItself /\ m.seq = x.seq
          /\ Declares(m, InByteOrder(NamesOf(NodeItself))) /\ bdseq_datatype(m)
      BY <2>1, BirthCarriesBdSeq
    <2>4. /\ DOMAIN ms = DOMAIN InByteOrder(NamesOf(NodeItself))
          /\ \A i \in DOMAIN InByteOrder(NamesOf(NodeItself)) : ms[i].ts = Now(Node, t)
      BY <1>0, BirthMetricsAre
    <2>5. x.seq = q BY AtFields
    <2>6. m \in Frames BY <2>1, FramesHold
    <2> HIDE DEF x, ms
    <2>7. m.metrics = ms BY <2>2 DEF MessageIs
    <2>8. Addressed(m) BY <1>0, <2>2, MessagesAddressed
    <2>9. Chronological(m) BY <1>0, <2>4, <2>7, OneInstant
    <2>10. seq_present(m) BY <2>3, <2>5, NumberPresent
    <2>11. NamedAndAliased(m) BY <2>3, BirthsNamed
    <2> QED BY <2>3, <2>6, <2>8, <2>9, <2>10, <2>11 DEF Says
  <1>2. CASE m \in NodeDeaths(b, t)
    <2>1. PICK q \in Counts : m = DeathMessage(Node, At(q, b), t) BY <1>2 DEF NodeDeaths
    <2> DEFINE x == At(q, b)
               ms == <<BdSeqMetric(Node, x, t)>>
    <2>2. MessageIs(m, "NDEATH", NodeItself, Absent, ms, t)
      BY <2>1, MessageFields DEF DeathMessage
    <2>3. /\ m.type = "NDEATH" /\ m.seq = Absent
          /\ \A i \in DOMAIN m.metrics : m.metrics[i].ts = Now(Node, t)
      BY <2>1, DeathCarriesBdSeq
    <2>4. m \in Frames BY <2>1, FramesHold
    <2> HIDE DEF x, ms
    <2>5. Addressed(m) BY <1>0, <2>2, MessagesAddressed
    <2>6. Chronological(m) BY <1>0, <2>3, OneInstant
    <2> QED BY <2>3, <2>4, <2>5, <2>6 DEF Says
  <1>3. CASE m \in DeviceBirths(b, t)
    <2>1. PICK q \in Counts, d \in Devices : m = DeviceBirthMessage(Node, At(q, b), d, t)
      BY <1>3 DEF DeviceBirths
    <2> DEFINE x == At(q, b)
               ms == BirthMetrics(Node, x, d, t)
    <2>2. MessageIs(m, "DBIRTH", d, x.seq, ms, t)
      BY <2>1, MessageFields DEF DeviceBirthMessage
    <2>3. m.type = "DBIRTH" /\ m.seq = x.seq /\ Declares(m, InByteOrder(NamesOf(d)))
      BY <2>1, DeviceBirthDeclares DEF DeviceBirthIs
    <2>4. /\ DOMAIN ms = DOMAIN InByteOrder(NamesOf(d))
          /\ \A i \in DOMAIN InByteOrder(NamesOf(d)) : ms[i].ts = Now(Node, t)
      BY <1>0, BirthMetricsAre
    <2>5. x.seq = q BY AtFields
    <2>6. m \in Frames BY <2>1, FramesHold
    <2> HIDE DEF x, ms
    <2>7. m.metrics = ms BY <2>2 DEF MessageIs
    <2>8. Addressed(m) BY <1>0, <2>2, MessagesAddressed
    <2>9. Chronological(m) BY <1>0, <2>4, <2>7, OneInstant
    <2>10. seq_present(m) BY <2>3, <2>5, NumberPresent
    <2>11. NamedAndAliased(m) BY <2>3, BirthsNamed
    <2> QED BY <2>3, <2>6, <2>8, <2>9, <2>10, <2>11 DEF Says
  <1>4. CASE m \in DeviceDeaths(b, t)
    <2>1. PICK q \in Counts, d \in Devices : m = DeviceDeathMessage(Node, At(q, b), d, t)
      BY <1>4 DEF DeviceDeaths
    <2> DEFINE x == At(q, b)
    <2>2. MessageIs(m, "DDEATH", d, x.seq, <<>>, t)
      BY <2>1, MessageFields DEF DeviceDeathMessage
    <2>3. x.seq = q BY AtFields
    <2>4. m \in Frames BY <2>1, FramesHold
    <2> HIDE DEF x
    <2>5. m.type = "DDEATH" /\ m.seq = x.seq /\ m.metrics = <<>> BY <2>2 DEF MessageIs
    <2>6. Addressed(m) BY <1>0, <2>2, MessagesAddressed
    <2>7. Chronological(m) BY <2>5 DEF Chronological
    <2>8. seq_present(m) BY <2>3, <2>5, NumberPresent
    <2> QED BY <2>4, <2>5, <2>6, <2>7, <2>8 DEF Says
  <1> QED BY <1>1, <1>2, <1>3, <1>4

\* The data.
LEMMA DataConform ==
    ASSUME NEW b \in Counts, NEW t \in 0..MaxTicks, NEW m \in DataMessages(b, t)
    PROVE  Addressed(m) /\ Says(m)
  <1>0. t \in Nat BY BoundAssumption
  <1>1. PICK d \in Owners : \E q \in Counts, changed \in SUBSET NamesOf(d), v \in Values :
                               m = DataMessage(Node, At(q, b), d, changed, v, t)
    BY DEF DataMessages
  <1>2. PICK q \in Counts, changed \in SUBSET NamesOf(d), v \in Values :
               m = DataMessage(Node, At(q, b), d, changed, v, t)
    BY <1>1
  <1> DEFINE x == At(q, b)
             type == IF d = NodeItself THEN "NDATA" ELSE "DDATA"
             names == InByteOrder(changed)
             ms == DataMetrics(Node, d, changed, v, t)
  <1>3. MessageIs(m, type, d, x.seq, ms, t) BY <1>2, MessageFields DEF DataMessage
  <1>4. DataIs(m, d, names, changed, x.seq, t) BY <1>2, DataIsKeyed
  <1>5. x.seq = q BY AtFields
  <1>6. \/ d = NodeItself /\ type = "NDATA"
        \/ d \in Devices /\ type = "DDATA"
    BY Fixture DEF Owners
  <1> HIDE DEF x, names, ms, type
  <1>7. m.type = type /\ m.seq = x.seq BY <1>3 DEF MessageIs
  <1>8. \A i \in DOMAIN m.metrics : /\ m.metrics[i].ts = Now(Node, t)
                                    /\ m.metrics[i].name = Absent /\ m.metrics[i].alias # Absent
    <2>1. Told(m, names) /\ \A i \in DOMAIN names : /\ m.metrics[i].name = Absent
                                                   /\ m.metrics[i].ts = Now(Node, t)
      BY <1>4 DEF DataIs
    <2>2. \A i \in DOMAIN names : /\ m.metrics[i].alias = AliasAt[<<m.device, names[i]>>]
                                  /\ <<m.device, names[i]>> \in AliasKeys(Node)
      BY <2>1, NodeAliases DEF Told, Keyed
    <2>3. DOMAIN m.metrics = DOMAIN names BY <2>1 DEF Told, Keyed
    <2> QED BY <2>1, <2>2, <2>3, NodeAliases
  <1>9. Addressed(m) BY <1>0, <1>3, <1>6, MessagesAddressed
  <1>10. Chronological(m) BY <1>0, <1>8, OneInstant
  <1>11. seq_present(m) BY <1>5, <1>7, NumberPresent
  <1>12. AliasedOnly(m) BY <1>8 DEF AliasedOnly, every_metric
  <1> QED BY <1>6, <1>7, <1>9, <1>10, <1>11, <1>12 DEF Says

\* What the conformance runner establishes for the one session it plays holds of
\* every message of every session of an orderly caller: no order of calls, no
\* rebirth, no wrap of a counter and no instant hands back one that the assertions
\* refuse.
THEOREM EveryFrameConforms == ASSUME Orderly PROVE Spec => []FramesConform
  <1>1. WireInv /\ Proved!BirthInv => FramesConform
    <2> SUFFICES ASSUME WireInv, Proved!BirthInv, NEW i \in DOMAIN outbox
                 PROVE  Conforms(outbox[i])
      BY DEF FramesConform
    <2> DEFINE m == outbox[i]
               b == s.bdseq
    <2>1. m \in Sent(b, ticks) /\ outbox # <<>> BY DEF WireInv
    <2>2. b \in Counts /\ ticks \in 0..MaxTicks BY <2>1 DEF WireInv
    <2>3. m.type = "NBIRTH" => m.seq = 0
      <3>1. \A j \in DOMAIN Wired : Wired[j].type = "NBIRTH" => Wired[j].seq = 0
        BY DEF Proved!BirthInv, Wired
      <3>2. i \in DOMAIN Wired /\ Wired[i] = Abstract(outbox[i]) BY DEF Wired
      <3> QED BY <3>1, <3>2 DEF Abstract
    <2> HIDE DEF m, b
    <2>4. Addressed(m) /\ Says(m)
      <3>1. CASE m \in DataMessages(b, ticks) BY <2>2, <3>1, DataConform
      <3>2. CASE m \notin DataMessages(b, ticks)
        BY <2>1, <2>2, <2>3, <3>2, CertificatesConform DEF Sent
      <3> QED BY <3>1, <3>2
    <2>5. Conforms(m) BY <2>4 DEF Addressed, Says, Conforms
    <2> QED BY <2>5 DEF m
  <1>2. Session!Spec => Proved!Spec BY SameSession, PTL DEF Session!Spec, Proved!Spec
  <1>3. Spec => Session!Spec BY ImplementsAbstractSession DEF ImplementsSession
  <1>4. Proved!Spec => []Proved!BirthInv BY SessionAssumption, Proved!BirthsOpenAtZero
  <1> QED BY <1>1, <1>2, <1>3, <1>4, WireInvariance, PTL
=============================================================================
