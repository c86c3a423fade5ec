--------------------------- MODULE HistorianProofs ---------------------------
(***************************************************************************)
(* Theorems about Historian, for any number of producers, any skew of      *)
(* their clocks, any number of restarts and any page size.                 *)
(***************************************************************************)
EXTENDS Historian, FiniteSetTheorems, TLAPS

\* Adding an event at the end of a log.
LEMMA AppendFacts ==
    ASSUME NEW S, NEW q \in Seq(S), NEW e \in S
    PROVE  /\ Append(q, e) \in Seq(S)
           /\ Len(q) \in Nat /\ Len(Append(q, e)) = Len(q) + 1
           /\ DOMAIN q = 1..Len(q) /\ DOMAIN Append(q, e) = 1..Len(q)+1
           /\ \A i \in 1..Len(q) : Append(q, e)[i] = q[i]
           /\ Append(q, e)[Len(q) + 1] = e
  OBVIOUS

\* What is recorded after append() is what was recorded before it, and the event.
LEMMA RangeAppend ==
    ASSUME NEW S, NEW q \in Seq(S), NEW e \in S
    PROVE  Range(Append(q, e)) = Range(q) \cup {e}
  BY AppendFacts DEF Range

\* The fields of an event, and the types of its id and of its key.
LEMMA EventTypes ==
    ASSUME NEW e \in Event
    PROVE  /\ e.run \in Runs /\ e.producer \in Producers /\ e.seq \in SeqNumbers /\ e.ts \in Nat
           /\ e.producer \in Nat /\ e.seq \in Nat
           /\ id(e) \in Id /\ total_order_key(e) \in Int \X Nat \X Nat
  <1>1. e.run \in Runs /\ e.producer \in Producers /\ e.seq \in SeqNumbers /\ e.ts \in Nat
    BY DEF Event
  <1>2. e.producer \in Nat /\ e.seq \in Nat /\ e.ts \in Int
    BY <1>1, HistorianAssumption DEF Producers, SeqNumbers
  <1> QED BY <1>1, <1>2 DEF id, Id, total_order_key

\* Producer and sequence number of events with the same id are the same.
LEMMA IdInjective ==
    ASSUME NEW e, NEW f, id(e) = id(f)
    PROVE  e.producer = f.producer /\ e.seq = f.seq
  BY DEF id
-----------------------------------------------------------------------------
(* The order of tuples.                                                    *)

\* Before is irreflexive and asymmetric on keys.
LEMMA BeforeStrict ==
    ASSUME NEW k \in Int \X Nat \X Nat, NEW l \in Int \X Nat \X Nat, Before(k, l)
    PROVE  ~Before(l, k) /\ k # l
  BY DEF Before

\* Before is transitive on keys.
LEMMA BeforeTransitive ==
    ASSUME NEW k \in Int \X Nat \X Nat, NEW l \in Int \X Nat \X Nat, NEW m \in Int \X Nat \X Nat,
           Before(k, l), Before(l, m)
    PROVE  Before(k, m)
  BY DEF Before
-----------------------------------------------------------------------------
(* Types.                                                                  *)

\* Whatever is recorded is an event.
LEMMA RecordedTypes ==
    ASSUME TypeOK
    PROVE  /\ Recorded \subseteq Event /\ read(since) \subseteq Recorded
           /\ selected \subseteq Recorded /\ IsFiniteSet(selected)
           /\ DOMAIN events = 1..Len(events) /\ Len(events) \in Nat
           /\ \A i \in DOMAIN events : events[i] \in Event /\ events[i] \in Recorded
           /\ \A e \in Recorded : \E i \in DOMAIN events : events[i] = e
  <1>1. /\ events \in Seq(Event) /\ DOMAIN events = 1..Len(events) /\ Len(events) \in Nat
        /\ \A i \in DOMAIN events : events[i] \in Event
    BY DEF TypeOK
  <1>2. /\ \A i \in DOMAIN events : events[i] \in Recorded
        /\ \A e \in Recorded : \E i \in DOMAIN events : events[i] = e
    BY DEF Recorded, Range
  <1>3. selected \subseteq Recorded /\ read(since) \subseteq Recorded
    BY DEF selected, read
  <1>4. events \in Surjection(1..Len(events), Recorded)
    BY <1>1, <1>2 DEF Surjection
  <1>5. IsFiniteSet(1..Len(events))
    BY <1>1, FS_Interval
  <1>6. IsFiniteSet(Recorded)
    BY <1>4, <1>5, FS_Surjection
  <1>7. IsFiniteSet(selected)
    BY <1>3, <1>6, FS_Subset
  <1> QED BY <1>1, <1>2, <1>3, <1>7

\* The types of the producers, of the historian and of the client.
ProducerType ==
    /\ sent \subseteq Event /\ restarts \in Nat
    /\ seq \in [Producers -> Nat] /\ stamp \in [Producers -> Nat]

HistorianType ==
    /\ events \in Seq(Event) /\ sealed \in BOOLEAN
    /\ received \in [Id -> Nat \cup {NoInstant}]
    /\ next_seq \in [Producers -> 0..MaxSeq]
    /\ sidecar.event_count \in Nat

ClientType ==
    /\ cursor \in Int \X Nat \X Nat /\ since \in Nat
    /\ existing \subseteq Recorded /\ seen \subseteq Recorded
    /\ walking \in BOOLEAN /\ walks \in Nat

\* TypeOK by parts, before and after a step.
LEMMA TypeParts ==
    /\ TypeOK => clock \in Nat /\ ProducerType /\ HistorianType /\ ClientType
    /\ clock' \in Nat /\ ProducerType' /\ HistorianType' /\ ClientType' => TypeOK'
  BY DEF TypeOK, ProducerType, HistorianType, ClientType

\* A step that leaves a part alone keeps its types.
LEMMA TypeFrame ==
    ASSUME TypeOK
    PROVE  /\ UNCHANGED producer_vars => ProducerType'
           /\ UNCHANGED historian_vars => HistorianType' /\ UNCHANGED Recorded
           /\ UNCHANGED client_vars /\ Recorded \subseteq Recorded' => ClientType'
  <1>1. UNCHANGED producer_vars => ProducerType'
    BY DEF TypeOK, ProducerType, producer_vars
  <1>2. UNCHANGED historian_vars => HistorianType' /\ UNCHANGED Recorded
    BY DEF TypeOK, HistorianType, historian_vars, Recorded
  <1>3. UNCHANGED client_vars /\ Recorded \subseteq Recorded' => ClientType'
    BY DEF TypeOK, ClientType, client_vars
  <1> QED BY <1>1, <1>2, <1>3

\* Every step keeps every variable in its type.
LEMMA TypeStep ==
    ASSUME TypeOK, [Next]_vars
    PROVE  TypeOK'
  <1> USE HistorianAssumption
  <1>1. CASE UNCHANGED vars
    BY <1>1, TypeParts, TypeFrame DEF vars
  <1>2. CASE Tick
    <2>1. clock' \in Nat BY <1>2 DEF Tick, TypeOK
    <2> QED BY <1>2, <2>1, TypeParts, TypeFrame DEF Tick
  <1>3. CASE Hash
    <2>1. UNCHANGED <<clock, producer_vars, events, received, next_seq, sealed, sidecar, client_vars>>
      BY <1>3 DEF Hash
    <2>2. HistorianType' /\ Recorded' = Recorded
      BY <2>1, TypeParts DEF HistorianType, Recorded
    <2> QED BY <2>1, <2>2, TypeParts, TypeFrame
  <1>4. CASE seal
    <2>1. /\ UNCHANGED <<clock, producer_vars, events, received, next_seq, client_vars>>
          /\ sealed' = TRUE /\ sidecar'.event_count = Len(events)
      BY <1>4 DEF seal
    <2>2. Len(events) \in Nat BY RecordedTypes
    <2>3. HistorianType' /\ Recorded' = Recorded
      BY <2>1, <2>2, TypeParts DEF HistorianType, Recorded
    <2> QED BY <2>1, <2>3, TypeParts, TypeFrame
  <1>5. ASSUME NEW p \in Producers, Restart(p) PROVE TypeOK'
    <2>1. ProducerType' BY <1>5, TypeParts DEF Restart, ProducerType
    <2> QED BY <1>5, <2>1, TypeParts, TypeFrame DEF Restart
  <1>6. ASSUME NEW p \in Producers, NEW run \in Runs, NEW ts \in 0..clock+Skew, Emit(p, run, ts)
        PROVE  TypeOK'
    <2>1. clock + Skew \in Nat
      <3>1. clock \in Nat BY DEF TypeOK
      <3>2. Skew \in Nat OBVIOUS
      <3> QED BY <3>1, <3>2
    <2>2. ts \in Nat /\ seq[p] \in Nat BY <2>1 DEF TypeOK
    <2>3. seq[p] \in SeqNumbers BY <1>6, <2>2 DEF Emit, SeqNumbers
    <2>4. [run |-> run, producer |-> p, seq |-> seq[p], ts |-> ts] \in Event
      BY <2>2, <2>3 DEF Event
    <2>5. sent' \subseteq Event BY <1>6, <2>4 DEF Emit, TypeOK
    <2>6. ProducerType' BY <1>6, <2>2, <2>5, TypeParts DEF Emit, ProducerType
    <2> QED BY <1>6, <2>6, TypeParts, TypeFrame DEF Emit
  <1>7. ASSUME NEW e \in sent, append(e) PROVE TypeOK'
    <2>1. e \in Event BY DEF TypeOK
    <2>2. e.producer \in Producers /\ e.seq \in 0..MaxSeq-1 /\ id(e) \in Id
      BY <2>1, EventTypes DEF SeqNumbers
    <2>3. e.seq = next_seq[e.producer] BY <1>7 DEF append, accepts
    <2>4. e.seq + 1 \in 0..MaxSeq BY <2>2
    <2>5. next_seq' = [next_seq EXCEPT ![e.producer] = e.seq + 1]
      BY <1>7, <2>3 DEF append, Record
    <2>6. next_seq' \in [Producers -> 0..MaxSeq]
      BY <2>4, <2>5 DEF TypeOK
    <2>7. received' \in [Id -> Nat \cup {NoInstant}]
      BY <1>7, <2>2 DEF append, Record, TypeOK
    <2>8. events' \in Seq(Event) /\ Recorded' = Recorded \cup {e}
      BY <1>7, <2>1, AppendFacts, RangeAppend DEF append, Record, TypeOK, Recorded
    <2>9. HistorianType'
      BY <1>7, <2>6, <2>7, <2>8 DEF append, HistorianType, TypeOK
    <2> QED BY <1>7, <2>8, <2>9, TypeParts, TypeFrame DEF append
  <1>8. ASSUME NEW from \in 0..MaxTime, StartWalk(from) PROVE TypeOK'
    <2>1. read(from) \subseteq Recorded /\ from \in Nat BY DEF read
    <2>2. NoCursor \in Int \X Nat \X Nat BY DEF NoCursor
    <2>3. ClientType'
      <3>1. walks' \in Nat BY <1>8 DEF StartWalk, TypeOK
      <3>2. Recorded' = Recorded BY <1>8, TypeFrame DEF StartWalk
      <3> QED BY <1>8, <2>1, <2>2, <3>1, <3>2 DEF StartWalk, ClientType
    <2> QED BY <1>8, <2>3, TypeParts, TypeFrame DEF StartWalk
  <1>9. ASSUME NEW limit \in 1..MAX_PAGE_SIZE, FetchPage(limit) PROVE TypeOK'
    <2>1. PICK page \in SUBSET selected :
             /\ seen' = seen \cup page
             /\ IF exhausted(limit)
                THEN walking' = FALSE /\ UNCHANGED cursor
                ELSE \E last \in page : cursor' = total_order_key(last) /\ UNCHANGED walking
      BY <1>9 DEF FetchPage
    <2>2. page \subseteq Recorded /\ page \subseteq Event BY RecordedTypes
    <2>3. cursor' \in Int \X Nat \X Nat /\ walking' \in BOOLEAN
      BY <2>1, <2>2, EventTypes DEF TypeOK
    <2>4. UNCHANGED Recorded BY <1>9 DEF FetchPage, historian_vars, Recorded
    <2> QED BY <1>9, <2>1, <2>2, <2>3, <2>4 DEF TypeOK, FetchPage, producer_vars, historian_vars
  <1>10. ASSUME NEW limit \in 1..MAX_PAGE_SIZE, BreakOff(limit) PROVE TypeOK'
    <2>1. PICK kept \in SUBSET selected :
             seen' = seen \cup kept /\ \E last \in kept : cursor' = total_order_key(last)
      BY <1>10 DEF BreakOff
    <2>2. kept \subseteq Recorded /\ kept \subseteq Event BY RecordedTypes
    <2>3. cursor' \in Int \X Nat \X Nat BY <2>1, <2>2, EventTypes
    <2>4. UNCHANGED Recorded BY <1>10 DEF BreakOff, historian_vars, Recorded
    <2> QED BY <1>10, <2>1, <2>2, <2>3, <2>4 DEF TypeOK, BreakOff, producer_vars, historian_vars
  <1> QED BY <1>1, <1>2, <1>3, <1>4, <1>5, <1>6, <1>7, <1>8, <1>9, <1>10 DEF Next
-----------------------------------------------------------------------------
(* The log.                                                                *)

\* What makes append() keep the gate's rules: the number it expects of a
\* producer follows all the numbers the producer has in the log.
LogInv ==
    /\ \A i \in DOMAIN events : events[i].seq < next_seq[events[i].producer]
    /\ \A i, j \in DOMAIN events :
          events[i].producer = events[j].producer /\ events[i].seq = events[j].seq => i = j
    /\ \A p \in Producers : \A n \in 0..next_seq[p]-1 :
          \E i \in DOMAIN events : events[i].producer = p /\ events[i].seq = n
    /\ \A p \in Producers : next_seq[p] <= Len(events)

\* What the client's walk and the play-back rest on: an event of the log has an
\* arrival, and no arrival is later than now.
ArrivalInv ==
    /\ \A i \in DOMAIN events : received[id(events[i])] \in 0..clock
    /\ ArrivalsReplayable

\* A step is an append, or leaves the log and its index alone.
LEMMA StepKinds ==
    ASSUME TypeOK, [Next]_vars
    PROVE  \/ \E e \in sent : append(e)
           \/ UNCHANGED <<events, received, next_seq>> /\ clock <= clock' /\ clock' \in Nat
  <1>1. clock \in Nat BY DEF TypeOK
  <1>2. CASE Tick
    BY <1>1, <1>2 DEF Tick, historian_vars
  <1>3. CASE UNCHANGED vars
    BY <1>1, <1>3 DEF vars, historian_vars
  <1>4. CASE Hash \/ seal
    BY <1>1, <1>4 DEF Hash, seal
  <1>5. ASSUME NEW p \in Producers, Restart(p)
        PROVE  UNCHANGED <<clock, events, received, next_seq>>
    BY <1>5 DEF Restart, historian_vars
  <1>6. ASSUME NEW p \in Producers, NEW run \in Runs, NEW ts \in 0..clock+Skew, Emit(p, run, ts)
        PROVE  UNCHANGED <<clock, events, received, next_seq>>
    BY <1>6 DEF Emit, historian_vars
  <1>7. ASSUME NEW from \in 0..MaxTime, StartWalk(from)
        PROVE  UNCHANGED <<clock, events, received, next_seq>>
    BY <1>7 DEF StartWalk, historian_vars
  <1>8. ASSUME NEW limit \in 1..MAX_PAGE_SIZE, FetchPage(limit) \/ BreakOff(limit)
        PROVE  UNCHANGED <<clock, events, received, next_seq>>
    BY <1>8 DEF FetchPage, BreakOff, historian_vars
  <1> QED BY <1>1, <1>2, <1>3, <1>4, <1>5, <1>6, <1>7, <1>8 DEF Next

\* What an append() that is not refused does to the log.
LEMMA AppendEffect ==
    ASSUME TypeOK, NEW e \in sent, append(e)
    PROVE  /\ e \in Event /\ e.producer \in Producers /\ e.seq \in Nat /\ e.ts \in Nat
           /\ id(e) \in Id /\ received[id(e)] = NoInstant /\ e.seq = next_seq[e.producer]
           /\ e.ts <= clock /\ ~sealed
           /\ Len(events) \in Nat /\ Len(events') = Len(events) + 1
           /\ DOMAIN events = 1..Len(events) /\ DOMAIN events' = 1..Len(events)+1
           /\ \A i \in DOMAIN events : events[i] \in Event /\ events'[i] = events[i]
           /\ events'[Len(events) + 1] = e
           /\ Recorded' = Recorded \cup {e}
           /\ next_seq' = [next_seq EXCEPT ![e.producer] = e.seq + 1]
           /\ received' = [received EXCEPT ![id(e)] = clock]
           /\ UNCHANGED <<clock, producer_vars, client_vars>>
  <1>1. e \in Event /\ events \in Seq(Event) BY DEF TypeOK
  <1>2. e.producer \in Producers /\ e.seq \in Nat /\ e.ts \in Nat /\ id(e) \in Id
    BY <1>1, EventTypes
  <1>3. /\ received[id(e)] = NoInstant /\ e.seq = next_seq[e.producer] /\ e.ts <= clock /\ ~sealed
    BY DEF append, accepts
  <1>4. /\ events' = Append(events, e) /\ received' = [received EXCEPT ![id(e)] = clock]
        /\ next_seq' = [next_seq EXCEPT ![e.producer] = e.seq + 1]
        /\ UNCHANGED <<clock, producer_vars, client_vars>>
    BY <1>3 DEF append, Record
  <1>5. /\ Len(events) \in Nat /\ Len(events') = Len(events) + 1
        /\ DOMAIN events = 1..Len(events) /\ DOMAIN events' = 1..Len(events)+1
        /\ \A i \in 1..Len(events) : events'[i] = events[i]
        /\ events'[Len(events) + 1] = e
    BY <1>1, <1>4, AppendFacts
  <1>6. Recorded' = Recorded \cup {e}
    BY <1>1, <1>4, RangeAppend DEF Recorded
  <1>7. \A i \in DOMAIN events : events[i] \in Event BY RecordedTypes
  <1> QED BY <1>1, <1>2, <1>3, <1>4, <1>5, <1>6, <1>7

\* append() keeps the numbers of every producer dense and without repetition.
LEMMA LogStep ==
    ASSUME TypeOK, LogInv, [Next]_vars
    PROVE  LogInv'
  <1>1. CASE UNCHANGED <<events, received, next_seq>>
    BY <1>1 DEF LogInv
  <1>2. ASSUME NEW e \in sent, append(e) PROVE LogInv'
    <2> DEFINE q == e.producer
               n == Len(events)
    <2>1. /\ q \in Producers /\ e.seq \in Nat /\ e.seq = next_seq[q] /\ n \in Nat
          /\ DOMAIN events = 1..n /\ DOMAIN events' = 1..n+1 /\ Len(events') = n + 1
          /\ events'[n+1] = e
      BY <1>2, AppendEffect
    <2>2. \A i \in 1..n : /\ events'[i] = events[i] /\ events[i].producer \in Producers
                          /\ events[i].seq \in Nat
      BY <1>2, AppendEffect, EventTypes
    <2>3. /\ next_seq'[q] = e.seq + 1
          /\ \A p \in Producers \ {q} : next_seq'[p] = next_seq[p]
          /\ \A p \in Producers : next_seq[p] \in Nat
      BY <1>2, <2>1, AppendEffect, SMTT(60) DEF TypeOK
    <2>4. \A i \in 1..n : events[i].seq < next_seq[events[i].producer]
      BY <2>1 DEF LogInv
    <2> HIDE DEF q, n
    <2>5. \A i \in DOMAIN events' : events'[i].seq < next_seq'[events'[i].producer]
      <3>1. ASSUME NEW i \in 1..n PROVE events'[i].seq < next_seq'[events'[i].producer]
        BY <2>1, <2>2, <2>3, <2>4, SMTT(60)
      <3>2. events'[n+1].seq < next_seq'[events'[n+1].producer]
        BY <2>1, <2>3 DEF q
      <3> QED BY <2>1, <3>1, <3>2
    <2>6. \A i, j \in DOMAIN events' :
             events'[i].producer = events'[j].producer /\ events'[i].seq = events'[j].seq => i = j
      <3>1. ASSUME NEW i \in 1..n, events[i].producer = q PROVE events[i].seq # e.seq
        BY <2>1, <2>2, <2>4, <3>1
      <3>2. ASSUME NEW i \in 1..n, NEW j \in 1..n, events'[i].producer = events'[j].producer,
                   events'[i].seq = events'[j].seq
            PROVE  i = j
        <4>1. events[i].producer = events[j].producer /\ events[i].seq = events[j].seq
          BY <2>2, <3>2
        <4>2. i \in DOMAIN events /\ j \in DOMAIN events BY <2>1
        <4> QED BY <4>1, <4>2 DEF LogInv
      <3>3. \A i \in 1..n : ~(events'[i].producer = e.producer /\ events'[i].seq = e.seq)
        BY <2>2, <3>1 DEF q
      <3> QED BY <2>1, <3>2, <3>3
    <2>7. \A p \in Producers : \A m \in 0..next_seq'[p]-1 :
             \E i \in DOMAIN events' : events'[i].producer = p /\ events'[i].seq = m
      <3> SUFFICES ASSUME NEW p \in Producers, NEW m \in 0..next_seq'[p]-1
                   PROVE  \E i \in DOMAIN events' : events'[i].producer = p /\ events'[i].seq = m
        OBVIOUS
      <3>1. CASE p = q /\ m = e.seq
        <4>1. n + 1 \in DOMAIN events' BY <2>1
        <4> QED BY <2>1, <3>1, <4>1 DEF q
      <3>2. CASE ~(p = q /\ m = e.seq)
        <4>1. m \in 0..next_seq[p]-1
          BY <2>1, <2>3, <3>2
        <4>2. PICK i \in 1..n : events[i].producer = p /\ events[i].seq = m
          BY <2>1, <4>1 DEF LogInv
        <4>3. i \in DOMAIN events' BY <2>1
        <4> QED BY <2>2, <4>2, <4>3
      <3> QED BY <3>1, <3>2
    <2>8. \A p \in Producers : next_seq'[p] <= Len(events')
      <3>1. \A p \in Producers : next_seq[p] <= n BY DEF LogInv, n
      <3> QED BY <2>1, <2>3, <3>1
    <2> QED BY <2>5, <2>6, <2>7, <2>8 DEF LogInv
  <1> QED BY <1>1, <1>2, StepKinds

\* A log that satisfies LogInv passes the gate.
LEMMA LogInvIsGate ==
    ASSUME TypeOK, LogInv
    PROVE  LogValid
  <1>1. \A i \in DOMAIN events : events[i] \in Event /\ events[i].producer \in Producers
                                 /\ events[i].seq \in Nat
    BY RecordedTypes, EventTypes
  <1>2. ~duplicate_id(events)
    BY IdInjective DEF duplicate_id, LogInv
  <1>3. ~tie(events)
    BY DEF tie, total_order_key, LogInv
  <1>4. ASSUME NEW p \in Producers PROVE dense(events, p)
    <2> DEFINE own == {i \in DOMAIN events : events[i].producer = p}
    <2>1. next_seq[p] \in 0..Len(events)
      <3>1. Len(events) \in Nat BY RecordedTypes
      <3>2. next_seq[p] \in 0..MaxSeq BY DEF TypeOK
      <3>3. next_seq[p] <= Len(events) BY DEF LogInv
      <3> QED BY <3>1, <3>2, <3>3, HistorianAssumption
    <2>2. {events[i].seq : i \in own} = 0..next_seq[p]-1
      <3>1. ASSUME NEW i \in own PROVE events[i].seq \in 0..next_seq[p]-1
        <4>1. events[i].seq < next_seq[p] /\ events[i].seq \in Nat BY <1>1 DEF LogInv
        <4> QED BY <2>1, <4>1
      <3>2. ASSUME NEW m \in 0..next_seq[p]-1 PROVE \E i \in own : events[i].seq = m
        BY DEF LogInv
      <3> QED BY <3>1, <3>2
    <2>3. \A i, j \in own : i # j => events[i].seq # events[j].seq
      BY DEF LogInv
    <2> QED BY <2>1, <2>2, <2>3 DEF dense
  <1> QED BY <1>2, <1>3, <1>4 DEF LogValid, check_log_invariants

\* The order of the arrivals is the order of the log.
LEMMA ArrivalStep ==
    ASSUME TypeOK, ArrivalInv, [Next]_vars
    PROVE  ArrivalInv'
  <1>0. clock \in Nat BY DEF TypeOK
  <1>1. ASSUME UNCHANGED <<events, received, next_seq>>, clock <= clock', clock' \in Nat
        PROVE  ArrivalInv'
    <2>1. ArrivalsReplayable'
      BY <1>1 DEF ArrivalInv, ArrivalsReplayable, id
    <2>2. \A i \in DOMAIN events' : received'[id(events'[i])] \in 0..clock
      BY <1>1 DEF ArrivalInv, id
    <2>3. \A i \in DOMAIN events' : received'[id(events'[i])] \in 0..clock'
      BY <1>0, <1>1, <2>2
    <2> QED BY <2>1, <2>3 DEF ArrivalInv, id
  <1>2. ASSUME NEW e \in sent, append(e) PROVE ArrivalInv'
    <2> DEFINE n == Len(events)
               at(i) == received[id(events[i])]
    <2>1. /\ n \in Nat /\ DOMAIN events = 1..n /\ DOMAIN events' = 1..n+1 /\ events'[n+1] = e
          /\ \A i \in 1..n : events[i] \in Event /\ events'[i] = events[i]
          /\ e.ts \in Nat /\ e.ts <= clock /\ id(e) \in Id /\ UNCHANGED clock
          /\ received[id(e)] = NoInstant /\ received' = [received EXCEPT ![id(e)] = clock]
      BY <1>2, AppendEffect
    <2>2. \A i \in 1..n : id(events[i]) \in Id
      BY <2>1, EventTypes
    <2>3. \A i \in 1..n : /\ at(i) \in 0..clock /\ events[i].ts <= at(i)
                          /\ \A j \in 1..i : at(j) <= at(i)
      BY <2>1 DEF ArrivalInv, ArrivalsReplayable
    <2>4. \A i \in 1..n : id(events[i]) # id(e)
      BY <1>0, <2>1, <2>3 DEF NoInstant
    <2>5. /\ \A i \in 1..n : received'[id(events'[i])] = at(i)
          /\ received'[id(events'[n+1])] = clock
      BY <2>1, <2>2, <2>4 DEF TypeOK
    <2> HIDE DEF n, at
    <2>6. \A i \in DOMAIN events' : received'[id(events'[i])] \in 0..clock
      BY <1>0, <2>1, <2>3, <2>5
    <2>7. ASSUME NEW i \in DOMAIN events'
          PROVE  /\ events'[i].ts <= received'[id(events'[i])]
                 /\ \A j \in 1..i : received'[id(events'[j])] <= received'[id(events'[i])]
      <3>1. CASE i \in 1..n
        <4>1. \A j \in 1..i : j \in 1..n BY <2>1, <3>1
        <4> QED BY <2>1, <2>3, <2>5, <3>1, <4>1
      <3>2. CASE i = n + 1
        <4>1. \A j \in 1..i : received'[id(events'[j])] \in 0..clock BY <2>1, <2>6, <3>2
        <4> QED BY <1>0, <2>1, <2>5, <3>2, <4>1
      <3> QED BY <2>1, <3>1, <3>2
    <2> QED BY <2>1, <2>6, <2>7 DEF ArrivalInv, ArrivalsReplayable, id
  <1> QED BY <1>1, <1>2, StepKinds

\* The events of a producer that has not restarted, on the link and in the log:
\* a later number has no earlier stamp.
LinkInv ==
    /\ Recorded \subseteq sent
    /\ restarts = 0 =>
          /\ \A e \in sent : e.seq < seq[e.producer] /\ e.ts <= stamp[e.producer]
          /\ \A e, f \in sent : e.producer = f.producer /\ e.seq < f.seq => e.ts <= f.ts

\* Emission keeps the stamps of a producer in the order of its numbers.
LEMMA LinkStep ==
    ASSUME TypeOK, LinkInv, [Next]_vars
    PROVE  LinkInv'
  <1> USE HistorianAssumption
  <1>1. ASSUME UNCHANGED <<producer_vars, events>> PROVE LinkInv'
    BY <1>1 DEF LinkInv, producer_vars, Recorded
  <1>2. ASSUME NEW e \in sent, append(e) PROVE LinkInv'
    <2>1. Recorded' = Recorded \cup {e} /\ UNCHANGED producer_vars BY <1>2, AppendEffect
    <2> QED BY <2>1 DEF LinkInv, producer_vars
  <1>3. ASSUME NEW p \in Producers, Restart(p) PROVE LinkInv'
    <2>1. restarts' # 0 BY <1>3 DEF Restart, TypeOK
    <2> QED BY <1>3, <2>1 DEF Restart, LinkInv, historian_vars, Recorded
  <1>4. ASSUME NEW p \in Producers, NEW run \in Runs, NEW ts \in 0..clock+Skew, Emit(p, run, ts)
        PROVE  LinkInv'
    <2> DEFINE x == [run |-> run, producer |-> p, seq |-> seq[p], ts |-> ts]
    <2>1. /\ sent' = sent \cup {x} /\ seq' = [seq EXCEPT ![p] = seq[p] + 1]
          /\ stamp' = [stamp EXCEPT ![p] = ts] /\ stamp[p] <= ts
          /\ UNCHANGED <<restarts, events>>
      BY <1>4 DEF Emit, historian_vars
    <2>2. Recorded' \subseteq sent' BY <2>1 DEF LinkInv, Recorded
    <2>3. x.producer = p /\ x.seq = seq[p] /\ x.ts = ts OBVIOUS
    <2> HIDE DEF x
    <2>4. /\ \A q \in Producers : seq[q] \in Nat /\ stamp[q] \in Nat
          /\ seq'[p] = seq[p] + 1 /\ stamp'[p] = ts
          /\ \A q \in Producers \ {p} : seq'[q] = seq[q] /\ stamp'[q] = stamp[q]
      BY <2>1 DEF TypeOK
    <2>5. ts \in Nat
      <3>1. clock \in Nat BY DEF TypeOK
      <3>2. clock + Skew \in Nat BY <3>1
      <3> QED BY <3>2
    <2>6. \A e \in sent : e.producer \in Producers /\ e.seq \in Nat /\ e.ts \in Nat
      BY EventTypes DEF TypeOK
    <2>7. ASSUME restarts' = 0
          PROVE  /\ \A e \in sent' : e.seq < seq'[e.producer] /\ e.ts <= stamp'[e.producer]
                 /\ \A e, f \in sent' : e.producer = f.producer /\ e.seq < f.seq => e.ts <= f.ts
      <3>1. /\ \A e \in sent : e.seq < seq[e.producer] /\ e.ts <= stamp[e.producer]
            /\ \A e, f \in sent : e.producer = f.producer /\ e.seq < f.seq => e.ts <= f.ts
        BY <2>1, <2>7 DEF LinkInv
      <3>2. \A e \in sent : e.seq < seq'[e.producer] /\ e.ts <= stamp'[e.producer]
        <4> SUFFICES ASSUME NEW e \in sent
                     PROVE  e.seq < seq'[e.producer] /\ e.ts <= stamp'[e.producer]
          OBVIOUS
        <4>1. /\ e.producer \in Producers /\ e.seq \in Nat /\ e.ts \in Nat
              /\ e.seq < seq[e.producer] /\ e.ts <= stamp[e.producer]
          BY <2>6, <3>1
        <4>2. CASE e.producer = p BY <2>1, <2>4, <2>5, <4>1, <4>2
        <4>3. CASE e.producer # p BY <2>4, <4>1, <4>3
        <4> QED BY <4>2, <4>3
      <3>3. x.seq < seq'[x.producer] /\ x.ts <= stamp'[x.producer]
        BY <2>3, <2>4, <2>5
      <3>4. \A e \in sent : e.producer = p => e.seq < x.seq /\ e.ts <= x.ts
        <4> SUFFICES ASSUME NEW e \in sent, e.producer = p PROVE e.seq < x.seq /\ e.ts <= x.ts
          OBVIOUS
        <4>1. e.seq < seq[p] /\ e.ts <= stamp[p] /\ e.ts \in Nat /\ stamp[p] \in Nat
          BY <2>4, <2>6, <3>1
        <4> QED BY <2>1, <2>3, <2>5, <4>1
      <3>5. ASSUME NEW e \in sent', NEW f \in sent', e.producer = f.producer, e.seq < f.seq
            PROVE  e.ts <= f.ts
        <4>1. CASE e \in sent /\ f \in sent BY <3>1, <3>5, <4>1
        <4>2. CASE e \in sent /\ f = x BY <2>3, <3>4, <3>5, <4>2
        <4>3. CASE e = x /\ f \in sent
          <5>1. f.seq < x.seq /\ f.seq \in Nat /\ x.seq \in Nat BY <2>3, <2>4, <2>6, <3>4, <3>5, <4>3
          <5> QED BY <3>5, <4>3, <5>1
        <4>4. CASE e = x /\ f = x
          <5>1. x.seq \in Nat BY <2>3, <2>4
          <5> QED BY <3>5, <4>4, <5>1
        <4> QED BY <2>1, <4>1, <4>2, <4>3, <4>4
      <3> QED BY <2>1, <3>2, <3>3, <3>5
    <2> QED BY <2>2, <2>7 DEF LinkInv
  <1>5. ASSUME NEW limit \in 1..MAX_PAGE_SIZE, FetchPage(limit) \/ BreakOff(limit) PROVE LinkInv'
    BY <1>1, <1>5 DEF FetchPage, BreakOff, historian_vars
  <1>6. ASSUME NEW from \in 0..MaxTime, StartWalk(from) PROVE LinkInv'
    BY <1>1, <1>6 DEF StartWalk, historian_vars
  <1>7. CASE Tick \/ Hash \/ seal \/ UNCHANGED vars
    BY <1>1, <1>7 DEF Tick, Hash, seal, vars, historian_vars
  <1> QED BY <1>2, <1>3, <1>4, <1>5, <1>6, <1>7 DEF Next

\* LinkInv orders the log of producers that have not restarted.
LEMMA LinkInvIsOrder ==
    ASSUME TypeOK, LinkInv
    PROVE  ProducerOrderKept
  <1> SUFFICES ASSUME restarts = 0, NEW i \in DOMAIN events, NEW j \in DOMAIN events,
                      events[i].producer = events[j].producer, events[i].seq < events[j].seq
               PROVE  Before(total_order_key(events[i]), total_order_key(events[j]))
    BY DEF ProducerOrderKept
  <1>1. events[i] \in sent /\ events[j] \in sent /\ events[i] \in Event /\ events[j] \in Event
    BY RecordedTypes DEF LinkInv
  <1>2. events[i].ts <= events[j].ts
    BY <1>1 DEF LinkInv
  <1>3. events[i].ts \in Nat /\ events[j].ts \in Nat
    BY <1>1, EventTypes
  <1> QED BY <1>2, <1>3 DEF Before, total_order_key
-----------------------------------------------------------------------------
(* The hash and the sidecar.                                               *)

HashInv == HeldHashIsCurrent /\ SidecarIsTrue

\* Every step that moves the log drops the hash, and none does once it is sealed.
LEMMA HashStep ==
    ASSUME TypeOK, HashInv, [Next]_vars
    PROVE  HashInv'
  <1> USE DEF HashInv, HeldHashIsCurrent, SidecarIsTrue
  <1>1. ASSUME UNCHANGED historian_vars PROVE HashInv'
    BY <1>1 DEF historian_vars
  <1>2. ASSUME NEW e \in sent, append(e) PROVE HashInv'
    BY <1>2 DEF append, accepts, Record
  <1>3. held_hash = log_hash(events)
    BY DEF held_hash
  <1>4. CASE Hash
    <2>1. hash' = log_hash(events) /\ UNCHANGED <<events, sealed, sidecar>> BY <1>3, <1>4 DEF Hash
    <2> HIDE DEF HashInv, HeldHashIsCurrent, SidecarIsTrue
    <2>2. HeldHashIsCurrent' BY <2>1 DEF HeldHashIsCurrent
    <2>3. SidecarIsTrue' BY <2>1 DEF SidecarIsTrue, HashInv
    <2> QED BY <2>2, <2>3 DEF HashInv
  <1>5. CASE seal
    <2>1. /\ hash' = log_hash(events) /\ UNCHANGED events
          /\ sidecar' = [event_count |-> Len(events), event_log_hash |-> log_hash(events)]
      BY <1>3, <1>5 DEF seal
    <2> QED BY <2>1
  <1>6. CASE Tick \/ UNCHANGED vars
    BY <1>1, <1>6 DEF Tick, vars
  <1>7. ASSUME NEW p \in Producers, Restart(p) PROVE HashInv'
    BY <1>1, <1>7 DEF Restart
  <1>8. ASSUME NEW p \in Producers, NEW run \in Runs, NEW ts \in 0..clock+Skew, Emit(p, run, ts)
        PROVE  HashInv'
    BY <1>1, <1>8 DEF Emit
  <1>9. ASSUME NEW from \in 0..MaxTime, StartWalk(from) PROVE HashInv'
    BY <1>1, <1>9 DEF StartWalk
  <1>10. ASSUME NEW limit \in 1..MAX_PAGE_SIZE, FetchPage(limit) \/ BreakOff(limit) PROVE HashInv'
    BY <1>1, <1>10 DEF FetchPage, BreakOff
  <1> QED BY <1>2, <1>4, <1>5, <1>6, <1>7, <1>8, <1>9, <1>10 DEF Next
-----------------------------------------------------------------------------
(* The walk.                                                               *)

WalkInv == NothingSkipped /\ NothingRepeated

\* What a client keeps of a page, up to the row it resumes from, and what is left
\* after that row, are the events that were left before, each once.
LEMMA ResumeSplits ==
    ASSUME TypeOK, NEW kept \in SUBSET selected, NEW last \in kept, IsLast(last, kept),
           IsPrefix(kept, selected), UNCHANGED <<events, since>>,
           cursor' = total_order_key(last)
    PROVE  selected' = selected \ kept
  <1> DEFINE key(e) == total_order_key(e)
  <1>1. \A e \in Recorded : key(e) \in Int \X Nat \X Nat /\ e.ts \in Nat
    BY RecordedTypes, EventTypes
  <1>2. selected \subseteq Recorded /\ read(since) \subseteq Recorded /\ last \in selected
    BY RecordedTypes
  <1>3. cursor' # NoCursor
    <2>1. cursor'[1] = last.ts /\ NoCursor[1] = -1 BY DEF total_order_key, NoCursor
    <2>2. last.ts \in Nat BY <1>1, <1>2
    <2> QED BY <2>1, <2>2
  <1>4. selected' = {e \in read(since) : Before(key(last), key(e))}
    BY <1>3 DEF selected, read, Recorded, total_order_key
  <1>5. ASSUME NEW e \in selected \ kept PROVE e \in selected'
    BY <1>4, <1>5 DEF IsPrefix, selected
  <1>6. ASSUME NEW e \in selected' PROVE e \in selected /\ e \notin kept
    <2>1. e \in read(since) /\ Before(key(last), key(e)) BY <1>4, <1>6
    <2>2. /\ key(last) \in Int \X Nat \X Nat /\ key(e) \in Int \X Nat \X Nat
          /\ cursor \in Int \X Nat \X Nat
      BY <1>1, <1>2, <2>1 DEF TypeOK
    <2>3. e \in selected
      <3>1. cursor = NoCursor \/ Before(cursor, key(last)) BY <1>2 DEF selected
      <3>2. cursor = NoCursor \/ Before(cursor, key(e)) BY <2>1, <2>2, <3>1, BeforeTransitive
      <3> QED BY <2>1, <3>2 DEF selected
    <2>4. e \notin kept
      <3>1. ~Before(key(e), key(last)) /\ key(e) # key(last) BY <2>1, <2>2, BeforeStrict
      <3> QED BY <3>1 DEF IsLast
    <2> QED BY <2>3, <2>4
  <1> QED BY <1>5, <1>6

\* The last page holds everything that is left.
LEMMA LastPageIsAll ==
    ASSUME TypeOK, NEW limit \in 1..MAX_PAGE_SIZE, NEW page \in SUBSET selected,
           IsPage(page, limit), exhausted(limit)
    PROVE  page = selected
  <1>1. IsFiniteSet(selected) BY RecordedTypes
  <1>2. Cardinality(selected) \in Nat BY <1>1, FS_CardinalityType
  <1>3. Cardinality(selected) <= limit /\ limit \in Nat
    BY HistorianAssumption DEF exhausted
  <1>4. Cardinality(page) = Cardinality(selected)
    BY <1>2, <1>3 DEF IsPage
  <1> QED BY <1>1, <1>4, FS_Subset

\* One page, whole or broken off, accounts for what was left before it.
LEMMA PageStep ==
    ASSUME TypeOK, NEW limit \in 1..MAX_PAGE_SIZE, FetchPage(limit) \/ BreakOff(limit)
    PROVE  \E kept \in SUBSET selected :
              /\ walking /\ seen' = seen \cup kept /\ UNCHANGED existing
              /\ \/ walking' = TRUE /\ selected' = selected \ kept
                 \/ walking' = FALSE /\ kept = selected
  <1>0. walking = TRUE BY DEF FetchPage, BreakOff, TypeOK
  <1>1. CASE FetchPage(limit)
    <2>1. PICK page \in SUBSET selected :
             /\ IsPage(page, limit) /\ seen' = seen \cup page
             /\ IF exhausted(limit)
                THEN walking' = FALSE /\ UNCHANGED cursor
                ELSE \E last \in page : /\ IsLast(last, page)
                                        /\ cursor' = total_order_key(last)
                                        /\ UNCHANGED walking
      BY <1>1 DEF FetchPage
    <2>2. UNCHANGED <<events, since, existing>> BY <1>1 DEF FetchPage, historian_vars
    <2>3. CASE exhausted(limit)
      <3>1. page = selected /\ walking' = FALSE BY <2>1, <2>3, LastPageIsAll
      <3> QED BY <1>0, <2>1, <2>2, <3>1
    <2>4. CASE ~exhausted(limit)
      <3>1. selected' = selected \ page /\ walking' = TRUE
        BY <1>0, <2>1, <2>2, <2>4, ResumeSplits DEF IsPage
      <3> QED BY <1>0, <2>1, <2>2, <3>1
    <2> QED BY <2>3, <2>4
  <1>2. CASE BreakOff(limit)
    <2>1. PICK page \in SUBSET selected : \E kept \in SUBSET page : \E last \in kept :
             /\ IsPage(page, limit) /\ IsPrefix(kept, page) /\ IsLast(last, kept)
             /\ seen' = seen \cup kept /\ cursor' = total_order_key(last)
      BY <1>2 DEF BreakOff
    <2>2. PICK kept \in SUBSET page : \E last \in kept :
             /\ IsPage(page, limit) /\ IsPrefix(kept, page) /\ IsLast(last, kept)
             /\ seen' = seen \cup kept /\ cursor' = total_order_key(last)
      BY <2>1
    <2>3. UNCHANGED <<events, since, existing, walking>> BY <1>2 DEF BreakOff, historian_vars
    <2>4. kept \in SUBSET selected /\ IsPrefix(kept, selected)
      BY <2>2 DEF IsPage, IsPrefix
    <2>5. selected' = selected \ kept BY <2>2, <2>3, <2>4, ResumeSplits
    <2> QED BY <1>0, <2>2, <2>3, <2>4, <2>5
  <1> QED BY <1>1, <1>2

\* A new event is new to the client: append() refuses an id that was recorded.
LEMMA WalkStep ==
    ASSUME TypeOK, ArrivalInv, WalkInv, [Next]_vars
    PROVE  WalkInv'
  <1> USE DEF WalkInv, NothingSkipped, NothingRepeated
  <1>1. ASSUME UNCHANGED <<events, client_vars>> PROVE WalkInv'
    <2>1. UNCHANGED <<selected, existing, seen, walking>>
      BY <1>1 DEF client_vars, selected, read, Recorded
    <2> QED BY <2>1
  <1>2. ASSUME NEW e \in sent, append(e) PROVE WalkInv'
    <2>1. Recorded' = Recorded \cup {e} /\ received[id(e)] = NoInstant /\ UNCHANGED client_vars
      BY <1>2, AppendEffect
    <2>2. e \notin Recorded
      <3>1. ASSUME NEW i \in DOMAIN events PROVE events[i] # e
        <4>1. received[id(events[i])] \in 0..clock /\ clock \in Nat BY DEF ArrivalInv, TypeOK
        <4> QED BY <2>1, <4>1 DEF NoInstant
      <3> QED BY <3>1, RecordedTypes
    <2>3. selected \subseteq selected' /\ selected' \subseteq selected \cup {e}
      BY <2>1 DEF selected, read, client_vars
    <2>4. seen \subseteq Recorded BY DEF TypeOK
    <2> QED BY <2>1, <2>2, <2>3, <2>4 DEF client_vars
  <1>3. ASSUME NEW from \in 0..MaxTime, StartWalk(from) PROVE WalkInv'
    <2>1. /\ walking' = TRUE /\ seen' = {} /\ existing' = read(from)
          /\ cursor' = NoCursor /\ since' = from /\ UNCHANGED events
      BY <1>3 DEF StartWalk, historian_vars
    <2>2. selected' = read(from) BY <2>1 DEF selected, read, Recorded
    <2> QED BY <2>1, <2>2
  <1>4. ASSUME NEW limit \in 1..MAX_PAGE_SIZE, FetchPage(limit) \/ BreakOff(limit) PROVE WalkInv'
    BY <1>4, PageStep
  <1>5. CASE Tick \/ Hash \/ seal \/ UNCHANGED vars
    BY <1>1, <1>5 DEF Tick, Hash, seal, vars, historian_vars
  <1>6. ASSUME NEW p \in Producers, Restart(p) PROVE WalkInv'
    BY <1>1, <1>6 DEF Restart, historian_vars
  <1>7. ASSUME NEW p \in Producers, NEW run \in Runs, NEW ts \in 0..clock+Skew, Emit(p, run, ts)
        PROVE  WalkInv'
    BY <1>1, <1>7 DEF Emit, historian_vars
  <1> QED BY <1>2, <1>3, <1>4, <1>5, <1>6, <1>7 DEF Next
-----------------------------------------------------------------------------
IInv == TypeOK /\ LogInv /\ ArrivalInv /\ LinkInv /\ HashInv /\ WalkInv

\* The historian starts empty, with nothing held and nobody walking.
LEMMA InitIInv == Init => IInv
  <1> SUFFICES ASSUME Init PROVE IInv
    OBVIOUS
  <1> USE HistorianAssumption
  <1>1. DOMAIN events = {} /\ Len(events) = 0 /\ Recorded = {} /\ events \in Seq(Event)
    BY DEF Init, Recorded, Range
  <1>2. TypeOK
    <2>1. NoCursor \in Int \X Nat \X Nat BY DEF NoCursor
    <2>2. /\ seq \in [Producers -> Nat] /\ stamp \in [Producers -> Nat]
          /\ next_seq \in [Producers -> 0..MaxSeq] /\ received \in [Id -> Nat \cup {NoInstant}]
      BY DEF Init
    <2> QED BY <1>1, <2>1, <2>2 DEF Init, TypeOK
  <1>3. LogInv BY <1>1 DEF Init, LogInv
  <1>4. ArrivalInv BY <1>1 DEF ArrivalInv, ArrivalsReplayable
  <1>5. LinkInv BY <1>1 DEF Init, LinkInv
  <1>6. HashInv BY DEF Init, HashInv, HeldHashIsCurrent, SidecarIsTrue
  <1>7. WalkInv BY DEF Init, WalkInv, NothingSkipped, NothingRepeated
  <1> QED BY <1>2, <1>3, <1>4, <1>5, <1>6, <1>7 DEF IInv

\* The inductive invariant of the historian and its client holds throughout.
THEOREM Invariance == Spec => []IInv
  <1>1. IInv /\ [Next]_vars => IInv'
    BY TypeStep, LogStep, ArrivalStep, LinkStep, HashStep, WalkStep DEF IInv
  <1> QED BY <1>1, InitIInv, PTL DEF Spec

\* Type correctness of the historian, its producers and its client.
THEOREM TypeCorrect == Spec => []TypeOK
  <1>1. IInv => TypeOK BY DEF IInv
  <1> QED BY <1>1, Invariance, PTL

\* append() keeps the log one the gate passes, whatever a link delays, reorders
\* and repeats and however often producers restart.
THEOREM LogStaysValid == Spec => []LogValid
  <1>1. IInv => LogValid BY LogInvIsGate DEF IInv
  <1> QED BY <1>1, Invariance, PTL

\* The held hash and the sidecar of a sealed run are true of the log.
THEOREM HashStaysTrue == Spec => [](HeldHashIsCurrent /\ SidecarIsTrue)
  <1>1. IInv => HeldHashIsCurrent /\ SidecarIsTrue BY DEF IInv, HashInv
  <1> QED BY <1>1, Invariance, PTL

\* The arrivals that write_run() keeps can be played back by read_run().
THEOREM LogReplays == Spec => []ArrivalsReplayable
  <1>1. IInv => ArrivalsReplayable BY DEF IInv, ArrivalInv
  <1> QED BY <1>1, Invariance, PTL

\* The canonical order never contradicts the order in which a producer emitted.
THEOREM EmissionOrder == Spec => []ProducerOrderKept
  <1>1. IInv => ProducerOrderKept BY LinkInvIsOrder DEF IInv
  <1> QED BY <1>1, Invariance, PTL

\* INV-K16 for a walk over a log that grows under it: no event that existed when
\* it began is skipped and none comes twice, whatever the page sizes and wherever
\* the connection breaks.
THEOREM WalkComplete == Spec => []WalkIsExact
  <1>1. IInv => WalkIsExact BY DEF IInv, WalkInv, WalkIsExact
  <1> QED BY <1>1, Invariance, PTL

\* What a cursor promises when it is made is kept by every step taken after it.
THEOREM CursorKept == Spec => CursorOwesTheRest
  <1> DEFINE Owes == walking => selected \subseteq seen' \cup (IF walking' THEN selected' ELSE {})
  <1>1. ASSUME TypeOK, [Next]_vars PROVE [Owes]_vars
    <2>1. ASSUME UNCHANGED <<events, client_vars>> PROVE Owes
      <3>1. UNCHANGED <<selected, seen, walking>>
        BY <2>1 DEF client_vars, selected, read, Recorded
      <3> QED BY <3>1
    <2>2. ASSUME NEW e \in sent, append(e) PROVE Owes
      <3>1. Recorded' = Recorded \cup {e} /\ UNCHANGED client_vars BY <1>1, <2>2, AppendEffect
      <3>2. selected \subseteq selected' BY <3>1 DEF selected, read, client_vars
      <3> QED BY <3>1, <3>2 DEF client_vars
    <2>3. ASSUME NEW from \in 0..MaxTime, StartWalk(from) PROVE Owes
      BY <2>3 DEF StartWalk
    <2>4. ASSUME NEW limit \in 1..MAX_PAGE_SIZE, FetchPage(limit) \/ BreakOff(limit) PROVE Owes
      BY <1>1, <2>4, PageStep
    <2>5. CASE Tick \/ Hash \/ seal \/ UNCHANGED vars
      BY <2>1, <2>5 DEF Tick, Hash, seal, vars, historian_vars
    <2>6. ASSUME NEW p \in Producers, Restart(p) PROVE Owes
      BY <2>1, <2>6 DEF Restart, historian_vars
    <2>7. ASSUME NEW p \in Producers, NEW run \in Runs, NEW ts \in 0..clock+Skew, Emit(p, run, ts)
          PROVE  Owes
      BY <2>1, <2>7 DEF Emit, historian_vars
    <2> QED BY <1>1, <2>2, <2>3, <2>4, <2>5, <2>6, <2>7 DEF Next
  <1> QED BY <1>1, TypeCorrect, PTL DEF Spec, CursorOwesTheRest
=============================================================================
