----------------------------- MODULE Historian -----------------------------
(***************************************************************************)
(* Historian of twinflow.storage (historian.py): the append-only log of    *)
(* one run.  Producers stamp events with their own reading of simulated    *)
(* time, which may be ahead of the historian's clock, and hand them over a *)
(* link that delays, reorders, repeats and loses them.  A client walks the *)
(* log page by page (pagination.py, cursor.py) while it grows.             *)
(*                                                                         *)
(* An event keeps its run, producer, sequence number and stamp; payload,   *)
(* type, source and the other envelope attributes are left out.  Its id is *)
(* a function of run, producer and sequence number (invariant E2).  A      *)
(* producer is its rank in the byte order of the producer ids.             *)
(***************************************************************************)
EXTENDS Integers, Sequences, FiniteSets, Functions

CONSTANTS
    NumProducers,
    OtherRun,       \* events of another run reach this historian too
    Skew,           \* how far a producer's clock may be ahead
    MaxTime,        \* bound on the clock
    MaxSeq,         \* bound on the events of one life of a producer
    MaxRestarts,    \* bound on the restarts of all producers
    MaxLog,         \* bound on the log
    MaxWalks,       \* bound on the walks of the client
    MAX_PAGE_SIZE   \* 10000 in the code

ASSUME HistorianAssumption ==
    /\ {NumProducers, Skew, MaxTime, MaxSeq, MaxRestarts, MaxLog, MaxWalks} \subseteq Nat
    /\ OtherRun \in BOOLEAN
    /\ MAX_PAGE_SIZE \in Nat \ {0}

Producers  == 1..NumProducers
Runs       == IF OtherRun THEN {"this", "other"} ELSE {"this"}
SeqNumbers == 0..MaxSeq-1
Event      == [run : Runs, producer : Producers, seq : SeqNumbers, ts : Nat]
Id         == Runs \X Producers \X SeqNumbers
NoInstant  == -1
NoHash     == <<"none", <<>>>>
NoCursor   == <<-1, 0, 0>>

VARIABLES
    clock,                  \* SimClock of the historian's process
    sent, seq, stamp,       \* producers: events on the link, next number, last stamp
    restarts,
    events, hash, received, next_seq, sealed,   \* the historian's fields
    sidecar,                \* what seal() returned last
    cursor, since,          \* the client: where it resumes, its lower bound
    existing, seen,         \* what its walk owes it and what it has received
    walking, walks

producer_vars  == <<sent, seq, stamp, restarts>>
historian_vars == <<events, hash, received, next_seq, sealed, sidecar>>
client_vars    == <<cursor, since, existing, seen, walking, walks>>
vars == <<clock, producer_vars, historian_vars, client_vars>>
-----------------------------------------------------------------------------
(* The order of the log and its hash.                                      *)

id(e) == <<e.run, e.producer, e.seq>>

\* Mutant: the number is left out of the key.
KeyWithoutSeq(e) == <<e.ts, e.producer, 0>>

total_order_key(e) == <<e.ts, e.producer, e.seq>>

\* The order of tuples.
Before(k, l) ==
    \/ k[1] < l[1]
    \/ k[1] = l[1] /\ k[2] < l[2]
    \/ k[1] = l[1] /\ k[2] = l[2] /\ k[3] < l[3]

\* The place of the event at position i in the canonical order; a stable sort
\* leaves events with equal keys in the order they arrived.
Place(log, i) ==
    Cardinality({j \in DOMAIN log :
        \/ Before(total_order_key(log[j]), total_order_key(log[i]))
        \/ total_order_key(log[j]) = total_order_key(log[i]) /\ j <= i})

in_total_order(log) ==
    [n \in 1..Len(log) |-> log[CHOOSE i \in DOMAIN log : Place(log, i) = n]]

\* The digest is taken over the events in canonical order, and two logs have
\* the same digest when they have the same events in that order.
log_hash(log) == <<"digest", in_total_order(log)>>
-----------------------------------------------------------------------------
(* The gate VAL-GATE-ENV-001, one predicate per rule.                      *)

duplicate_id(log) ==
    \E i, j \in DOMAIN log : i # j /\ id(log[i]) = id(log[j])

tie(log) ==
    \E i, j \in DOMAIN log : i # j /\ total_order_key(log[i]) = total_order_key(log[j])

\* The sequence numbers of a producer are 0..n-1, each once.
dense(log, p) ==
    LET own == {i \in DOMAIN log : log[i].producer = p}
    IN  /\ \A i, j \in own : i # j => log[i].seq # log[j].seq
        /\ \E n \in 0..Len(log) : {log[i].seq : i \in own} = 0..n-1

check_log_invariants(log) ==
    /\ ~duplicate_id(log)
    /\ ~tie(log)
    /\ \A p \in Producers : dense(log, p)
-----------------------------------------------------------------------------
(* The producers and the link.                                             *)

\* A producer's clock does not run backwards.
Emit(p, run, ts) ==
    /\ seq[p] < MaxSeq
    /\ ts >= stamp[p]
    /\ sent' = sent \cup {[run |-> run, producer |-> p, seq |-> seq[p], ts |-> ts]}
    /\ seq' = [seq EXCEPT ![p] = @ + 1]
    /\ stamp' = [stamp EXCEPT ![p] = ts]
    /\ UNCHANGED <<clock, restarts, historian_vars, client_vars>>

\* A producer that starts again counts from zero.
Restart(p) ==
    /\ restarts < MaxRestarts /\ seq[p] > 0
    /\ restarts' = restarts + 1
    /\ seq' = [seq EXCEPT ![p] = 0]
    /\ UNCHANGED <<clock, sent, stamp, historian_vars, client_vars>>

Tick ==
    /\ clock < MaxTime
    /\ clock' = clock + 1
    /\ UNCHANGED <<producer_vars, historian_vars, client_vars>>
-----------------------------------------------------------------------------
(* The historian.                                                          *)

\* Mutant: the density check accepts any number that is not behind.
AcceptsGap(e) ==
    /\ ~sealed /\ e.run = "this" /\ e.ts <= clock
    /\ received[id(e)] = NoInstant
    /\ e.seq >= next_seq[e.producer]

\* Mutant: a number that was used is taken for a retry and recorded again.
AcceptsRetry(e) ==
    /\ ~sealed /\ e.run = "this" /\ e.ts <= clock
    /\ e.seq <= next_seq[e.producer]

\* Mutant: a log that is sealed takes events.
AcceptsSealed(e) ==
    /\ e.run = "this" /\ e.ts <= clock
    /\ received[id(e)] = NoInstant
    /\ e.seq = next_seq[e.producer]

\* The refusals TF-S015, TF-S010, TF-S014, TF-S012 and TF-S011, negated.
accepts(e) ==
    /\ ~sealed
    /\ e.run = "this"
    /\ e.ts <= clock
    /\ received[id(e)] = NoInstant
    /\ e.seq = next_seq[e.producer]

\* Mutant: the arrival of a buffered event is its stamp.
RecordStampAsArrival(e) ==
    /\ events' = Append(events, e)
    /\ hash' = NoHash
    /\ received' = [received EXCEPT ![id(e)] = e.ts]
    /\ next_seq' = [next_seq EXCEPT ![e.producer] = @ + 1]

Record(e) ==
    /\ events' = Append(events, e)
    /\ hash' = NoHash
    /\ received' = [received EXCEPT ![id(e)] = clock]
    /\ next_seq' = [next_seq EXCEPT ![e.producer] = @ + 1]

\* append() of an event of the link.  It stays there, so that it may arrive
\* again; a refused event changes nothing.
append(e) ==
    /\ Len(events) < MaxLog
    /\ accepts(e)
    /\ Record(e)
    /\ UNCHANGED <<clock, producer_vars, sealed, sidecar, client_vars>>

\* hash() computes what it does not hold.
held_hash == IF hash = NoHash THEN log_hash(events) ELSE hash

Hash ==
    /\ hash' = held_hash
    /\ UNCHANGED <<clock, producer_vars, events, received, next_seq, sealed, sidecar,
                   client_vars>>

seal ==
    /\ sealed' = TRUE
    /\ hash' = held_hash
    /\ sidecar' = [event_count |-> Len(events), event_log_hash |-> held_hash]
    /\ UNCHANGED <<clock, producer_vars, events, received, next_seq, client_vars>>
-----------------------------------------------------------------------------
(* The client of GET /runs/{run_id}/events and of the event stream.        *)

Recorded == Range(events)

\* read(since), and the filter of page_of.
read(from) == {e \in Recorded : e.ts >= from}

\* Mutant: the boundary is the stamp of the cursor alone.
SelectedAfterStamp == {e \in read(since) : cursor = NoCursor \/ e.ts > cursor[1]}

\* Mutant: the boundary is not strict.
SelectedFromCursor ==
    {e \in read(since) : cursor = NoCursor \/ ~Before(total_order_key(e), cursor)}

\* What page_of cuts the page from: the events strictly after the cursor.
selected == {e \in read(since) :
                cursor = NoCursor \/ Before(cursor, total_order_key(e))}

\* The first events of a set in canonical order.
IsPrefix(page, from) ==
    \A e \in page, f \in from \ page : Before(total_order_key(e), total_order_key(f))

IsLast(e, page) ==
    \A f \in page : f = e \/ Before(total_order_key(f), total_order_key(e))

\* Mutant: off by one.
ExhaustedEarly(limit) == Cardinality(selected) <= limit + 1

exhausted(limit) == Cardinality(selected) <= limit

\* page_of(after = cursor, limit).
IsPage(page, limit) ==
    /\ IsPrefix(page, selected)
    /\ Cardinality(page) = IF Cardinality(selected) < limit THEN Cardinality(selected) ELSE limit

StartWalk(from) ==
    /\ ~walking /\ walks < MaxWalks
    /\ walking' = TRUE /\ walks' = walks + 1
    /\ cursor' = NoCursor /\ since' = from
    /\ existing' = read(from) /\ seen' = {}
    /\ UNCHANGED <<clock, producer_vars, historian_vars>>

\* The client keeps a page and goes on from next_cursor; without one it is done.
FetchPage(limit) ==
    /\ walking
    /\ \E page \in SUBSET selected :
          /\ IsPage(page, limit)
          /\ seen' = seen \cup page
          /\ IF exhausted(limit)
             THEN walking' = FALSE /\ UNCHANGED cursor
             ELSE \E last \in page :
                     /\ IsLast(last, page)
                     /\ cursor' = total_order_key(last)
                     /\ UNCHANGED walking
    /\ UNCHANGED <<clock, producer_vars, historian_vars, since, existing, walks>>

\* The connection breaks within a page: the client keeps the rows it has and
\* resumes from the cursor that the last of them carries (Last-Event-ID).
BreakOff(limit) ==
    /\ walking
    /\ \E page \in SUBSET selected : \E kept \in SUBSET page : \E last \in kept :
          /\ IsPage(page, limit)
          /\ IsPrefix(kept, page) /\ IsLast(last, kept)
          /\ seen' = seen \cup kept
          /\ cursor' = total_order_key(last)
    /\ UNCHANGED <<clock, producer_vars, historian_vars, since, existing, walking, walks>>
-----------------------------------------------------------------------------
Init ==
    /\ clock = 0
    /\ sent = {} /\ restarts = 0
    /\ seq = [p \in Producers |-> 0] /\ stamp = [p \in Producers |-> 0]
    /\ events = <<>> /\ hash = NoHash /\ sealed = FALSE
    /\ received = [i \in Id |-> NoInstant]
    /\ next_seq = [p \in Producers |-> 0]
    /\ sidecar = [event_count |-> 0, event_log_hash |-> NoHash]
    /\ cursor = NoCursor /\ since = 0 /\ existing = {} /\ seen = {}
    /\ walking = FALSE /\ walks = 0

Next ==
    \/ Tick \/ Hash \/ seal
    \/ \E p \in Producers : Restart(p)
    \/ \E p \in Producers, run \in Runs : \E ts \in 0..clock+Skew : Emit(p, run, ts)
    \/ \E e \in sent : append(e)
    \/ \E from \in 0..MaxTime : StartWalk(from)
    \/ \E limit \in 1..MAX_PAGE_SIZE : FetchPage(limit) \/ BreakOff(limit)

Spec == Init /\ [][Next]_vars

\* A client that keeps asking, and if only for the smallest page.
WalkSpec == Spec /\ WF_vars(FetchPage(1))
-----------------------------------------------------------------------------
(* Properties.                                                             *)

\* The types of the fields; a number that follows the last one is next.
TypeOK ==
    /\ clock \in Nat
    /\ sent \subseteq Event /\ restarts \in Nat
    /\ seq \in [Producers -> Nat] /\ stamp \in [Producers -> Nat]
    /\ events \in Seq(Event) /\ sealed \in BOOLEAN
    /\ received \in [Id -> Nat \cup {NoInstant}]
    /\ next_seq \in [Producers -> 0..MaxSeq]
    /\ sidecar.event_count \in Nat
    /\ cursor \in Int \X Nat \X Nat /\ since \in Nat
    /\ existing \subseteq Recorded /\ seen \subseteq Recorded
    /\ walking \in BOOLEAN /\ walks \in Nat

\* Whatever the link and restarted producers do, append() keeps the log one the
\* gate passes: no id twice, no tie in the canonical order, every producer dense.
LogValid == check_log_invariants(events)

\* The hash that is held is the hash of the log as it stands; append() is the
\* only method that clears it.
HeldHashIsCurrent == hash # NoHash => hash = log_hash(events)

\* What the sidecar of a sealed run records is true of the log ever after.
SidecarIsTrue ==
    sealed => sidecar = [event_count |-> Len(events), event_log_hash |-> log_hash(events)]

\* The log and its arrivals can be played back: a clock driven to the arrival of
\* one event after the other never runs backwards and is never behind a stamp,
\* so that read_run() is not refused by advance_to() or by append().
ArrivalsReplayable ==
    \A i \in DOMAIN events :
        /\ events[i].ts <= received[id(events[i])]
        /\ \A j \in 1..i : received[id(events[j])] <= received[id(events[i])]

\* While no producer has restarted, the canonical order keeps the events of one
\* producer in the order of their numbers.
ProducerOrderKept ==
    restarts = 0 =>
        \A i, j \in DOMAIN events :
            events[i].producer = events[j].producer /\ events[i].seq < events[j].seq
                => Before(total_order_key(events[i]), total_order_key(events[j]))

\* INV-K16, nothing is skipped: what existed when the walk began is either with
\* the client or still after its cursor, and with the client when it is done.
NothingSkipped == existing \subseteq seen \cup (IF walking THEN selected ELSE {})

\* INV-K16, nothing comes twice: what the client has is not after its cursor.
NothingRepeated == walking => seen \cap selected = {}

\* INV-K16: a walk over a growing log skips and repeats nothing, whatever the page
\* sizes and wherever the connection breaks.
WalkIsExact == NothingSkipped /\ NothingRepeated

\* INV-K16 for every cursor: what exists after a cursor when it is made is on the
\* page fetched with it or after the cursor that page ends with.
CursorOwesTheRest ==
    [][walking => selected \subseteq seen' \cup (IF walking' THEN selected' ELSE {})]_vars

\* A client that keeps asking comes to the end of the log: a page never leaves it
\* with the cursor it was fetched with.
WalkEnds == walking ~> ~walking
=============================================================================
