----------------------------- MODULE StationLine -----------------------------
(***************************************************************************)
(* The receiving and putaway line of twinflow.twin (station.py): _Line,    *)
(* its pallet processes, its putaway servers and the station state trace,  *)
(* run by a SimPy environment.                                             *)
(*                                                                         *)
(* Two processes of one tick interleave through SimPy's event queue, whose *)
(* key is (time, priority, insertion counter).  Every process here waits   *)
(* for at most one event, so the queue is ev: the scheduled time and the   *)
(* insertion number of the event each process waits for.  A Store or a     *)
(* Resource TRIGGERS an event (decides it and queues it) in the caller's   *)
(* step and RESUMES the waiting process in a later one; between the two,   *)
(* other processes run.  One action below is one event taken off the       *)
(* queue with all its callbacks, in SimPy's order: the resource's own      *)
(* callback first, the waiting process second.                             *)
(***************************************************************************)
EXTENDS Integers, Sequences, FiniteSets, FiniteSetsExt

CONSTANTS
    NumPallets,         \* length of spec.arrivals
    Qty,                \* qty_units of each arrival
    ReleaseTicks,       \* the release ticks an arrival may be declared at
    ServiceTicks,       \* what _service_ticks may return; 0 when a draw rounds to it
    Horizons,           \* the horizon_ticks a caller may pass (NoHorizon for None)
    ReceivingCapacity, PutawayCapacity, StagingCapacity

NoHorizon == 0

\* Processes in the order run() creates them: the pallets, then the servers.
Pallets  == 1..NumPallets
Servers  == NumPallets+1 .. NumPallets+PutawayCapacity
Procs    == Pallets \cup Servers
Stations == {"receiving", "putaway"}
UnitColumns == {"received", "in_system", "putaway", "staged"}

\* The field constraints of PalletArrival, StationSpec and StationLineSpec.
ASSUME SpecAssumption ==
    /\ NumPallets \in Nat \ {0}
    /\ Qty \in [Pallets -> Nat \ {0}]
    /\ ReleaseTicks \subseteq Nat
    /\ ServiceTicks \subseteq Nat
    /\ Horizons \subseteq Nat
    /\ ReceivingCapacity \in Nat \ {0}
    /\ PutawayCapacity \in Nat \ {0}
    /\ StagingCapacity \in Nat \ {0}

VARIABLES
    now, counter,       \* env.now; the environment's insertion counter
    ev,                 \* [at, no] of the event each process waits for
    pc,                 \* which event that is (Scheduled ones are in the queue)
    release, horizon,   \* inputs of the run
    users, requests,    \* unload_servers: holders, and the requests not granted
    items, puts, gets,  \* staging: its items, blocked putters, waiting getters
    held,               \* the pallet a putaway server was handed
    pallet_state, raised, \* the state table; an IllegalTransitionError ended the run
    units,              \* units_received, units_in_system, units_putaway, units_staged
    max_staged,         \* max_staged_pallets
    busy, blocked,      \* server counts per station
    state, spell_start, spells,  \* the state trace per station
    sample,             \* the last wip_sampled event: units, queue_units
    staged_log,         \* pallets in the order their STAGED sample is on the tape
    finished            \* run() returned

queue_vars == <<now, counter, ev, pc>>
input_vars == <<release, horizon>>
dock_vars  == <<users, requests>>
store_vars == <<items, puts, gets, held>>
ledger_vars == <<units, max_staged, sample, staged_log>>
trace_vars == <<busy, blocked, state, spell_start, spells>>
vars == <<queue_vars, input_vars, dock_vars, store_vars, pallet_state, raised,
          ledger_vars, trace_vars, finished>>
-----------------------------------------------------------------------------
(* The pallet state table and the station states.                          *)

PALLET_TRANSITIONS ==
    { <<"EXPECTED", "ON_TRUCK">>, <<"ON_TRUCK", "UNLOADING">>,
      <<"UNLOADING", "STAGED">>, <<"STAGED", "AWAITING_PUTAWAY">>,
      <<"AWAITING_PUTAWAY", "STORED">> }

PalletState == { "EXPECTED", "ON_TRUCK", "UNLOADING", "STAGED",
                 "AWAITING_PUTAWAY", "STORED" }

StationState == {"IDLE_BLOCKED", "IDLE_NO_WORK", "IDLE_STARVED", "RUNNING"}

StateSpell == [state : StationState, start : Nat, end : Nat]

idle_state(st) == IF st = "receiving" THEN "IDLE_NO_WORK" ELSE "IDLE_STARVED"

observed(st, bs, bl) ==
    IF bl > 0 THEN "IDLE_BLOCKED" ELSE IF bs > 0 THEN "RUNNING" ELSE idle_state(st)

\* check_transition raises out of env.run, which ends the run with no result:
\* what the other variables become in that step is of no consequence.
transition(p, to) ==
    IF <<pallet_state[p], to>> \in PALLET_TRANSITIONS
    THEN pallet_state' = [pallet_state EXCEPT ![p] = to] /\ UNCHANGED raised
    ELSE raised' = TRUE /\ UNCHANGED pallet_state

\* Mutant: the state is observed before the counts change.
RefreshStale(st, bs, bl, t) ==
    /\ busy' = [busy EXCEPT ![st] = bs]
    /\ blocked' = [blocked EXCEPT ![st] = bl]
    /\ UNCHANGED spells
    /\ state' = [state EXCEPT ![st] = observed(st, busy[st], blocked[st])]
    /\ spell_start' = [spell_start EXCEPT ![st] = t]

\* Mutant: the next spell is opened where the closed one began.
RefreshKeepsStart(st, bs, bl, t) ==
    /\ busy' = [busy EXCEPT ![st] = bs]
    /\ blocked' = [blocked EXCEPT ![st] = bl]
    /\ spells' = [spells EXCEPT ![st] = Append(@,
           [state |-> state[st], start |-> spell_start[st], end |-> t])]
    /\ state' = [state EXCEPT ![st] = observed(st, bs, bl)]
    /\ UNCHANGED spell_start

\* The station's counts become bs and bl at tick t, and _refresh is called.
refresh(st, bs, bl, t) ==
    LET obs == observed(st, bs, bl) IN
    /\ busy' = [busy EXCEPT ![st] = bs]
    /\ blocked' = [blocked EXCEPT ![st] = bl]
    /\ IF obs = state[st]
       THEN UNCHANGED <<state, spell_start, spells>>
       ELSE /\ spells' = [spells EXCEPT ![st] = Append(@,
                   [state |-> state[st], start |-> spell_start[st], end |-> t])]
            /\ state' = [state EXCEPT ![st] = obs]
            /\ spell_start' = [spell_start EXCEPT ![st] = t]
-----------------------------------------------------------------------------
(* SimPy's queue.                                                          *)

Queued == {"init", "release", "request", "service", "put", "unblocked", "freed", "get"}
Scheduled == {a \in Procs : pc[a] \in Queued}

\* Mutant: ties at one tick resolved by the last insertion.
BeforeLastIn(a, b) ==
    \/ ev[a].at < ev[b].at
    \/ ev[a].at = ev[b].at /\ ev[a].no > ev[b].no

\* The heap order; all events here have one priority, because the Initialize
\* events, which are urgent, are also the first inserted at tick 0.
Before(a, b) ==
    \/ ev[a].at < ev[b].at
    \/ ev[a].at = ev[b].at /\ ev[a].no < ev[b].no

\* Mutant: the horizon's stop event is missing.
FiresPastHorizon(a, kind) ==
    /\ ~finished /\ ~raised
    /\ pc[a] = kind
    /\ \A b \in Scheduled \ {a} : Before(a, b)
    /\ now' = ev[a].at

\* step() takes a's event, which is of this kind, off the queue.  The stop
\* event of run(until=horizon) is urgent, so nothing at the horizon fires.
Fires(a, kind) ==
    /\ ~finished /\ ~raised
    /\ pc[a] = kind
    /\ \A b \in Scheduled \ {a} : Before(a, b)
    /\ horizon # NoHorizon => ev[a].at < horizon
    /\ now' = ev[a].at

\* The fired process a leaves the processes woken (at most one) with an event
\* of this tick, of kind wkind, and then waits itself for what akind names,
\* queued for tick t when that is a queued event.
Schedule(woken, wkind, a, akind, t) ==
    /\ counter' = counter + 2
    /\ pc' = [x \in Procs |-> IF x \in woken THEN wkind
                              ELSE IF x = a THEN akind ELSE pc[x]]
    /\ ev' = [x \in Procs |-> IF x \in woken THEN [at |-> now', no |-> counter + 1]
                              ELSE IF x = a THEN [at |-> t, no |-> counter + 2]
                              ELSE ev[x]]

(* The triggers of simpy.Resource and simpy.Store.  Each serves at most    *)
(* the head of its queue, because _do_put and _do_get return None.         *)

GrantOf(us, rq) ==
    IF rq # <<>> /\ Cardinality(us) < ReceivingCapacity THEN {Head(rq)} ELSE {}

TriggerRequest(us, rq) ==
    /\ users' = us \cup GrantOf(us, rq)
    /\ requests' = IF GrantOf(us, rq) = {} THEN rq ELSE Tail(rq)

\* Mutant: the last place of the buffer is never used.
PutOfOneShort(its, pq) ==
    IF pq # <<>> /\ Len(its) + 1 < StagingCapacity THEN {Head(pq)} ELSE {}

PutOf(its, pq) ==
    IF pq # <<>> /\ Len(its) < StagingCapacity THEN {Head(pq)} ELSE {}

TriggerPut(its, pq) ==
    /\ items' = IF PutOf(its, pq) = {} THEN its ELSE Append(its, Head(pq))
    /\ puts' = IF PutOf(its, pq) = {} THEN pq ELSE Tail(pq)

\* Mutant: the last pallet in the buffer is never taken.
GetOfAllButLast(its, gq) ==
    IF gq # <<>> /\ Len(its) > 1 THEN {Head(gq)} ELSE {}

GetOf(its, gq) ==
    IF gq # <<>> /\ its # <<>> THEN {Head(gq)} ELSE {}

\* Mutant: the buffer is emptied from its newest end.
TriggerGetNewest(its, gq) ==
    /\ items' = IF GetOf(its, gq) = {} THEN its ELSE SubSeq(its, 1, Len(its) - 1)
    /\ gets' = IF GetOf(its, gq) = {} THEN gq ELSE Tail(gq)
    /\ held' = [s \in Servers |-> IF s \in GetOf(its, gq) THEN its[Len(its)] ELSE held[s]]

TriggerGet(its, gq) ==
    /\ items' = IF GetOf(its, gq) = {} THEN its ELSE Tail(its)
    /\ gets' = IF GetOf(its, gq) = {} THEN gq ELSE Tail(gq)
    /\ held' = [s \in Servers |-> IF s \in GetOf(its, gq) THEN Head(its) ELSE held[s]]
-----------------------------------------------------------------------------
(* _pallet_process.                                                        *)

sample_wip == sample' = [units |-> units'["in_system"], queue |-> units'["staged"]]

\* The process starts; a pallet released later waits for its timeout.
AwaitRelease(p) ==
    /\ Fires(p, "init")
    /\ release[p] > 0
    /\ Schedule({}, "release", p, "release", now' + release[p])
    /\ UNCHANGED <<input_vars, dock_vars, store_vars, pallet_state, raised,
                   ledger_vars, trace_vars, finished>>

\* The pallet is on the truck and asks for an unload server.
Arrive(p) ==
    /\ \/ Fires(p, "init") /\ release[p] = 0
       \/ Fires(p, "release")
    /\ transition(p, "ON_TRUCK")
    /\ units' = [units EXCEPT !["received"] = @ + Qty[p], !["in_system"] = @ + Qty[p]]
    /\ sample_wip
    /\ TriggerRequest(users, Append(requests, p))
    /\ Schedule(GrantOf(users, Append(requests, p)), "request", p, "requesting", now')
    /\ UNCHANGED <<input_vars, store_vars, max_staged, staged_log, trace_vars, finished>>

\* A server is granted: unloading starts.
StartUnload(p) ==
    /\ Fires(p, "request")
    /\ refresh("receiving", busy["receiving"] + 1, blocked["receiving"], now')
    /\ transition(p, "UNLOADING")
    /\ \E ticks \in ServiceTicks : Schedule({}, "service", p, "service", now' + ticks)
    /\ UNCHANGED <<input_vars, dock_vars, store_vars, ledger_vars, finished>>

\* Unloading ends with the pallet offered to the staging buffer, its server
\* still held.  A put that is not triggered at once blocks the station, and is
\* the only one of the two cases that refreshes the trace before the wait.
FinishUnload(p) ==
    /\ Fires(p, "service")
    /\ LET woken == PutOf(items, Append(puts, p)) IN
       /\ TriggerPut(items, Append(puts, p))
       /\ Schedule(woken, IF p \in woken THEN "put" ELSE "unblocked", p, "putting", now')
       /\ IF p \in woken
          THEN /\ busy' = [busy EXCEPT !["receiving"] = @ - 1]
               /\ UNCHANGED <<blocked, state, spell_start, spells>>
          ELSE refresh("receiving", busy["receiving"] - 1, blocked["receiving"] + 1, now')
    /\ UNCHANGED <<input_vars, dock_vars, gets, held, pallet_state, raised,
                   ledger_vars, finished>>

\* The handover event: the store serves a waiting getter, then the pallet is
\* STAGED and leaving the with-block releases the unload server.
Stage(p) ==
    /\ \/ Fires(p, "put") /\ refresh("receiving", busy["receiving"], blocked["receiving"], now')
       \/ Fires(p, "unblocked") /\ refresh("receiving", busy["receiving"], blocked["receiving"] - 1, now')
    /\ TriggerGet(items, gets)
    /\ transition(p, "STAGED")
    /\ units' = [units EXCEPT !["staged"] = @ + Qty[p]]
    /\ max_staged' = IF Len(items') > max_staged THEN Len(items') ELSE max_staged
    /\ sample_wip
    /\ staged_log' = Append(staged_log, p)
    /\ users' = users \ {p}
    /\ Schedule(GetOf(items, gets), "get", p, "freed", now')
    /\ UNCHANGED <<input_vars, requests, puts, finished>>

\* The release event of the unload server grants the next request.
Freed(p) ==
    /\ Fires(p, "freed")
    /\ TriggerRequest(users, requests)
    /\ Schedule(GrantOf(users, requests), "request", p, "ended", now')
    /\ UNCHANGED <<input_vars, store_vars, pallet_state, raised, ledger_vars,
                   trace_vars, finished>>
-----------------------------------------------------------------------------
(* _putaway_server.                                                        *)

StartServer(s) ==
    /\ Fires(s, "init")
    /\ TriggerGet(items, Append(gets, s))
    /\ Schedule(GetOf(items, Append(gets, s)), "get", s, "getting", now')
    /\ UNCHANGED <<input_vars, dock_vars, puts, pallet_state, raised,
                   ledger_vars, trace_vars, finished>>

\* Mutant: the pallet taken is not taken off units_staged.
StartPutawayKeepsStaged(s) ==
    /\ Fires(s, "get")
    /\ TriggerPut(items, puts)
    /\ transition(held[s], "AWAITING_PUTAWAY")
    /\ refresh("putaway", busy["putaway"] + 1, blocked["putaway"], now')
    /\ \E ticks \in ServiceTicks :
          Schedule(PutOf(items, puts), "unblocked", s, "service", now' + ticks)
    /\ UNCHANGED <<input_vars, dock_vars, gets, held, ledger_vars, finished>>

\* The get event: the store lets one blocked put in, then putaway starts.
StartPutaway(s) ==
    /\ Fires(s, "get")
    /\ TriggerPut(items, puts)
    /\ units' = [units EXCEPT !["staged"] = @ - Qty[held[s]]]
    /\ transition(held[s], "AWAITING_PUTAWAY")
    /\ refresh("putaway", busy["putaway"] + 1, blocked["putaway"], now')
    /\ \E ticks \in ServiceTicks :
          Schedule(PutOf(items, puts), "unblocked", s, "service", now' + ticks)
    /\ UNCHANGED <<input_vars, dock_vars, gets, held, max_staged, sample,
                   staged_log, finished>>

\* Mutant: a stored pallet's units stay in the system.
FinishPutawayKeepsUnits(s) ==
    /\ Fires(s, "service")
    /\ transition(held[s], "STORED")
    /\ units' = [units EXCEPT !["putaway"] = @ + Qty[held[s]]]
    /\ refresh("putaway", busy["putaway"] - 1, blocked["putaway"], now')
    /\ sample_wip
    /\ TriggerGet(items, Append(gets, s))
    /\ Schedule(GetOf(items, Append(gets, s)), "get", s, "getting", now')
    /\ UNCHANGED <<input_vars, dock_vars, puts, max_staged, staged_log, finished>>

\* Putaway ends, and the server asks for the next pallet in the same step.
FinishPutaway(s) ==
    /\ Fires(s, "service")
    /\ transition(held[s], "STORED")
    /\ units' = [units EXCEPT !["in_system"] = @ - Qty[held[s]],
                              !["putaway"] = @ + Qty[held[s]]]
    /\ refresh("putaway", busy["putaway"] - 1, blocked["putaway"], now')
    /\ sample_wip
    /\ TriggerGet(items, Append(gets, s))
    /\ Schedule(GetOf(items, Append(gets, s)), "get", s, "getting", now')
    /\ UNCHANGED <<input_vars, dock_vars, puts, max_staged, staged_log, finished>>
-----------------------------------------------------------------------------
(* run().                                                                  *)

Init ==
    /\ release \in {r \in [Pallets -> ReleaseTicks] :
                       \A p, q \in Pallets : p < q => r[p] <= r[q]}
    /\ horizon \in Horizons
    /\ now = 0 /\ counter = NumPallets + PutawayCapacity
    /\ ev = [a \in Procs |-> [at |-> 0, no |-> a]]
    /\ pc = [a \in Procs |-> "init"]
    /\ users = {} /\ requests = <<>>
    /\ items = <<>> /\ puts = <<>> /\ gets = <<>>
    /\ held = [s \in Servers |-> 0]
    /\ pallet_state = [p \in Pallets |-> "EXPECTED"] /\ raised = FALSE
    /\ units = [col \in UnitColumns |-> 0]
    /\ max_staged = 0
    /\ sample = [units |-> 0, queue |-> 0]
    /\ staged_log = <<>>
    /\ busy = [st \in Stations |-> 0] /\ blocked = [st \in Stations |-> 0]
    /\ state = [st \in Stations |-> idle_state(st)]
    /\ spell_start = [st \in Stations |-> 0]
    /\ spells = [st \in Stations |-> <<>>]
    /\ finished = FALSE

\* env.run returns: the queue is empty, or the stop event at the horizon is
\* next.  Each station's open spell is closed at the end tick.
Finish ==
    /\ ~finished /\ ~raised
    /\ \/ horizon = NoHorizon /\ Scheduled = {} /\ now' = now
       \/ /\ horizon # NoHorizon
          /\ \A a \in Scheduled : ev[a].at >= horizon
          /\ now' = horizon
    /\ spells' = [st \in Stations |-> Append(spells[st],
           [state |-> state[st], start |-> spell_start[st], end |-> now'])]
    /\ finished' = TRUE
    /\ UNCHANGED <<counter, ev, pc, input_vars, dock_vars, store_vars, pallet_state,
                   raised, ledger_vars, busy, blocked, state, spell_start>>

PalletStep(p) ==
    \/ AwaitRelease(p) \/ Arrive(p) \/ StartUnload(p)
    \/ FinishUnload(p) \/ Stage(p) \/ Freed(p)

ServerStep(s) == StartServer(s) \/ StartPutaway(s) \/ FinishPutaway(s)

Next ==
    \/ \E p \in Pallets : PalletStep(p)
    \/ \E s \in Servers : ServerStep(s)
    \/ Finish

\* env.run takes events off the queue until it returns.
Spec == Init /\ [][Next]_vars /\ WF_vars(Next)
-----------------------------------------------------------------------------
(* Properties.                                                             *)

\* Every variable holds a value of its kind.
TypeOK ==
    /\ now \in Nat /\ counter \in Nat
    /\ ev \in [Procs -> [at : Nat, no : Nat]]
    /\ pc \in [Procs -> Queued \cup {"requesting", "putting", "getting", "ended"}]
    /\ release \in [Pallets -> Nat] /\ horizon \in Nat
    /\ users \subseteq Pallets /\ requests \in Seq(Pallets)
    /\ items \in Seq(Pallets) /\ puts \in Seq(Pallets) /\ gets \in Seq(Servers)
    /\ held \in [Servers -> Pallets \cup {0}]
    /\ pallet_state \in [Pallets -> PalletState] /\ raised \in BOOLEAN
    /\ units \in [UnitColumns -> Int]
    /\ max_staged \in Nat
    /\ sample \in [units : Int, queue : Int]
    /\ staged_log \in Seq(Pallets)
    /\ busy \in [Stations -> Int] /\ blocked \in [Stations -> Int]
    /\ state \in [Stations -> StationState]
    /\ spell_start \in [Stations -> Nat]
    /\ spells \in [Stations -> Seq(StateSpell)]
    /\ finished \in BOOLEAN

\* Every event of the current tick has been processed.
Quiet == \A a \in Scheduled : ev[a].at > now

\* check_transition never raises: a putaway server that is handed a pallet in
\* the very tick it is put resumes after the pallet's own process made it
\* STAGED, whatever the service times and the ties.
NoIllegalTransition == ~raised

(* The inductive invariant behind NoIllegalTransition.                     *)

Distinct(seq) == \A i, j \in DOMAIN seq : seq[i] = seq[j] => i = j

\* Nothing in the queue is in the past or newer than the counter.
QueueInv ==
    \A a \in Scheduled : now <= ev[a].at /\ ev[a].no <= counter

\* Where a process waits says which state its pallet is in.
PcInv ==
    /\ \A p \in Pallets :
        /\ pc[p] \in {"init", "release", "requesting", "request", "service",
                       "putting", "put", "unblocked", "freed", "ended"}
        /\ pc[p] \in {"init", "release"} => pallet_state[p] = "EXPECTED"
        /\ pc[p] \in {"requesting", "request"} => pallet_state[p] = "ON_TRUCK"
        /\ pc[p] \in {"service", "putting", "put", "unblocked"} => pallet_state[p] = "UNLOADING"
    /\ \A s \in Servers : pc[s] \in {"init", "getting", "get", "service"}

\* Whoever stands in a resource's queue waits for it, and stands there once.
WaitInv ==
    /\ \A p \in Range(requests) : pc[p] = "requesting"
    /\ \A p \in Range(puts) : pc[p] = "putting"
    /\ \A s \in Range(gets) : pc[s] = "getting"
    /\ Distinct(requests) /\ Distinct(puts) /\ Distinct(gets)

\* A put that is triggered and whose process has not resumed.
PutPending == {"put", "unblocked"}

\* What is in the buffer is staged or about to be, in this tick.
ItemsInv ==
    /\ Distinct(items)
    /\ \A p \in Range(items) : pc[p] \in PutPending \/ pallet_state[p] = "STAGED"
    /\ \A p \in Pallets : pc[p] \in PutPending => ev[p].at <= now

\* A server with a pallet.
Carrying == {"get", "service"}

\* A pallet is in the buffer or with one server, never both; the put event of
\* a pallet precedes the get event of the server it was handed to.
HandedInv ==
    /\ \A s \in Servers : pc[s] \in Carrying => held[s] \in Pallets
    /\ \A s \in Servers : pc[s] = "get" =>
          \/ pallet_state[held[s]] = "STAGED"
          \/ pc[held[s]] \in PutPending /\ Before(held[s], s)
    /\ \A s \in Servers : pc[s] = "service" => pallet_state[held[s]] = "AWAITING_PUTAWAY"
    /\ \A s \in Servers : pc[s] \in Carrying => held[s] \notin Range(items)
    /\ \A s, t \in Servers : pc[s] \in Carrying /\ pc[t] \in Carrying /\ held[s] = held[t] => s = t

\* The clock does not pass the horizon.
HorizonInv == horizon # NoHorizon => now <= horizon

HandoverInv ==
    NoIllegalTransition /\ QueueInv /\ PcInv /\ WaitInv /\ ItemsInv /\ HandedInv

\* What the proof of NoIllegalTransition carries from step to step: the put
\* event of a pallet is always taken before the get event it led to.
IInv == TypeOK /\ HorizonInv /\ HandoverInv

\* INV-TWIN-01, MaterialLedger.is_balanced with no scrap, at every event.
LedgerBalanced == units["received"] = units["in_system"] + units["putaway"]

\* The single units of the pallets, and how many are on a pallet in a state of S.
Units == UNION {{p} \X (1..Qty[p]) : p \in Pallets}
UnitsIn(S) == Cardinality({u \in Units : pallet_state[u[1]] \in S})

\* The running totals are the pallets' own states added up: no unit is counted
\* twice or dropped when a pallet is handed over, and units_staged is never
\* negative although the server subtracts what another process adds.
UnitsMatchStates ==
    /\ units["in_system"] = UnitsIn({"ON_TRUCK", "UNLOADING", "STAGED", "AWAITING_PUTAWAY"})
    /\ units["putaway"] = UnitsIn({"STORED"})
    /\ units["staged"] = UnitsIn({"STAGED"})

\* Blocking after service: a pallet that is being unloaded, or is unloaded and
\* blocked, holds an unload server, no server is held twice over, and the
\* station's blocked count is the number of pallets that wait for the buffer.
ServersAccounted ==
    /\ Cardinality(users) <= ReceivingCapacity
    /\ {p \in Pallets : pallet_state[p] = "UNLOADING"} \subseteq users
    /\ blocked["receiving"] = Cardinality({p \in Pallets : pc[p] \in {"putting", "unblocked"}})
    /\ busy["receiving"] = Cardinality({p \in Pallets : pc[p] = "service"})
    /\ busy["putaway"] = Cardinality({p \in Pallets : pallet_state[p] = "AWAITING_PUTAWAY"})

\* The line's counters are the pallets' states: units and servers alike.
CountersMatchStates == UnitsMatchStates /\ ServersAccounted

\* No lost wake-up: once a tick is over, nobody waits for what is there, although
\* each trigger serves at most one waiter.
NoLostWakeup ==
    Quiet => /\ gets # <<>> => items = <<>>
             /\ puts # <<>> => Len(items) = StagingCapacity
             /\ requests # <<>> => Cardinality(users) = ReceivingCapacity

\* INV-TWIN-09: a station's spells follow one another from tick 0 without gap
\* or overlap up to the open spell, or to the end of a run that returned, and
\* two neighbours differ in state.
SpellsPartition ==
    \A st \in Stations :
        LET sp == spells[st]
            n  == Len(sp)
        IN  /\ n > 0 => sp[1].start = 0 /\ sp[n].end = IF finished THEN now ELSE spell_start[st]
            /\ n = 0 => spell_start[st] = 0
            /\ \A i \in 1..n : sp[i].start <= sp[i].end
            /\ \A i \in 1..n-1 : sp[i].end = sp[i+1].start /\ sp[i].state # sp[i+1].state

\* The trace is true: when the clock moves on, each station is recorded in the
\* state its server counts show, so no stretch of time is charged to a stale one.
TraceIsCurrent ==
    Quiet => \A st \in Stations : state[st] = observed(st, busy[st], blocked[st])

\* Time-weighted WIP may be integrated from the samples: when the clock moves
\* on, the last sample carries the units in the system.  Its queue_units is not
\* taken again when a putaway server pulls a pallet, so it may be too high while
\* time passes, but never too low: a queue from the samples is an upper bound.
SampleIsCurrent ==
    Quiet => sample.units = units["in_system"] /\ sample.queue >= units["staged"]

\* What a station line records of itself holds for the stretch of time that follows:
\* the state of each station and the last sample of the work in process.
RecordIsCurrent == TraceIsCurrent /\ SampleIsCurrent

\* A run without a horizon returns, with every pallet in storage: the line does
\* not block on itself.
AllStored ==
    (horizon = NoHorizon) =>
        <>(finished /\ \A p \in Pallets : pallet_state[p] = "STORED")

\* The pallets a putaway server has taken, and what the log has after as many: the
\* staged pallets, oldest first, if pallets leave in the order they came.
Taken == {p \in Pallets : pallet_state[p] \in {"AWAITING_PUTAWAY", "STORED"}}
StillStaged == SubSeq(staged_log, Cardinality(Taken) + 1, Len(staged_log))

\* The line implements the bounded, first in first out line of ReceivingLine.
Line == INSTANCE ReceivingLine WITH buffer <- StillStaged
ImplementsLine == Line!Spec
=============================================================================
