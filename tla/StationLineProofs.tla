-------------------------- MODULE StationLineProofs --------------------------
(***************************************************************************)
(* Theorems about StationLine, for every number of pallets, every capacity *)
(* and every service and release time: first the handover of pallets from  *)
(* server to server and the inductive invariant behind it, then what the   *)
(* line records of itself, the state trace of each station, the samples,   *)
(* the counters and the wake-ups of its resources, and last that the line, *)
(* with its event queue and its clock, implements ReceivingLine, a bounded *)
(* first in, first out line.  That argument is about the order of pallets: *)
(* a pallet is put into the store, handed to a server, recorded as STAGED  *)
(* and taken off by the server in four different events, between which     *)
(* other pallets pass, and all four happen in one order.                   *)
(***************************************************************************)
EXTENDS StationLine, FiniteSetTheorems, SequenceTheorems, TLAPS

\* Removing the head of a non-empty sequence leaves a sequence of the same set.
LEMMA TailType ==
    ASSUME NEW S, NEW q \in Seq(S), q # <<>>
    PROVE  /\ Tail(q) \in Seq(S)
           /\ Head(q) \in S
           /\ Len(Tail(q)) = Len(q) - 1
           /\ \A i \in 1..Len(Tail(q)) : Tail(q)[i] = q[i+1]
           /\ DOMAIN Tail(q) = 1..Len(Tail(q))
           /\ Head(q) = q[1] /\ 1 \in DOMAIN q
  OBVIOUS

\* The resource triggers keep their queues sequences of processes.
LEMMA TriggerRequestType ==
    ASSUME NEW us \in SUBSET Pallets, NEW rq \in Seq(Pallets), TriggerRequest(us, rq)
    PROVE  users' \subseteq Pallets /\ requests' \in Seq(Pallets)
           /\ GrantOf(us, rq) \subseteq Pallets
  BY TailType DEF TriggerRequest, GrantOf

\* _trigger_put of the store keeps its items and waiting puts sequences of pallets.
LEMMA TriggerPutType ==
    ASSUME NEW its \in Seq(Pallets), NEW pq \in Seq(Pallets), TriggerPut(its, pq)
    PROVE  items' \in Seq(Pallets) /\ puts' \in Seq(Pallets)
           /\ PutOf(its, pq) \subseteq Pallets
  BY TailType DEF TriggerPut, PutOf

\* _trigger_get of the store keeps its items and waiting gets typed, and what a
\* server carries a pallet or nothing.
LEMMA TriggerGetType ==
    ASSUME NEW its \in Seq(Pallets), NEW gq \in Seq(Servers), TriggerGet(its, gq),
           held \in [Servers -> Pallets \cup {0}]
    PROVE  /\ items' \in Seq(Pallets) /\ gets' \in Seq(Servers)
           /\ held' \in [Servers -> Pallets \cup {0}]
           /\ GetOf(its, gq) \subseteq Servers
  BY TailType DEF TriggerGet, GetOf

PcSet == Queued \cup {"requesting", "putting", "getting", "ended"}

\* What a step puts on the event queue keeps the queue typed.
LEMMA ScheduleType ==
    ASSUME TypeOK, now' \in Nat, NEW woken, NEW wkind \in PcSet, NEW a, NEW akind \in PcSet,
           NEW t \in Nat, Schedule(woken, wkind, a, akind, t)
    PROVE  /\ counter' \in Nat
           /\ ev' \in [Procs -> [at : Nat, no : Nat]]
           /\ pc' \in [Procs -> PcSet]
  BY DEF Schedule, TypeOK, PcSet

\* Taking an event off the queue leaves the clock a number.
LEMMA FiresType ==
    ASSUME TypeOK, NEW a \in Procs, NEW kind, Fires(a, kind)
    PROVE  now' \in Nat
  BY DEF Fires, TypeOK

\* transition() leaves every pallet in a state of PalletState.
LEMMA TransitionType ==
    ASSUME TypeOK, NEW p \in Pallets, NEW to \in PalletState, transition(p, to)
    PROVE  pallet_state' \in [Pallets -> PalletState] /\ raised' \in BOOLEAN
  BY DEF transition, TypeOK

\* Adding an element of the set keeps a sequence of the set.
LEMMA AppendType ==
    ASSUME NEW S, NEW q \in Seq(S), NEW e \in S
    PROVE  /\ Append(q, e) \in Seq(S)
           /\ Len(Append(q, e)) = Len(q) + 1
           /\ \A i \in 1..Len(q) : Append(q, e)[i] = q[i]
           /\ Append(q, e)[Len(q) + 1] = e
           /\ DOMAIN Append(q, e) = 1..Len(q)+1
           /\ DOMAIN q = 1..Len(q)
           /\ Append(q, e) # <<>>
  OBVIOUS

\* _refresh() of a station keeps its counters and its spells typed.
LEMMA RefreshType ==
    ASSUME TypeOK, NEW st \in Stations, NEW bs \in Int, NEW bl \in Int, NEW t \in Nat,
           refresh(st, bs, bl, t)
    PROVE  /\ busy' \in [Stations -> Int] /\ blocked' \in [Stations -> Int]
           /\ state' \in [Stations -> StationState]
           /\ spell_start' \in [Stations -> Nat]
           /\ spells' \in [Stations -> Seq(StateSpell)]
  <1>1. observed(st, bs, bl) \in StationState
    BY DEF observed, idle_state, StationState
  <1> DEFINE new == [state |-> state[st], start |-> spell_start[st], end |-> t]
  <1>2. new \in StateSpell
    BY DEF TypeOK, StateSpell
  <1>3. Append(spells[st], new) \in Seq(StateSpell)
    BY <1>2, AppendType DEF TypeOK
  <1> HIDE DEF new
  <1>4. spells' \in [Stations -> Seq(StateSpell)]
    BY <1>3 DEF refresh, TypeOK, new
  <1> QED BY <1>1, <1>4 DEF refresh, TypeOK

\* Pallets and putaway servers are the processes of the run.
LEMMA ProcsSplit == Pallets \subseteq Procs /\ Servers \subseteq Procs
  BY DEF Procs

\* The sampled service times and the quantities are numbers.
LEMMA InputTypes ==
    /\ \A t \in ServiceTicks : t \in Nat
    /\ \A p \in Pallets : Qty[p] \in Nat
  BY SpecAssumption

\* The control points by name, for the steps that move a process to one of them.
LEMMA PcMembers ==
    {"init", "release", "request", "service", "put", "unblocked", "freed", "get",
     "requesting", "putting", "getting", "ended"} = PcSet
  BY DEF PcSet, Queued

\* Every action keeps every variable in its type.  The ledger needs only that
\* Qty is a number, so it is treated here for all actions at once.
LEMMA TypeStep ==
    ASSUME TypeOK, HandedInv, [Next]_vars
    PROVE  TypeOK'
  <1>1. CASE UNCHANGED vars
    BY <1>1 DEF TypeOK, vars, queue_vars, input_vars, dock_vars, store_vars, ledger_vars, trace_vars
  <1>2. ASSUME NEW p \in Pallets, AwaitRelease(p)
        PROVE  TypeOK'
    <2>1. now' \in Nat BY <1>2, FiresType, ProcsSplit DEF AwaitRelease
    <2>2. now' + release[p] \in Nat BY <2>1 DEF TypeOK
    <2>3. counter' \in Nat /\ ev' \in [Procs -> [at : Nat, no : Nat]] /\ pc' \in [Procs -> PcSet]
      BY <1>2, <2>1, <2>2, ScheduleType, PcMembers DEF AwaitRelease
    <2> QED BY <1>2, <2>1, <2>3 DEF AwaitRelease, TypeOK, PcSet, input_vars, dock_vars,
                                store_vars, ledger_vars, trace_vars
  <1>3. ASSUME NEW p \in Pallets, Arrive(p)
        PROVE  TypeOK'
    <2>1. now' \in Nat BY <1>3, FiresType, ProcsSplit DEF Arrive
    <2>2. Append(requests, p) \in Seq(Pallets) BY AppendType DEF TypeOK
    <2>3. users' \subseteq Pallets /\ requests' \in Seq(Pallets)
      BY <1>3, <2>2, TriggerRequestType DEF Arrive, TypeOK
    <2>4. counter' \in Nat /\ ev' \in [Procs -> [at : Nat, no : Nat]] /\ pc' \in [Procs -> PcSet]
      BY <1>3, <2>1, ScheduleType, PcMembers DEF Arrive
    <2>5. pallet_state' \in [Pallets -> PalletState] /\ raised' \in BOOLEAN
      BY <1>3, TransitionType DEF Arrive, PalletState
    <2>6. /\ units' \in [UnitColumns -> Int]
          /\ sample' \in [units : Int, queue : Int]
      <3>1. /\ units' = [units EXCEPT !["received"] = @ + Qty[p], !["in_system"] = @ + Qty[p]]
            /\ sample_wip
        BY <1>3 DEF Arrive
      <3>2. units \in [UnitColumns -> Int] /\ Qty[p] \in Int
        BY InputTypes DEF TypeOK
      <3> QED BY <3>1, <3>2 DEF sample_wip, UnitColumns
    <2> QED BY <1>3, <2>1, <2>3, <2>4, <2>5, <2>6
            DEF Arrive, TypeOK, PcSet, input_vars, store_vars, trace_vars
  <1>4. ASSUME NEW p \in Pallets, StartUnload(p)
        PROVE  TypeOK'
    <2>1. now' \in Nat BY <1>4, FiresType, ProcsSplit DEF StartUnload
    <2>2. PICK ticks \in ServiceTicks : Schedule({}, "service", p, "service", now' + ticks)
      BY <1>4 DEF StartUnload
    <2>3. counter' \in Nat /\ ev' \in [Procs -> [at : Nat, no : Nat]] /\ pc' \in [Procs -> PcSet]
      <3>1. now' + ticks \in Nat BY <2>1, InputTypes
      <3> QED BY <2>1, <2>2, <3>1, ScheduleType, PcMembers
    <2>4. pallet_state' \in [Pallets -> PalletState] /\ raised' \in BOOLEAN
      BY <1>4, TransitionType DEF StartUnload, PalletState
    <2>5. /\ busy' \in [Stations -> Int] /\ blocked' \in [Stations -> Int]
          /\ state' \in [Stations -> StationState] /\ spell_start' \in [Stations -> Nat]
          /\ spells' \in [Stations -> Seq(StateSpell)]
      <3>1. "receiving" \in Stations /\ busy["receiving"] + 1 \in Int /\ blocked["receiving"] \in Int
        BY DEF Stations, TypeOK
      <3> QED BY <1>4, <2>1, <3>1, RefreshType DEF StartUnload
    <2> QED BY <1>4, <2>1, <2>3, <2>4, <2>5
            DEF StartUnload, TypeOK, PcSet, input_vars, dock_vars, store_vars, ledger_vars
  <1>5. ASSUME NEW p \in Pallets, FinishUnload(p)
        PROVE  TypeOK'
    <2>1. now' \in Nat BY <1>5, FiresType, ProcsSplit DEF FinishUnload
    <2>2. Append(puts, p) \in Seq(Pallets) BY AppendType DEF TypeOK
    <2>3. items' \in Seq(Pallets) /\ puts' \in Seq(Pallets)
      BY <1>5, <2>2, TriggerPutType DEF FinishUnload, TypeOK
    <2>4. counter' \in Nat /\ ev' \in [Procs -> [at : Nat, no : Nat]] /\ pc' \in [Procs -> PcSet]
      BY <1>5, <2>1, ScheduleType, PcMembers DEF FinishUnload
    <2>5. /\ busy' \in [Stations -> Int] /\ blocked' \in [Stations -> Int]
          /\ state' \in [Stations -> StationState] /\ spell_start' \in [Stations -> Nat]
          /\ spells' \in [Stations -> Seq(StateSpell)]
      <3>1. /\ "receiving" \in Stations
            /\ busy["receiving"] - 1 \in Int /\ blocked["receiving"] + 1 \in Int
        BY SMTT(60) DEF Stations, TypeOK
      <3>2. \/ refresh("receiving", busy["receiving"] - 1, blocked["receiving"] + 1, now')
            \/ /\ busy' = [busy EXCEPT !["receiving"] = @ - 1]
               /\ UNCHANGED <<blocked, state, spell_start, spells>>
        BY <1>5 DEF FinishUnload
      <3>3. CASE refresh("receiving", busy["receiving"] - 1, blocked["receiving"] + 1, now')
        BY <2>1, <3>1, <3>3, RefreshType
      <3> QED BY <3>1, <3>2, <3>3 DEF TypeOK
    <2> QED BY <1>5, <2>1, <2>3, <2>4, <2>5
            DEF FinishUnload, TypeOK, PcSet, input_vars, dock_vars, ledger_vars
  <1>6. ASSUME NEW p \in Pallets, Stage(p)
        PROVE  TypeOK'
    <2>1. now' \in Nat BY <1>6, FiresType, ProcsSplit DEF Stage
    <2>2. /\ items' \in Seq(Pallets) /\ gets' \in Seq(Servers)
          /\ held' \in [Servers -> Pallets \cup {0}]
      BY <1>6, TriggerGetType DEF Stage, TypeOK
    <2>3. counter' \in Nat /\ ev' \in [Procs -> [at : Nat, no : Nat]] /\ pc' \in [Procs -> PcSet]
      BY <1>6, <2>1, ScheduleType, PcMembers DEF Stage
    <2>4. pallet_state' \in [Pallets -> PalletState] /\ raised' \in BOOLEAN
      BY <1>6, TransitionType DEF Stage, PalletState
    <2>5. /\ busy' \in [Stations -> Int] /\ blocked' \in [Stations -> Int]
          /\ state' \in [Stations -> StationState] /\ spell_start' \in [Stations -> Nat]
          /\ spells' \in [Stations -> Seq(StateSpell)]
      <3>1. /\ "receiving" \in Stations /\ busy["receiving"] \in Int
            /\ blocked["receiving"] \in Int /\ blocked["receiving"] - 1 \in Int
        BY DEF Stations, TypeOK
      <3> QED BY <1>6, <2>1, <3>1, RefreshType DEF Stage
    <2>6. units' \in [UnitColumns -> Int] /\ sample' \in [units : Int, queue : Int]
      <3>1. units' = [units EXCEPT !["staged"] = @ + Qty[p]] /\ sample_wip
        BY <1>6 DEF Stage
      <3>2. Qty[p] \in Int /\ units \in [UnitColumns -> Int]
        BY InputTypes DEF TypeOK
      <3> QED BY <3>1, <3>2 DEF sample_wip, UnitColumns
    <2>7. max_staged' \in Nat /\ staged_log' \in Seq(Pallets)
      BY <1>6, <2>2, AppendType DEF Stage, TypeOK
    <2> QED BY <1>6, <2>1, <2>2, <2>3, <2>4, <2>5, <2>6, <2>7
            DEF Stage, TypeOK, PcSet, input_vars
  <1>7. ASSUME NEW p \in Pallets, Freed(p)
        PROVE  TypeOK'
    <2>1. now' \in Nat BY <1>7, FiresType, ProcsSplit DEF Freed
    <2>2. users' \subseteq Pallets /\ requests' \in Seq(Pallets)
      BY <1>7, TriggerRequestType DEF Freed, TypeOK
    <2>3. counter' \in Nat /\ ev' \in [Procs -> [at : Nat, no : Nat]] /\ pc' \in [Procs -> PcSet]
      BY <1>7, <2>1, ScheduleType, PcMembers DEF Freed
    <2> QED BY <1>7, <2>1, <2>2, <2>3
            DEF Freed, TypeOK, PcSet, input_vars, store_vars, ledger_vars, trace_vars
  <1>8. ASSUME NEW s \in Servers, StartServer(s)
        PROVE  TypeOK'
    <2>1. now' \in Nat BY <1>8, FiresType, ProcsSplit DEF StartServer
    <2>2. Append(gets, s) \in Seq(Servers) BY AppendType DEF TypeOK
    <2>3. /\ items' \in Seq(Pallets) /\ gets' \in Seq(Servers)
          /\ held' \in [Servers -> Pallets \cup {0}]
      BY <1>8, <2>2, TriggerGetType DEF StartServer, TypeOK
    <2>4. counter' \in Nat /\ ev' \in [Procs -> [at : Nat, no : Nat]] /\ pc' \in [Procs -> PcSet]
      BY <1>8, <2>1, ScheduleType, PcMembers DEF StartServer
    <2> QED BY <1>8, <2>1, <2>3, <2>4
            DEF StartServer, TypeOK, PcSet, input_vars, dock_vars, ledger_vars, trace_vars
  <1>9. ASSUME NEW s \in Servers, StartPutaway(s)
        PROVE  TypeOK'
    <2>1. now' \in Nat BY <1>9, FiresType, ProcsSplit DEF StartPutaway
    <2>2. held[s] \in Pallets
      BY <1>9 DEF StartPutaway, Fires, HandedInv, Carrying
    <2>3. items' \in Seq(Pallets) /\ puts' \in Seq(Pallets)
      BY <1>9, TriggerPutType DEF StartPutaway, TypeOK
    <2>4. PICK ticks \in ServiceTicks :
             Schedule(PutOf(items, puts), "unblocked", s, "service", now' + ticks)
      BY <1>9 DEF StartPutaway
    <2>5. counter' \in Nat /\ ev' \in [Procs -> [at : Nat, no : Nat]] /\ pc' \in [Procs -> PcSet]
      <3>1. now' + ticks \in Nat BY <2>1, InputTypes
      <3> QED BY <2>1, <2>4, <3>1, ScheduleType, PcMembers
    <2>6. pallet_state' \in [Pallets -> PalletState] /\ raised' \in BOOLEAN
      BY <1>9, <2>2, TransitionType DEF StartPutaway, PalletState
    <2>7. /\ busy' \in [Stations -> Int] /\ blocked' \in [Stations -> Int]
          /\ state' \in [Stations -> StationState] /\ spell_start' \in [Stations -> Nat]
          /\ spells' \in [Stations -> Seq(StateSpell)]
      <3>1. "putaway" \in Stations /\ busy["putaway"] + 1 \in Int /\ blocked["putaway"] \in Int
        BY DEF Stations, TypeOK
      <3> QED BY <1>9, <2>1, <3>1, RefreshType DEF StartPutaway
    <2>8. units' \in [UnitColumns -> Int]
      <3>1. units' = [units EXCEPT !["staged"] = @ - Qty[held[s]]]
        BY <1>9 DEF StartPutaway
      <3>2. Qty[held[s]] \in Int /\ units \in [UnitColumns -> Int]
        BY <2>2, InputTypes DEF TypeOK
      <3> QED BY <3>1, <3>2 DEF UnitColumns
    <2> QED BY <1>9, <2>1, <2>3, <2>5, <2>6, <2>7, <2>8
            DEF StartPutaway, TypeOK, PcSet, input_vars, dock_vars
  <1>10. ASSUME NEW s \in Servers, FinishPutaway(s)
         PROVE  TypeOK'
    <2>1. now' \in Nat BY <1>10, FiresType, ProcsSplit DEF FinishPutaway
    <2>2. held[s] \in Pallets
      BY <1>10 DEF FinishPutaway, Fires, HandedInv, Carrying
    <2>3. Append(gets, s) \in Seq(Servers) BY AppendType DEF TypeOK
    <2>4. /\ items' \in Seq(Pallets) /\ gets' \in Seq(Servers)
          /\ held' \in [Servers -> Pallets \cup {0}]
      BY <1>10, <2>3, TriggerGetType DEF FinishPutaway, TypeOK
    <2>5. counter' \in Nat /\ ev' \in [Procs -> [at : Nat, no : Nat]] /\ pc' \in [Procs -> PcSet]
      BY <1>10, <2>1, ScheduleType, PcMembers DEF FinishPutaway
    <2>6. pallet_state' \in [Pallets -> PalletState] /\ raised' \in BOOLEAN
      BY <1>10, <2>2, TransitionType DEF FinishPutaway, PalletState
    <2>7. /\ busy' \in [Stations -> Int] /\ blocked' \in [Stations -> Int]
          /\ state' \in [Stations -> StationState] /\ spell_start' \in [Stations -> Nat]
          /\ spells' \in [Stations -> Seq(StateSpell)]
      <3>1. "putaway" \in Stations /\ busy["putaway"] - 1 \in Int /\ blocked["putaway"] \in Int
        BY DEF Stations, TypeOK
      <3> QED BY <1>10, <2>1, <3>1, RefreshType DEF FinishPutaway
    <2>8. units' \in [UnitColumns -> Int] /\ sample' \in [units : Int, queue : Int]
      <3>1. /\ units' = [units EXCEPT !["in_system"] = @ - Qty[held[s]],
                                     !["putaway"] = @ + Qty[held[s]]]
            /\ sample_wip
        BY <1>10 DEF FinishPutaway
      <3>2. Qty[held[s]] \in Int /\ units \in [UnitColumns -> Int]
        BY <2>2, InputTypes DEF TypeOK
      <3> QED BY <3>1, <3>2 DEF sample_wip, UnitColumns
    <2> QED BY <1>10, <2>1, <2>4, <2>5, <2>6, <2>7, <2>8
            DEF FinishPutaway, TypeOK, PcSet, input_vars, dock_vars
  <1>11. ASSUME Finish
         PROVE  TypeOK'
    <2>1. now' \in Nat BY <1>11 DEF Finish, TypeOK
    <2>2. \A st \in Stations :
            [state |-> state[st], start |-> spell_start[st], end |-> now'] \in StateSpell
      BY <2>1 DEF TypeOK, StateSpell
    <2>3. \A st \in Stations : Append(spells[st],
            [state |-> state[st], start |-> spell_start[st], end |-> now']) \in Seq(StateSpell)
      BY <2>2, AppendType DEF TypeOK
    <2>4. spells' \in [Stations -> Seq(StateSpell)]
      BY <1>11, <2>3 DEF Finish
    <2> QED BY <1>11, <2>1, <2>4
            DEF Finish, TypeOK, input_vars, dock_vars, store_vars, ledger_vars
  <1> QED BY <1>1, <1>2, <1>3, <1>4, <1>5, <1>6, <1>7, <1>8, <1>9, <1>10, <1>11
          DEF Next, PalletStep, ServerStep

-----------------------------------------------------------------------------
(* What the triggers do, as sets of processes.                             *)

\* A process that joins a queue it is not in leaves the queue without repetition.
LEMMA RangeAppend ==
    ASSUME NEW S, NEW q \in Seq(S), NEW e \in S
    PROVE  /\ Range(Append(q, e)) = Range(q) \cup {e}
           /\ Distinct(q) /\ e \notin Range(q) => Distinct(Append(q, e))
  <1>1. Range(Append(q, e)) = Range(q) \cup {e}
    BY AppendType DEF Range
  <1>2. ASSUME Distinct(q), e \notin Range(q) PROVE Distinct(Append(q, e))
    BY <1>2, AppendType DEF Range, Distinct
  <1> QED BY <1>1, <1>2

\* The first of a queue without repetition is not in the rest of it.
LEMMA RangeTail ==
    ASSUME NEW S, NEW q \in Seq(S), q # <<>>, Distinct(q)
    PROVE  /\ Head(q) \in Range(q) /\ Range(q) \subseteq S
           /\ Range(Tail(q)) = Range(q) \ {Head(q)}
           /\ Distinct(Tail(q))
  <1>1. /\ DOMAIN q = 1..Len(q) /\ Len(q) \in Nat /\ 1 \in DOMAIN q
        /\ DOMAIN Tail(q) = 1..Len(q)-1 /\ Head(q) = q[1]
        /\ \A i \in 1..Len(q)-1 : Tail(q)[i] = q[i+1]
    BY TailType
  <1>2. Head(q) \in Range(q) /\ Range(q) \subseteq S
    BY <1>1 DEF Range
  <1>3. Range(Tail(q)) \subseteq Range(q) \ {Head(q)}
    BY <1>1 DEF Range, Distinct
  <1>4. ASSUME NEW x \in Range(q) \ {Head(q)} PROVE x \in Range(Tail(q))
    <2>1. PICK i \in DOMAIN q : x = q[i] BY <1>4 DEF Range
    <2>2. i # 1 /\ i - 1 \in 1..Len(q)-1 /\ (i - 1) + 1 = i BY <1>1, <1>4, <2>1
    <2>3. Tail(q)[i-1] = x BY <1>1, <2>1, <2>2
    <2> QED BY <1>1, <2>2, <2>3 DEF Range
  <1>5. Distinct(Tail(q))
    BY <1>1 DEF Distinct
  <1> QED BY <1>2, <1>3, <1>4, <1>5

\* A grant of the dock takes at most one pallet out of the request queue.
LEMMA GrantEffect ==
    ASSUME NEW us \in SUBSET Pallets, NEW rq \in Seq(Pallets), Distinct(rq),
           TriggerRequest(us, rq)
    PROVE  \/ GrantOf(us, rq) = {} /\ requests' = rq
           \/ \E h \in Range(rq) :
                 /\ h \in Pallets /\ GrantOf(us, rq) = {h}
                 /\ Range(requests') = Range(rq) \ {h} /\ Distinct(requests')
  BY RangeTail DEF TriggerRequest, GrantOf

\* A put of the store moves at most one pallet from the waiting puts to the items.
LEMMA PutEffect ==
    ASSUME NEW its \in Seq(Pallets), NEW pq \in Seq(Pallets), Distinct(its), Distinct(pq),
           Range(its) \cap Range(pq) = {}, TriggerPut(its, pq)
    PROVE  \/ PutOf(its, pq) = {} /\ items' = its /\ puts' = pq
           \/ \E h \in Range(pq) :
                 /\ h \in Pallets /\ PutOf(its, pq) = {h}
                 /\ Range(items') = Range(its) \cup {h} /\ Distinct(items')
                 /\ Range(puts') = Range(pq) \ {h} /\ Distinct(puts')
  <1>1. CASE PutOf(its, pq) = {}
    BY <1>1 DEF TriggerPut
  <1>2. CASE PutOf(its, pq) # {}
    <2>1. pq # <<>> /\ PutOf(its, pq) = {Head(pq)} BY <1>2 DEF PutOf
    <2>2. Head(pq) \in Range(pq) /\ Head(pq) \in Pallets /\ Head(pq) \notin Range(its)
      BY <2>1, RangeTail
    <2>3. items' = Append(its, Head(pq)) /\ puts' = Tail(pq)
      BY <1>2 DEF TriggerPut
    <2>4. Range(items') = Range(its) \cup {Head(pq)} /\ Distinct(items')
      BY <2>2, <2>3, RangeAppend
    <2>5. Range(puts') = Range(pq) \ {Head(pq)} /\ Distinct(puts')
      BY <2>1, <2>3, RangeTail
    <2> QED BY <2>1, <2>2, <2>4, <2>5
  <1> QED BY <1>1, <1>2

\* A get of the store moves at most one pallet from the items to a waiting server.
LEMMA GetEffect ==
    ASSUME NEW its \in Seq(Pallets), NEW gq \in Seq(Servers), Distinct(its), Distinct(gq),
           held \in [Servers -> Pallets \cup {0}], TriggerGet(its, gq)
    PROVE  \/ GetOf(its, gq) = {} /\ items' = its /\ gets' = gq /\ held' = held
           \/ \E g \in Range(gq), h \in Range(its) :
                 /\ g \in Servers /\ h \in Pallets /\ GetOf(its, gq) = {g}
                 /\ Range(items') = Range(its) \ {h} /\ Distinct(items')
                 /\ Range(gets') = Range(gq) \ {g} /\ Distinct(gets')
                 /\ held' = [held EXCEPT ![g] = h]
  <1>1. CASE GetOf(its, gq) = {}
    <2>1. items' = its /\ gets' = gq BY <1>1 DEF TriggerGet
    <2>2. held' = [s \in Servers |-> held[s]] BY <1>1 DEF TriggerGet
    <2> QED BY <1>1, <2>1, <2>2
  <1>2. CASE GetOf(its, gq) # {}
    <2>1. gq # <<>> /\ its # <<>> /\ GetOf(its, gq) = {Head(gq)} BY <1>2 DEF GetOf
    <2>2. /\ Head(gq) \in Range(gq) /\ Head(gq) \in Servers
          /\ Range(Tail(gq)) = Range(gq) \ {Head(gq)} /\ Distinct(Tail(gq))
      BY <2>1, RangeTail
    <2>3. /\ Head(its) \in Range(its) /\ Head(its) \in Pallets
          /\ Range(Tail(its)) = Range(its) \ {Head(its)} /\ Distinct(Tail(its))
      BY <2>1, RangeTail
    <2>4. items' = Tail(its) /\ gets' = Tail(gq) BY <1>2 DEF TriggerGet
    <2>5. held' = [held EXCEPT ![Head(gq)] = Head(its)]
      BY <2>1, <2>2, <2>3 DEF TriggerGet
    <2> QED BY <2>1, <2>2, <2>3, <2>4, <2>5
  <1> QED BY <1>1, <1>2

-----------------------------------------------------------------------------
(* The handover invariant is inductive.                                    *)

\* No process is both a pallet and a putaway server.
LEMMA Disjoint == \A p \in Pallets, s \in Servers : p # s
  BY SpecAssumption DEF Pallets, Servers

\* What taking the earliest event off the queue says about the others.
LEMMA FiresFacts ==
    ASSUME TypeOK, QueueInv, NEW a \in Procs, NEW kind \in Queued, Fires(a, kind)
    PROVE  /\ pc[a] = kind /\ now' = ev[a].at /\ now' \in Nat /\ now <= now'
           /\ raised = FALSE
           /\ \A b \in Scheduled : now' <= ev[b].at
           /\ \A b \in Scheduled \ {a} : ~Before(b, a)
  <1>1. a \in Scheduled BY DEF Fires, Scheduled
  <1>2. \A b \in Procs : ev[b].at \in Nat /\ ev[b].no \in Nat BY DEF TypeOK
  <1>3. raised = FALSE BY DEF Fires, TypeOK
  <1>4. pc[a] = kind /\ now' = ev[a].at /\ now' \in Nat /\ now <= now'
    BY <1>1, <1>2 DEF Fires, QueueInv
  <1>5. ASSUME NEW b \in Scheduled \ {a} PROVE now' <= ev[b].at /\ ~Before(b, a)
    <2>1. Before(a, b) /\ b \in Procs BY DEF Fires, Scheduled
    <2> QED BY <1>2, <1>4, <2>1 DEF Before
  <1> QED BY <1>1, <1>2, <1>3, <1>4, <1>5

\* Whatever is scheduled next is not in the past.
LEMMA QueueStep ==
    ASSUME TypeOK, QueueInv, NEW a \in Procs, NEW kind \in Queued, Fires(a, kind),
           NEW woken, NEW wkind, NEW akind, NEW t \in Nat, now' <= t,
           Schedule(woken, wkind, a, akind, t)
    PROVE  QueueInv'
  <1>1. /\ now' \in Nat /\ counter \in Nat /\ counter' = counter + 2
        /\ \A b \in Scheduled : now' <= ev[b].at /\ ev[b].no <= counter
        /\ \A b \in Procs : ev[b].no \in Nat
    BY FiresFacts DEF QueueInv, TypeOK, Schedule
  <1> SUFFICES ASSUME NEW x \in Procs, pc'[x] \in Queued
               PROVE  now' <= ev'[x].at /\ ev'[x].no <= counter'
    BY DEF QueueInv, Scheduled
  <1>2. CASE x \in woken
    BY <1>1, <1>2 DEF Schedule
  <1>3. CASE x \notin woken /\ x = a
    BY <1>1, <1>3 DEF Schedule
  <1>4. CASE x \notin woken /\ x # a
    <2>1. pc'[x] = pc[x] /\ ev'[x] = ev[x] BY <1>4 DEF Schedule
    <2> QED BY <1>1, <2>1 DEF Scheduled
  <1> QED BY <1>2, <1>3, <1>4

\* The kinds of event by name.
LEMMA PalletKinds == {"init", "release", "request", "service", "put", "unblocked", "freed",
                      "get"} = Queued
  BY DEF Queued

\* A step that leaves the putaway servers alone, moves only pallets that are
\* neither being handed over nor staged, and puts the pallets W of those in the
\* buffer, keeps the handover parts.
LEMMA HandoverFrame ==
    ASSUME TypeOK, HandoverInv, now' \in Nat, now <= now', UNCHANGED held,
           NEW T \in SUBSET Pallets, NEW W \in SUBSET T,
           Range(items') = Range(items) \cup W, Distinct(items'),
           \A x \in Procs \ T : pc'[x] = pc[x] /\ ev'[x] = ev[x],
           \A x \in Pallets \ T : pallet_state'[x] = pallet_state[x],
           \A x \in T : /\ pc[x] \notin PutPending
                        /\ x \notin W => pc'[x] \notin PutPending
                        /\ \/ pallet_state'[x] = pallet_state[x] /\ x \notin W
                           \/ pallet_state[x] \notin {"STAGED", "AWAITING_PUTAWAY"},
           \A x \in W : pc'[x] \in PutPending /\ ev'[x].at <= now'
    PROVE  ItemsInv' /\ HandedInv'
  <1> USE DEF HandoverInv, NoIllegalTransition
  <1>1. \A x \in Pallets :
            /\ pc[x] \in PutPending => pc'[x] \in PutPending /\ ev'[x] = ev[x] /\ x \notin W
            /\ pc'[x] \in PutPending /\ x \notin W => pc[x] \in PutPending
            /\ pallet_state[x] \in {"STAGED", "AWAITING_PUTAWAY"}
                 => pallet_state'[x] = pallet_state[x] /\ x \notin W
    <2> SUFFICES ASSUME NEW x \in Pallets
                 PROVE
            /\ pc[x] \in PutPending => pc'[x] \in PutPending /\ ev'[x] = ev[x] /\ x \notin W
            /\ pc'[x] \in PutPending /\ x \notin W => pc[x] \in PutPending
            /\ pallet_state[x] \in {"STAGED", "AWAITING_PUTAWAY"}
                 => pallet_state'[x] = pallet_state[x] /\ x \notin W
      OBVIOUS
    <2>1. CASE x \in T BY <2>1
    <2>2. CASE x \notin T
      <3>1. pc'[x] = pc[x] /\ ev'[x] = ev[x] /\ pallet_state'[x] = pallet_state[x] /\ x \notin W
        BY <2>2, ProcsSplit
      <3> QED BY <3>1
    <2> QED BY <2>1, <2>2
  <1>2. Range(items) \subseteq Pallets BY DEF TypeOK, Range
  <1>3. \A x \in Pallets : ev[x].at \in Nat BY ProcsSplit DEF TypeOK
  <1>4. ItemsInv'
    <2>1. \A x \in Range(items') : pc'[x] \in PutPending \/ pallet_state'[x] = "STAGED"
      BY <1>1, <1>2 DEF ItemsInv
    <2>2. \A x \in Pallets : pc'[x] \in PutPending => ev'[x].at <= now'
      <3> SUFFICES ASSUME NEW x \in Pallets, pc'[x] \in PutPending, x \notin W
                   PROVE  ev'[x].at <= now'
        OBVIOUS
      <3>1. pc[x] \in PutPending /\ ev'[x] = ev[x] BY <1>1
      <3>2. ev[x].at <= now /\ ev[x].at \in Nat /\ now \in Nat
        BY <1>3, <3>1 DEF ItemsInv, TypeOK
      <3> QED BY <3>1, <3>2
    <2> QED BY <2>1, <2>2 DEF ItemsInv
  <1>5. \A s \in Servers : pc'[s] = pc[s] /\ ev'[s] = ev[s] /\ held'[s] = held[s]
    BY ProcsSplit, Disjoint
  <1>6. ASSUME NEW s \in Servers, pc[s] \in Carrying
        PROVE  held[s] \in Pallets /\ held[s] \notin Range(items')
    <2>1. held[s] \in Pallets /\ held[s] \notin Range(items) BY <1>6 DEF HandedInv
    <2>2. held[s] \notin W BY <1>1, <1>6, <2>1 DEF HandedInv, Carrying
    <2> QED BY <2>1, <2>2
  <1>7. ASSUME NEW s \in Servers, pc'[s] = "get"
        PROVE  \/ pallet_state'[held'[s]] = "STAGED"
               \/ pc'[held'[s]] \in PutPending /\ (Before(held[s], s))'
    <2>1. pc[s] = "get" /\ held'[s] = held[s] /\ held[s] \in Pallets
      BY <1>5, <1>7 DEF HandedInv, Carrying
    <2>2. CASE pallet_state[held[s]] = "STAGED" BY <1>1, <2>1, <2>2
    <2>3. CASE pc[held[s]] \in PutPending /\ Before(held[s], s)
      <3>1. pc'[held[s]] \in PutPending /\ ev'[held[s]] = ev[held[s]] BY <1>1, <2>1, <2>3
      <3> QED BY <1>5, <2>1, <2>3, <3>1 DEF Before
    <2> QED BY <2>1, <2>2, <2>3 DEF HandedInv
  <1>8. \A s \in Servers : pc'[s] = "service" => pallet_state'[held'[s]] = "AWAITING_PUTAWAY"
    BY <1>1, <1>5 DEF HandedInv, Carrying
  <1>9. HandedInv'
    BY <1>5, <1>6, <1>7, <1>8 DEF HandedInv
  <1> QED BY <1>4, <1>9

\* The first step of a pallet's process, up to its release, keeps the handover parts.
LEMMA AwaitReleaseStep ==
    ASSUME TypeOK, HandoverInv, NEW p \in Pallets, AwaitRelease(p)
    PROVE  HandoverInv'
  <1> USE DEF HandoverInv, NoIllegalTransition
  <1>1. /\ pc[p] = "init" /\ now <= now' /\ now' \in Nat /\ now \in Nat /\ release[p] \in Nat
        /\ raised' = FALSE
    BY FiresFacts, ProcsSplit, PalletKinds DEF AwaitRelease, TypeOK
  <1>2. /\ now' + release[p] \in Nat /\ now' <= now' + release[p]
    BY <1>1
  <1>3. QueueInv'
    BY <1>2, QueueStep, ProcsSplit, PalletKinds DEF AwaitRelease
  <1>4. /\ pc' = [pc EXCEPT ![p] = "release"]
        /\ \A x \in Procs \ {p} : ev'[x] = ev[x]
        /\ UNCHANGED <<pallet_state, requests, puts, gets, items, held>>
    BY DEF AwaitRelease, Schedule, TypeOK, dock_vars, store_vars
  <1>5. PcInv'
    BY <1>1, <1>4, Disjoint, ProcsSplit DEF PcInv, TypeOK
  <1>6. WaitInv'
    BY <1>1, <1>4, ProcsSplit DEF WaitInv, TypeOK
  <1>7. ItemsInv' /\ HandedInv'
    <2>1. pc[p] \notin PutPending /\ pc'[p] \notin PutPending
      BY <1>1, <1>4, ProcsSplit DEF PutPending, TypeOK
    <2>2. \A x \in Procs \ {p} : pc'[x] = pc[x]
      BY <1>4 DEF TypeOK
    <2> DEFINE T == {p}
    <2>3. /\ T \in SUBSET Pallets
          /\ \A x \in Procs \ T : pc'[x] = pc[x] /\ ev'[x] = ev[x]
          /\ \A x \in T : pc[x] \notin PutPending /\ pc'[x] \notin PutPending
      BY <1>4, <2>1, <2>2
    <2> DEFINE W == {}
    <2>4. W \in SUBSET T /\ Range(items') = Range(items) \cup W /\ Distinct(items')
      BY <1>4 DEF ItemsInv
    <2>5. \A x \in W : pc'[x] \in PutPending /\ ev'[x].at <= now'
      OBVIOUS
    <2>6. \A x \in T : x \notin W OBVIOUS
    <2> HIDE DEF T, W
    <2> QED BY <1>1, <1>4, <2>3, <2>4, <2>5, <2>6, HandoverFrame
  <1> QED BY <1>1, <1>3, <1>5, <1>6, <1>7

\* The request for a door keeps the handover parts.
LEMMA ArriveStep ==
    ASSUME TypeOK, HandoverInv, NEW p \in Pallets, Arrive(p)
    PROVE  HandoverInv'
  <1> USE DEF HandoverInv, NoIllegalTransition
  <1> DEFINE rq == Append(requests, p)
             woken == GrantOf(users, rq)
  <1>1. /\ pc[p] \in {"init", "release"} /\ now <= now' /\ now' \in Nat /\ now \in Nat
        /\ pallet_state[p] = "EXPECTED" /\ raised = FALSE
    BY FiresFacts, ProcsSplit, PalletKinds DEF Arrive, TypeOK, PcInv
  <1>2. pallet_state' = [pallet_state EXCEPT ![p] = "ON_TRUCK"] /\ raised' = FALSE
    BY <1>1 DEF Arrive, transition, PALLET_TRANSITIONS
  <1>3. QueueInv'
    BY <1>1, QueueStep, ProcsSplit, PalletKinds DEF Arrive
  <1>4. /\ rq \in Seq(Pallets) /\ Range(rq) = Range(requests) \cup {p} /\ Distinct(rq)
    <2>1. p \notin Range(requests) BY <1>1 DEF WaitInv
    <2> QED BY <2>1, AppendType, RangeAppend DEF TypeOK, WaitInv
  <1>5. \/ woken = {} /\ requests' = rq
        \/ \E h \in Range(rq) :
              /\ h \in Pallets /\ woken = {h}
              /\ Range(requests') = Range(rq) \ {h} /\ Distinct(requests')
    BY <1>4, GrantEffect DEF Arrive, TypeOK
  <1>6. /\ pc' = [x \in Procs |-> IF x \in woken THEN "request"
                                  ELSE IF x = p THEN "requesting" ELSE pc[x]]
        /\ \A x \in Procs : x \notin woken /\ x # p => ev'[x] = ev[x]
        /\ UNCHANGED <<puts, gets, items, held>>
    BY DEF Arrive, Schedule, store_vars
  <1> HIDE DEF rq, woken
  <1>7. \A x \in woken : x \in Pallets /\ (x = p \/ pc[x] = "requesting")
    BY <1>4, <1>5 DEF WaitInv
  <1>8. PcInv'
    BY <1>1, <1>2, <1>6, <1>7, Disjoint, ProcsSplit DEF PcInv, TypeOK
  <1>9. WaitInv'
    <2>1. /\ \A x \in Range(requests') : pc'[x] = "requesting"
          /\ Distinct(requests')
      <3>1. Range(rq) \subseteq Procs BY <1>4, ProcsSplit DEF Range
      <3> QED BY <1>4, <1>5, <1>6, <3>1 DEF WaitInv
    <2>2. /\ \A x \in Range(puts) : x \in Procs /\ x \notin woken /\ x # p
          /\ \A x \in Range(gets) : x \in Procs /\ x \notin woken /\ x # p
      <3>1. Range(puts) \subseteq Procs /\ Range(gets) \subseteq Procs
        BY ProcsSplit, SMTT(60) DEF TypeOK, Range
      <3> QED BY <1>1, <1>7, <3>1 DEF WaitInv
    <2> QED BY <1>6, <2>1, <2>2 DEF WaitInv
  <1>10. ItemsInv' /\ HandedInv'
    <2> DEFINE T == woken \cup {p}
    <2>1. T \in SUBSET Pallets BY <1>7
    <2>2. \A x \in Procs \ T : pc'[x] = pc[x] /\ ev'[x] = ev[x] BY <1>6
    <2>3. \A x \in T : pc[x] \notin PutPending /\ pc'[x] \notin PutPending
      BY <1>1, <1>6, <1>7, ProcsSplit DEF PutPending
    <2>4. \A x \in Pallets : \/ pallet_state'[x] = pallet_state[x]
                             \/ x = p /\ pallet_state[x] = "EXPECTED"
      BY <1>1, <1>2 DEF TypeOK
    <2>5. \A x \in Pallets \ T : pallet_state'[x] = pallet_state[x] BY <2>4
    <2> DEFINE W == {}
    <2>6. W \in SUBSET T /\ Range(items') = Range(items) \cup W /\ Distinct(items')
      BY <1>6 DEF ItemsInv
    <2>7. \A x \in W : pc'[x] \in PutPending /\ ev'[x].at <= now'
      OBVIOUS
    <2>8. \A x \in T : x \notin W OBVIOUS
    <2> HIDE DEF T, W
    <2>9. \A x \in T : /\ pc[x] \notin PutPending
                       /\ x \notin W => pc'[x] \notin PutPending
                       /\ \/ pallet_state'[x] = pallet_state[x] /\ x \notin W
                          \/ pallet_state[x] \notin {"STAGED", "AWAITING_PUTAWAY"}
      BY <2>1, <2>3, <2>4, <2>8
    <2> QED BY <1>1, <1>6, <2>1, <2>2, <2>5, <2>6, <2>7, <2>9, HandoverFrame
  <1> QED BY <1>2, <1>3, <1>8, <1>9, <1>10

\* The start of the unload keeps the handover parts.
LEMMA StartUnloadStep ==
    ASSUME TypeOK, HandoverInv, NEW p \in Pallets, StartUnload(p)
    PROVE  HandoverInv'
  <1> USE DEF HandoverInv, NoIllegalTransition
  <1>1. /\ pc[p] = "request" /\ now <= now' /\ now' \in Nat /\ now \in Nat
        /\ pallet_state[p] = "ON_TRUCK" /\ raised = FALSE
    BY FiresFacts, ProcsSplit, PalletKinds DEF StartUnload, TypeOK, PcInv
  <1>2. pallet_state' = [pallet_state EXCEPT ![p] = "UNLOADING"] /\ raised' = FALSE
    BY <1>1 DEF StartUnload, transition, PALLET_TRANSITIONS
  <1>3. PICK ticks \in ServiceTicks : Schedule({}, "service", p, "service", now' + ticks)
    BY DEF StartUnload
  <1>4. QueueInv'
    <2>1. now' + ticks \in Nat /\ now' <= now' + ticks BY <1>1, InputTypes
    <2> QED BY <1>3, <2>1, QueueStep, ProcsSplit, PalletKinds DEF StartUnload
  <1>5. /\ pc' = [x \in Procs |-> IF x = p THEN "service" ELSE pc[x]]
        /\ \A x \in Procs \ {p} : ev'[x] = ev[x]
        /\ UNCHANGED <<requests, puts, gets, items, held>>
    BY <1>3 DEF StartUnload, Schedule, dock_vars, store_vars
  <1>6. PcInv'
    BY <1>1, <1>2, <1>5, Disjoint, ProcsSplit DEF PcInv, TypeOK
  <1>7. WaitInv'
    <2>1. /\ Range(requests) \subseteq Procs /\ Range(puts) \subseteq Procs
          /\ Range(gets) \subseteq Procs
      BY ProcsSplit DEF TypeOK, Range
    <2> QED BY <1>1, <1>5, <2>1 DEF WaitInv
  <1>8. ItemsInv' /\ HandedInv'
    <2> DEFINE T == {p}
               W == {}
    <2>1. /\ T \in SUBSET Pallets /\ W \in SUBSET T
          /\ Range(items') = Range(items) \cup W /\ Distinct(items')
      BY <1>5 DEF ItemsInv
    <2>2. \A x \in Procs \ T : pc'[x] = pc[x] /\ ev'[x] = ev[x] BY <1>5
    <2>3. \A x \in Pallets \ T : pallet_state'[x] = pallet_state[x] BY <1>2 DEF TypeOK
    <2>4. /\ pc[p] \notin PutPending /\ pc'[p] \notin PutPending
          /\ pallet_state[p] \notin {"STAGED", "AWAITING_PUTAWAY"}
      BY <1>1, <1>5, ProcsSplit DEF PutPending
    <2>5. \A x \in W : pc'[x] \in PutPending /\ ev'[x].at <= now' OBVIOUS
    <2>6. \A x \in T : x = p OBVIOUS
    <2> HIDE DEF T, W
    <2> QED BY <1>1, <1>5, <2>1, <2>2, <2>3, <2>4, <2>5, <2>6, HandoverFrame
  <1> QED BY <1>2, <1>4, <1>6, <1>7, <1>8

\* The release of the door keeps the handover parts.
LEMMA FreedStep ==
    ASSUME TypeOK, HandoverInv, NEW p \in Pallets, Freed(p)
    PROVE  HandoverInv'
  <1> USE DEF HandoverInv, NoIllegalTransition
  <1> DEFINE woken == GrantOf(users, requests)
  <1>1. /\ pc[p] = "freed" /\ now <= now' /\ now' \in Nat /\ now \in Nat /\ raised' = FALSE
        /\ pallet_state' = pallet_state
    BY FiresFacts, ProcsSplit, PalletKinds DEF Freed, TypeOK
  <1>2. QueueInv'
    BY <1>1, QueueStep, ProcsSplit, PalletKinds DEF Freed
  <1>3. \/ woken = {} /\ requests' = requests
        \/ \E h \in Range(requests) :
              /\ h \in Pallets /\ woken = {h}
              /\ Range(requests') = Range(requests) \ {h} /\ Distinct(requests')
    BY GrantEffect DEF Freed, TypeOK, WaitInv
  <1>4. /\ pc' = [x \in Procs |-> IF x \in woken THEN "request"
                                  ELSE IF x = p THEN "ended" ELSE pc[x]]
        /\ \A x \in Procs : x \notin woken /\ x # p => ev'[x] = ev[x]
        /\ UNCHANGED <<puts, gets, items, held>>
    BY DEF Freed, Schedule, store_vars
  <1> HIDE DEF woken
  <1>5. \A x \in woken : x \in Pallets /\ pc[x] = "requesting"
    BY <1>3 DEF WaitInv
  <1>6. PcInv'
    BY <1>1, <1>4, <1>5, Disjoint, ProcsSplit DEF PcInv, TypeOK
  <1>7. WaitInv'
    <2>1. /\ Range(requests) \subseteq Procs /\ Range(puts) \subseteq Procs
          /\ Range(gets) \subseteq Procs
      BY ProcsSplit DEF TypeOK, Range
    <2>2. /\ \A x \in Range(requests') : pc'[x] = "requesting"
          /\ Distinct(requests')
      BY <1>1, <1>3, <1>4, <2>1 DEF WaitInv
    <2>3. /\ \A x \in Range(puts) : x \notin woken /\ x # p
          /\ \A x \in Range(gets) : x \notin woken /\ x # p
      BY <1>1, <1>5 DEF WaitInv
    <2> QED BY <1>4, <2>1, <2>2, <2>3 DEF WaitInv
  <1>8. ItemsInv' /\ HandedInv'
    <2> DEFINE T == woken \cup {p}
               W == {}
    <2>1. /\ T \in SUBSET Pallets /\ W \in SUBSET T
          /\ Range(items') = Range(items) \cup W /\ Distinct(items')
      BY <1>4, <1>5 DEF ItemsInv
    <2>2. \A x \in Procs \ T : pc'[x] = pc[x] /\ ev'[x] = ev[x] BY <1>4
    <2>3. \A x \in Pallets : pallet_state'[x] = pallet_state[x] BY <1>1
    <2>4. \A x \in T : pc[x] \notin PutPending /\ pc'[x] \notin PutPending /\ x \notin W
      BY <1>1, <1>4, <1>5, ProcsSplit DEF PutPending
    <2>5. \A x \in W : pc'[x] \in PutPending /\ ev'[x].at <= now' OBVIOUS
    <2> HIDE DEF T, W
    <2> QED BY <1>1, <1>4, <2>1, <2>2, <2>3, <2>4, <2>5, HandoverFrame
  <1> QED BY <1>1, <1>2, <1>6, <1>7, <1>8

\* The put of a pallet whose unload is over, or of one blocked before it.
LEMMA FinishUnloadStep ==
    ASSUME TypeOK, HandoverInv, NEW p \in Pallets, FinishUnload(p)
    PROVE  HandoverInv'
  <1> USE DEF HandoverInv, NoIllegalTransition
  <1> DEFINE pq == Append(puts, p)
             woken == PutOf(items, pq)
             wkind == IF p \in woken THEN "put" ELSE "unblocked"
  <1>1. /\ pc[p] = "service" /\ now <= now' /\ now' \in Nat /\ now \in Nat /\ raised' = FALSE
        /\ pallet_state' = pallet_state /\ pallet_state[p] = "UNLOADING"
    BY FiresFacts, ProcsSplit, PalletKinds DEF FinishUnload, TypeOK, PcInv
  <1>2. QueueInv'
    BY <1>1, QueueStep, ProcsSplit, PalletKinds DEF FinishUnload
  <1>3. /\ pq \in Seq(Pallets) /\ Range(pq) = Range(puts) \cup {p} /\ Distinct(pq)
    <2>1. p \notin Range(puts) BY <1>1 DEF WaitInv
    <2> QED BY <2>1, AppendType, RangeAppend DEF TypeOK, WaitInv
  <1>4. \A x \in Range(pq) : /\ x \in Pallets /\ (x = p \/ pc[x] = "putting")
                             /\ pc[x] \notin PutPending /\ pallet_state[x] = "UNLOADING"
    <2>1. Range(pq) \subseteq Pallets BY <1>3 DEF Range
    <2> QED BY <1>1, <1>3, <2>1 DEF WaitInv, PcInv, PutPending
  <1>5. Range(items) \cap Range(pq) = {}
    BY <1>4 DEF ItemsInv
  <1>6. \/ woken = {} /\ items' = items /\ puts' = pq
        \/ \E h \in Range(pq) :
              /\ h \in Pallets /\ woken = {h}
              /\ Range(items') = Range(items) \cup {h} /\ Distinct(items')
              /\ Range(puts') = Range(pq) \ {h} /\ Distinct(puts')
    <2>1. TriggerPut(items, pq) BY DEF FinishUnload
    <2> HIDE DEF pq
    <2> QED BY <1>3, <1>5, <2>1, PutEffect DEF TypeOK, ItemsInv
  <1>7. /\ pc' = [x \in Procs |-> IF x \in woken THEN wkind
                                  ELSE IF x = p THEN "putting" ELSE pc[x]]
        /\ \A x \in Procs : x \notin woken /\ x # p => ev'[x] = ev[x]
        /\ \A x \in Procs : x \in woken => ev'[x].at = now'
        /\ UNCHANGED <<requests, gets, held>>
    BY DEF FinishUnload, Schedule, dock_vars
  <1>8. wkind \in PutPending BY DEF PutPending
  <1>9. woken \subseteq Range(pq) BY <1>6
  <1> HIDE DEF pq, woken, wkind
  <1>10. PcInv'
    BY <1>1, <1>4, <1>7, <1>8, <1>9, Disjoint, ProcsSplit DEF PcInv, TypeOK, PutPending
  <1>11. WaitInv'
    <2>1. /\ Range(requests) \subseteq Procs /\ Range(pq) \subseteq Procs
          /\ Range(gets) \subseteq Procs
      BY <1>4, ProcsSplit DEF TypeOK, Range
    <2>2. /\ \A x \in Range(puts') : pc'[x] = "putting"
          /\ Distinct(puts')
      <3>1. Range(puts') \subseteq Range(pq) \ woken /\ Distinct(puts')
        BY <1>3, <1>6
      <3> QED BY <1>4, <1>7, <2>1, <3>1
    <2>3. /\ \A x \in Range(requests) : x \notin woken /\ x # p
          /\ \A x \in Range(gets) : x \notin woken /\ x # p
      BY <1>1, <1>4, <1>9 DEF WaitInv
    <2> QED BY <1>7, <2>1, <2>2, <2>3 DEF WaitInv
  <1>12. ItemsInv' /\ HandedInv'
    <2> DEFINE T == woken \cup {p}
    <2>1. /\ T \in SUBSET Pallets /\ woken \in SUBSET T
          /\ Range(items') = Range(items) \cup woken /\ Distinct(items')
      BY <1>4, <1>6, <1>9 DEF ItemsInv
    <2>2. \A x \in Procs \ T : pc'[x] = pc[x] /\ ev'[x] = ev[x] BY <1>7
    <2>3. \A x \in Pallets \ T : pallet_state'[x] = pallet_state[x] BY <1>1
    <2>4. \A x \in T : /\ pc[x] \notin PutPending
                       /\ x \notin woken => pc'[x] \notin PutPending
                       /\ pallet_state[x] \notin {"STAGED", "AWAITING_PUTAWAY"}
      <3>1. pc[p] \notin PutPending /\ "putting" \notin PutPending
        BY <1>1 DEF PutPending
      <3>2. \A x \in T : x \in Procs /\ (x \in woken \/ x = p) BY <2>1, ProcsSplit
      <3> HIDE DEF T
      <3>3. \A x \in T : x \notin woken => pc'[x] = "putting" BY <1>7, <3>2
      <3> QED BY <1>1, <1>4, <1>9, <3>1, <3>2, <3>3
    <2>5. \A x \in woken : pc'[x] \in PutPending /\ ev'[x].at <= now'
      <3>1. \A x \in woken : x \in Procs BY <1>4, <1>9, ProcsSplit
      <3> QED BY <1>1, <1>7, <1>8, <3>1
    <2> HIDE DEF T
    <2> QED BY <1>1, <1>7, <2>1, <2>2, <2>3, <2>4, <2>5, HandoverFrame
  <1> QED BY <1>1, <1>2, <1>10, <1>11, <1>12

\* A step that may hand the oldest item to a waiting server, stages pallets
\* whose put event it takes, and stores pallets no server carries afterwards.
LEMMA GetFrame ==
    ASSUME TypeOK, HandoverInv, now' \in Nat, now <= now', NEW woken \in SUBSET Servers,
           \/ woken = {} /\ items' = items /\ held' = held
           \/ \E g \in Servers, h \in Range(items) :
                 /\ woken = {g} /\ held' = [held EXCEPT ![g] = h]
                 /\ Range(items') = Range(items) \ {h} /\ Distinct(items'),
           \A x \in woken : pc'[x] = "get" /\ ev'[x] = [at |-> now', no |-> counter + 1],
           \A x \in Servers \ woken : \/ pc'[x] = pc[x] /\ ev'[x] = ev[x]
                                      \/ pc'[x] \notin Carrying,
           \A x \in Pallets : \/ pc'[x] = pc[x] /\ ev'[x] = ev[x]
                              \/ pc'[x] \notin PutPending,
           \A x \in Pallets : pc[x] \in PutPending =>
                 \/ pc'[x] = pc[x] /\ ev'[x] = ev[x]
                 \/ pallet_state'[x] = "STAGED",
           \A x \in Pallets :
                 \/ pallet_state'[x] = pallet_state[x]
                 \/ pc[x] \in PutPending /\ pallet_state[x] = "UNLOADING"
                 \/ /\ pallet_state[x] = "AWAITING_PUTAWAY"
                    /\ \A t \in Servers : pc'[t] = "service" => held[t] # x
    PROVE  ItemsInv' /\ HandedInv'
  <1> USE DEF HandoverInv, NoIllegalTransition
  <1>1. Range(items) \subseteq Pallets /\ Range(items') \subseteq Range(items) /\ Distinct(items')
    <2>1. Range(items) \subseteq Pallets BY DEF TypeOK, Range
    <2>2. Range(items') \subseteq Range(items) /\ Distinct(items') BY DEF ItemsInv
    <2> QED BY <2>1, <2>2
  <1>2. \A x \in Procs : ev[x].at \in Nat /\ ev[x].no \in Nat
    BY DEF TypeOK
  <1>3. \A x \in Pallets : pallet_state[x] = "STAGED" => pallet_state'[x] = "STAGED"
    BY DEF PcInv, PutPending
  <1>4. ItemsInv'
    <2>1. \A x \in Range(items') : pc'[x] \in PutPending \/ pallet_state'[x] = "STAGED"
      BY <1>1, <1>3 DEF ItemsInv
    <2>2. \A x \in Pallets : pc'[x] \in PutPending => ev'[x].at <= now'
      <3> SUFFICES ASSUME NEW x \in Pallets, pc'[x] \in PutPending
                   PROVE  ev'[x].at <= now'
        OBVIOUS
      <3>1. pc[x] \in PutPending /\ ev'[x] = ev[x] OBVIOUS
      <3>2. ev[x].at <= now /\ ev[x].at \in Nat /\ now \in Nat
        BY <1>2, <3>1, ProcsSplit DEF ItemsInv, TypeOK
      <3> QED BY <3>1, <3>2
    <2> QED BY <1>1, <2>1, <2>2 DEF ItemsInv
  <1>5. ASSUME NEW x \in Servers, x \notin woken, pc'[x] \in Carrying
        PROVE  /\ pc'[x] = pc[x] /\ ev'[x] = ev[x] /\ held'[x] = held[x]
               /\ held[x] \in Pallets /\ held[x] \notin Range(items)
    <2>1. pc'[x] = pc[x] /\ ev'[x] = ev[x] BY <1>5
    <2>2. held'[x] = held[x] BY <1>5 DEF TypeOK
    <2> QED BY <1>5, <2>1, <2>2 DEF HandedInv
  <1>6. ASSUME NEW x \in woken
        PROVE  /\ held'[x] \in Range(items) /\ held'[x] \in Pallets
               /\ held'[x] \notin Range(items')
               /\ \A y \in woken : y = x
    <2>1. PICK g \in Servers, h \in Range(items) :
                 /\ woken = {g} /\ held' = [held EXCEPT ![g] = h]
                 /\ Range(items') = Range(items) \ {h}
      BY <1>6
    <2>2. held'[x] = h BY <2>1 DEF TypeOK
    <2> QED BY <1>1, <2>1, <2>2
  <1>7. ASSUME NEW x \in Servers, pc'[x] = "get"
        PROVE  \/ pallet_state'[held'[x]] = "STAGED"
               \/ pc'[held'[x]] \in PutPending /\ (Before(held[x], x))'
    <2>1. CASE x \in woken
      <3> DEFINE h == held'[x]
      <3>1. h \in Range(items) /\ h \in Pallets BY <1>6, <2>1
      <3>2. CASE pallet_state[h] = "STAGED" BY <1>3, <3>1, <3>2
      <3>3. CASE pc[h] \in PutPending /\ pallet_state'[h] # "STAGED"
        <4>1. pc'[h] \in PutPending /\ ev'[h] = ev[h] BY <3>1, <3>3
        <4>2. h \in Procs /\ h \in Scheduled
          BY <3>1, <3>3, ProcsSplit DEF Scheduled, PutPending, Queued
        <4>3. /\ ev[h].at <= now /\ ev[h].no <= counter /\ now \in Nat /\ counter \in Nat
              /\ ev[h].at \in Nat /\ ev[h].no \in Nat
          BY <1>2, <3>1, <3>3, <4>2 DEF ItemsInv, QueueInv, TypeOK
        <4>4. ev'[x].at = now' /\ ev'[x].no = counter + 1 BY <2>1
        <4> QED BY <4>1, <4>3, <4>4 DEF Before
      <3> QED BY <3>1, <3>2, <3>3 DEF ItemsInv
    <2>2. CASE x \notin woken
      <3>1. /\ pc[x] = "get" /\ ev'[x] = ev[x] /\ held'[x] = held[x] /\ held[x] \in Pallets
        BY <1>5, <1>7, <2>2 DEF Carrying
      <3>2. CASE pallet_state[held[x]] = "STAGED" BY <1>3, <3>1, <3>2
      <3>3. CASE pc[held[x]] \in PutPending /\ Before(held[x], x)
        BY <3>1, <3>3 DEF Before
      <3> QED BY <3>1, <3>2, <3>3 DEF HandedInv
    <2> QED BY <2>1, <2>2
  <1>8. ASSUME NEW x \in Servers, pc'[x] = "service"
        PROVE  pallet_state'[held'[x]] = "AWAITING_PUTAWAY"
    <2>1. x \notin woken BY <1>8
    <2>2. /\ pc[x] = "service" /\ held'[x] = held[x] /\ held[x] \in Pallets
          /\ pallet_state[held[x]] = "AWAITING_PUTAWAY"
      BY <1>5, <1>8, <2>1 DEF Carrying, HandedInv
    <2> QED BY <1>8, <2>2
  <1>9. \A x \in Servers : pc'[x] \in Carrying =>
            held'[x] \in Pallets /\ held'[x] \notin Range(items')
    BY <1>1, <1>5, <1>6
  <1>10. ASSUME NEW x \in Servers, NEW y \in Servers, pc'[x] \in Carrying, pc'[y] \in Carrying,
                held'[x] = held'[y]
         PROVE  x = y
    <2>1. CASE x \in woken \/ y \in woken BY <1>5, <1>6, <1>10, <2>1
    <2>2. CASE x \notin woken /\ y \notin woken BY <1>5, <1>10, <2>2 DEF HandedInv
    <2> QED BY <2>1, <2>2
  <1>11. HandedInv'
    BY <1>7, <1>8, <1>9, <1>10 DEF HandedInv
  <1> QED BY <1>4, <1>11

\* The store wakes a server for the item before the pallet's own process runs.
LEMMA StageStep ==
    ASSUME TypeOK, HandoverInv, NEW p \in Pallets, Stage(p)
    PROVE  HandoverInv'
  <1> USE DEF HandoverInv, NoIllegalTransition
  <1> DEFINE woken == GetOf(items, gets)
  <1>1. /\ pc[p] \in PutPending /\ now <= now' /\ now' \in Nat /\ now \in Nat
        /\ pallet_state[p] = "UNLOADING" /\ raised = FALSE
    BY FiresFacts, ProcsSplit, PalletKinds DEF Stage, TypeOK, PcInv, PutPending
  <1>2. pallet_state' = [pallet_state EXCEPT ![p] = "STAGED"] /\ raised' = FALSE
    BY <1>1 DEF Stage, transition, PALLET_TRANSITIONS
  <1>3. QueueInv'
    BY <1>1, QueueStep, ProcsSplit, PalletKinds DEF Stage
  <1>4. \/ woken = {} /\ items' = items /\ gets' = gets /\ held' = held
        \/ \E g \in Range(gets), h \in Range(items) :
              /\ g \in Servers /\ h \in Pallets /\ woken = {g}
              /\ Range(items') = Range(items) \ {h} /\ Distinct(items')
              /\ Range(gets') = Range(gets) \ {g} /\ Distinct(gets')
              /\ held' = [held EXCEPT ![g] = h]
    BY GetEffect DEF Stage, TypeOK, WaitInv, ItemsInv
  <1>5. /\ pc' = [x \in Procs |-> IF x \in woken THEN "get"
                                  ELSE IF x = p THEN "freed" ELSE pc[x]]
        /\ \A x \in Procs : x \notin woken /\ x # p => ev'[x] = ev[x]
        /\ \A x \in Procs : x \in woken => ev'[x] = [at |-> now', no |-> counter + 1]
        /\ UNCHANGED <<requests, puts>>
    BY DEF Stage, Schedule
  <1> HIDE DEF woken
  <1>6. woken \subseteq Servers /\ \A x \in woken : pc[x] = "getting"
    BY <1>4 DEF WaitInv
  <1>7. PcInv'
    BY <1>1, <1>2, <1>5, <1>6, Disjoint, ProcsSplit DEF PcInv, TypeOK
  <1>8. WaitInv'
    <2>1. /\ Range(requests) \subseteq Pallets /\ Range(puts) \subseteq Pallets
          /\ Range(gets) \subseteq Servers
      BY DEF TypeOK, Range
    <2>2. Range(gets') \subseteq Range(gets) \ woken /\ Distinct(gets')
      BY <1>4 DEF WaitInv
    <2>3. \A x \in Range(gets') : pc'[x] = "getting"
      BY <1>5, <2>1, <2>2, ProcsSplit, Disjoint DEF WaitInv
    <2>4. \A x \in Range(requests) \cup Range(puts) : pc'[x] = pc[x]
      <3>1. p \notin Range(requests) \cup Range(puts) BY <1>1 DEF WaitInv, PutPending
      <3> QED BY <1>5, <1>6, <2>1, <3>1, ProcsSplit, Disjoint
    <2> QED BY <1>5, <2>2, <2>3, <2>4 DEF WaitInv
  <1>9. ItemsInv' /\ HandedInv'
    <2>1. woken \in SUBSET Servers BY <1>6
    <2>2. \/ woken = {} /\ items' = items /\ held' = held
          \/ \E g \in Servers, h \in Range(items) :
                 /\ woken = {g} /\ held' = [held EXCEPT ![g] = h]
                 /\ Range(items') = Range(items) \ {h} /\ Distinct(items')
      BY <1>4
    <2>3. \A x \in woken : pc'[x] = "get" /\ ev'[x] = [at |-> now', no |-> counter + 1]
      BY <1>5, <2>1, ProcsSplit
    <2>4. \A x \in Servers \ woken : pc'[x] = pc[x] /\ ev'[x] = ev[x]
      BY <1>5, Disjoint, ProcsSplit
    <2>5. \A x \in Pallets : x # p => pc'[x] = pc[x] /\ ev'[x] = ev[x]
      BY <1>5, <2>1, Disjoint, ProcsSplit
    <2>6. pc'[p] \notin PutPending /\ pallet_state'[p] = "STAGED"
      BY <1>2, <1>5, <2>1, Disjoint, ProcsSplit DEF PutPending, TypeOK
    <2>7. \A x \in Pallets : x # p => pallet_state'[x] = pallet_state[x]
      BY <1>2 DEF TypeOK
    <2> QED BY <1>1, <2>1, <2>2, <2>3, <2>4, <2>5, <2>6, <2>7, GetFrame
  <1> QED BY <1>2, <1>3, <1>7, <1>8, <1>9

\* The first get of a putaway server keeps the handover parts.
LEMMA StartServerStep ==
    ASSUME TypeOK, HandoverInv, NEW s \in Servers, StartServer(s)
    PROVE  HandoverInv'
  <1> USE DEF HandoverInv, NoIllegalTransition
  <1> DEFINE gq == Append(gets, s)
             woken == GetOf(items, gq)
  <1>1. /\ pc[s] = "init" /\ now <= now' /\ now' \in Nat /\ now \in Nat /\ raised' = FALSE
        /\ pallet_state' = pallet_state
    BY FiresFacts, ProcsSplit, PalletKinds DEF StartServer, TypeOK
  <1>2. QueueInv'
    BY <1>1, QueueStep, ProcsSplit, PalletKinds DEF StartServer
  <1>3. gq \in Seq(Servers) /\ Range(gq) = Range(gets) \cup {s} /\ Distinct(gq)
    <2>1. s \notin Range(gets) BY <1>1 DEF WaitInv
    <2> QED BY <2>1, AppendType, RangeAppend DEF TypeOK, WaitInv
  <1>4. \/ woken = {} /\ items' = items /\ gets' = gq /\ held' = held
        \/ \E g \in Range(gq), h \in Range(items) :
              /\ g \in Servers /\ h \in Pallets /\ woken = {g}
              /\ Range(items') = Range(items) \ {h} /\ Distinct(items')
              /\ Range(gets') = Range(gq) \ {g} /\ Distinct(gets')
              /\ held' = [held EXCEPT ![g] = h]
    <2>1. TriggerGet(items, gq) BY DEF StartServer
    <2> HIDE DEF gq
    <2> QED BY <1>3, <2>1, GetEffect DEF TypeOK, ItemsInv
  <1>5. /\ pc' = [x \in Procs |-> IF x \in woken THEN "get"
                                  ELSE IF x = s THEN "getting" ELSE pc[x]]
        /\ \A x \in Procs : x \notin woken /\ x # s => ev'[x] = ev[x]
        /\ \A x \in Procs : x \in woken => ev'[x] = [at |-> now', no |-> counter + 1]
        /\ UNCHANGED <<requests, puts>>
    BY DEF StartServer, Schedule, dock_vars
  <1> HIDE DEF woken, gq
  <1>6. woken \subseteq Servers BY <1>4
  <1>7. PcInv'
    BY <1>1, <1>5, <1>6, Disjoint, ProcsSplit DEF PcInv, TypeOK
  <1>8. WaitInv'
    <2>1. /\ Range(requests) \subseteq Pallets /\ Range(puts) \subseteq Pallets
          /\ Range(gq) \subseteq Servers
      BY <1>3 DEF TypeOK, Range
    <2>2. Range(gets') \subseteq Range(gq) \ woken /\ Distinct(gets')
      BY <1>3, <1>4
    <2>3. \A x \in Range(gets') : pc'[x] = "getting"
      BY <1>3, <1>5, <2>1, <2>2, ProcsSplit DEF WaitInv
    <2>4. \A x \in Range(requests) \cup Range(puts) : pc'[x] = pc[x]
      BY <1>5, <1>6, <2>1, ProcsSplit, Disjoint
    <2> QED BY <1>5, <2>2, <2>3, <2>4 DEF WaitInv
  <1>9. ItemsInv' /\ HandedInv'
    <2>1. woken \in SUBSET Servers BY <1>6
    <2>2. \/ woken = {} /\ items' = items /\ held' = held
          \/ \E g \in Servers, h \in Range(items) :
                 /\ woken = {g} /\ held' = [held EXCEPT ![g] = h]
                 /\ Range(items') = Range(items) \ {h} /\ Distinct(items')
      BY <1>4
    <2>3. \A x \in woken : pc'[x] = "get" /\ ev'[x] = [at |-> now', no |-> counter + 1]
      BY <1>5, <2>1, ProcsSplit
    <2>4. \A x \in Servers \ woken : \/ pc'[x] = pc[x] /\ ev'[x] = ev[x]
                                     \/ pc'[x] \notin Carrying
      BY <1>5, ProcsSplit DEF Carrying
    <2>5. \A x \in Pallets : /\ pc'[x] = pc[x] /\ ev'[x] = ev[x]
                             /\ pallet_state'[x] = pallet_state[x]
      BY <1>1, <1>5, <2>1, Disjoint, ProcsSplit
    <2> QED BY <1>1, <2>1, <2>2, <2>3, <2>4, <2>5, GetFrame
  <1> QED BY <1>1, <1>2, <1>7, <1>8, <1>9

\* The end of a putaway, and the get that follows it, keep the handover parts.
LEMMA FinishPutawayStep ==
    ASSUME TypeOK, HandoverInv, NEW s \in Servers, FinishPutaway(s)
    PROVE  HandoverInv'
  <1> USE DEF HandoverInv, NoIllegalTransition
  <1> DEFINE gq == Append(gets, s)
             woken == GetOf(items, gq)
  <1>1. /\ pc[s] = "service" /\ now <= now' /\ now' \in Nat /\ now \in Nat /\ raised = FALSE
        /\ held[s] \in Pallets /\ pallet_state[held[s]] = "AWAITING_PUTAWAY"
    <2>1. pc[s] = "service" /\ now <= now' /\ now' \in Nat /\ now \in Nat /\ raised = FALSE
      BY FiresFacts, ProcsSplit, PalletKinds DEF FinishPutaway, TypeOK
    <2> QED BY <2>1 DEF HandedInv, Carrying
  <1>0. pallet_state' = [pallet_state EXCEPT ![held[s]] = "STORED"] /\ raised' = FALSE
    BY <1>1 DEF FinishPutaway, transition, PALLET_TRANSITIONS
  <1>2. QueueInv'
    BY <1>1, QueueStep, ProcsSplit, PalletKinds DEF FinishPutaway
  <1>3. gq \in Seq(Servers) /\ Range(gq) = Range(gets) \cup {s} /\ Distinct(gq)
    <2>1. s \notin Range(gets) BY <1>1 DEF WaitInv
    <2> QED BY <2>1, AppendType, RangeAppend DEF TypeOK, WaitInv
  <1>4. \/ woken = {} /\ items' = items /\ gets' = gq /\ held' = held
        \/ \E g \in Range(gq), h \in Range(items) :
              /\ g \in Servers /\ h \in Pallets /\ woken = {g}
              /\ Range(items') = Range(items) \ {h} /\ Distinct(items')
              /\ Range(gets') = Range(gq) \ {g} /\ Distinct(gets')
              /\ held' = [held EXCEPT ![g] = h]
    <2>1. TriggerGet(items, gq) BY DEF FinishPutaway
    <2> HIDE DEF gq
    <2> QED BY <1>3, <2>1, GetEffect DEF TypeOK, ItemsInv
  <1>5. /\ pc' = [x \in Procs |-> IF x \in woken THEN "get"
                                  ELSE IF x = s THEN "getting" ELSE pc[x]]
        /\ \A x \in Procs : x \notin woken /\ x # s => ev'[x] = ev[x]
        /\ \A x \in Procs : x \in woken => ev'[x] = [at |-> now', no |-> counter + 1]
        /\ UNCHANGED <<requests, puts>>
    BY DEF FinishPutaway, Schedule, dock_vars
  <1> HIDE DEF woken, gq
  <1>6. woken \subseteq Servers BY <1>4
  <1>7. PcInv'
    <2>1. \A x \in Pallets : /\ pc'[x] = pc[x]
                             /\ x # held[s] => pallet_state'[x] = pallet_state[x]
      BY <1>0, <1>5, <1>6, Disjoint, ProcsSplit DEF TypeOK
    <2>2. \A x \in Servers : pc'[x] \in {"get", "getting"} \/ pc'[x] = pc[x]
      BY <1>5, ProcsSplit
    <2> QED BY <1>1, <2>1, <2>2 DEF PcInv
  <1>8. WaitInv'
    <2>1. /\ Range(requests) \subseteq Pallets /\ Range(puts) \subseteq Pallets
          /\ Range(gq) \subseteq Servers
      BY <1>3 DEF TypeOK, Range
    <2>2. Range(gets') \subseteq Range(gq) \ woken /\ Distinct(gets')
      BY <1>3, <1>4
    <2>3. \A x \in Range(gets') : pc'[x] = "getting"
      BY <1>3, <1>5, <2>1, <2>2, ProcsSplit DEF WaitInv
    <2>4. \A x \in Range(requests) \cup Range(puts) : pc'[x] = pc[x]
      BY <1>5, <1>6, <2>1, ProcsSplit, Disjoint
    <2> QED BY <1>5, <2>2, <2>3, <2>4 DEF WaitInv
  <1>9. ItemsInv' /\ HandedInv'
    <2>1. woken \in SUBSET Servers BY <1>6
    <2>2. \/ woken = {} /\ items' = items /\ held' = held
          \/ \E g \in Servers, h \in Range(items) :
                 /\ woken = {g} /\ held' = [held EXCEPT ![g] = h]
                 /\ Range(items') = Range(items) \ {h} /\ Distinct(items')
      BY <1>4
    <2>3. \A x \in woken : pc'[x] = "get" /\ ev'[x] = [at |-> now', no |-> counter + 1]
      BY <1>5, <2>1, ProcsSplit
    <2>4. \A x \in Servers \ woken : \/ pc'[x] = pc[x] /\ ev'[x] = ev[x]
                                     \/ pc'[x] \notin Carrying
      BY <1>5, ProcsSplit DEF Carrying
    <2>5. \A x \in Pallets : pc'[x] = pc[x] /\ ev'[x] = ev[x]
      BY <1>5, <2>1, Disjoint, ProcsSplit
    <2>6. ASSUME NEW t \in Servers, pc'[t] = "service" PROVE held[t] # held[s]
      <3>1. t # s /\ pc[t] = "service" BY <1>5, <2>6, ProcsSplit
      <3> QED BY <1>1, <3>1 DEF HandedInv, Carrying
    <2>7. \A x \in Pallets :
              \/ pallet_state'[x] = pallet_state[x]
              \/ /\ pallet_state[x] = "AWAITING_PUTAWAY"
                 /\ \A t \in Servers : pc'[t] = "service" => held[t] # x
      BY <1>0, <1>1, <2>6 DEF TypeOK
    <2> QED BY <1>1, <2>1, <2>2, <2>3, <2>4, <2>5, <2>7, GetFrame
  <1> QED BY <1>0, <1>2, <1>7, <1>8, <1>9

\* The get event of a server fires only after the put event of the pallet it
\* was handed, so that pallet is STAGED: this is where the order matters.
LEMMA StartPutawayStep ==
    ASSUME TypeOK, HandoverInv, NEW s \in Servers, StartPutaway(s)
    PROVE  HandoverInv'
  <1> USE DEF HandoverInv, NoIllegalTransition
  <1> DEFINE h == held[s]
             woken == PutOf(items, puts)
  <1>1. /\ pc[s] = "get" /\ now <= now' /\ now' \in Nat /\ now \in Nat /\ raised = FALSE
        /\ \A b \in Scheduled \ {s} : ~Before(b, s)
    BY FiresFacts, ProcsSplit, PalletKinds DEF StartPutaway, TypeOK
  <1>2. h \in Pallets /\ h # s /\ h \notin Range(items)
    BY <1>1, Disjoint DEF HandedInv, Carrying
  <1>3. pallet_state[h] = "STAGED"
    <2>1. pc[h] \in PutPending => h \in Scheduled \ {s}
      BY <1>2, ProcsSplit DEF Scheduled, PutPending, Queued
    <2> QED BY <1>1, <2>1 DEF HandedInv
  <1>4. pallet_state' = [pallet_state EXCEPT ![h] = "AWAITING_PUTAWAY"] /\ raised' = FALSE
    BY <1>1, <1>3 DEF StartPutaway, transition, PALLET_TRANSITIONS
  <1>5. PICK ticks \in ServiceTicks : Schedule(woken, "unblocked", s, "service", now' + ticks)
    BY DEF StartPutaway
  <1>6. QueueInv'
    <2>1. now' + ticks \in Nat /\ now' <= now' + ticks BY <1>1, InputTypes
    <2> QED BY <1>5, <2>1, QueueStep, ProcsSplit, PalletKinds DEF StartPutaway
  <1>7. \A x \in Range(puts) : /\ x \in Pallets /\ pc[x] = "putting"
                               /\ pc[x] \notin PutPending /\ pallet_state[x] = "UNLOADING"
    <2>1. Range(puts) \subseteq Pallets BY DEF TypeOK, Range
    <2> QED BY <2>1 DEF WaitInv, PcInv, PutPending
  <1>8. Range(items) \cap Range(puts) = {} BY <1>7 DEF ItemsInv
  <1>9. \/ woken = {} /\ items' = items /\ puts' = puts
        \/ \E w \in Range(puts) :
              /\ w \in Pallets /\ woken = {w}
              /\ Range(items') = Range(items) \cup {w} /\ Distinct(items')
              /\ Range(puts') = Range(puts) \ {w} /\ Distinct(puts')
    BY <1>8, PutEffect DEF StartPutaway, TypeOK, ItemsInv, WaitInv
  <1>10. /\ pc' = [x \in Procs |-> IF x \in woken THEN "unblocked"
                                   ELSE IF x = s THEN "service" ELSE pc[x]]
         /\ \A x \in Procs : x \notin woken /\ x # s => ev'[x] = ev[x]
         /\ \A x \in Procs : x \in woken => ev'[x].at = now'
         /\ UNCHANGED <<requests, gets, held>>
    BY <1>5 DEF StartPutaway, Schedule, dock_vars
  <1> HIDE DEF h, woken
  <1>11. /\ woken \subseteq Range(puts) /\ woken \subseteq Pallets /\ h \notin woken
         /\ Range(items') = Range(items) \cup woken /\ Distinct(items')
    BY <1>3, <1>7, <1>9 DEF ItemsInv
  <1>12. \A x \in Pallets : /\ x \notin woken => pc'[x] = pc[x] /\ ev'[x] = ev[x]
                            /\ x \in woken => pc'[x] = "unblocked" /\ ev'[x].at = now'
                            /\ x # h => pallet_state'[x] = pallet_state[x]
    BY <1>4, <1>10, ProcsSplit, Disjoint DEF TypeOK
  <1>13. /\ pc'[s] = "service"
         /\ \A x \in Servers : x # s => pc'[x] = pc[x] /\ ev'[x] = ev[x]
    BY <1>10, <1>11, ProcsSplit, Disjoint
  <1>14. PcInv'
    <2>1. \A x \in woken : pallet_state'[x] = "UNLOADING" BY <1>7, <1>11, <1>12
    <2> QED BY <1>3, <1>12, <1>13, <2>1 DEF PcInv
  <1>15. WaitInv'
    <2>1. /\ Range(requests) \subseteq Pallets /\ Range(gets) \subseteq Servers
          /\ Range(puts) \subseteq Pallets
      BY DEF TypeOK, Range
    <2>2. Range(puts') \subseteq Range(puts) \ woken /\ Distinct(puts')
      BY <1>9 DEF WaitInv
    <2>3. \A x \in Range(puts') : pc'[x] = "putting" BY <1>7, <1>12, <2>1, <2>2
    <2>4. \A x \in Range(requests) : pc'[x] = "requesting"
      <3>1. \A x \in Range(requests) : x \notin woken BY <1>7, <1>11 DEF WaitInv
      <3> QED BY <1>12, <2>1, <3>1 DEF WaitInv
    <2>5. \A x \in Range(gets) : pc'[x] = "getting"
      BY <1>1, <1>13, <2>1 DEF WaitInv
    <2> QED BY <1>10, <2>2, <2>3, <2>4, <2>5 DEF WaitInv
  <1>16. ItemsInv'
    <2>1. Range(items) \subseteq Pallets BY DEF TypeOK, Range
    <2>2. \A x \in Range(items') : pc'[x] \in PutPending \/ pallet_state'[x] = "STAGED"
      <3>1. \A x \in woken : pc'[x] \in PutPending BY <1>11, <1>12 DEF PutPending
      <3>2. \A x \in Range(items) : x \notin woken /\ x # h BY <1>2, <1>8, <1>11 DEF h
      <3> QED BY <1>11, <1>12, <2>1, <3>1, <3>2 DEF ItemsInv
    <2>3. ASSUME NEW x \in Pallets, pc'[x] \in PutPending PROVE ev'[x].at <= now'
      <3>1. CASE x \in woken BY <1>1, <1>12, <3>1
      <3>2. CASE x \notin woken
        <4>1. pc[x] \in PutPending /\ ev'[x] = ev[x] BY <1>12, <2>3, <3>2
        <4>2. ev[x].at <= now /\ ev[x].at \in Nat BY <4>1, ProcsSplit DEF ItemsInv, TypeOK
        <4> QED BY <1>1, <4>1, <4>2
      <3> QED BY <3>1, <3>2
    <2> QED BY <1>11, <2>2, <2>3 DEF ItemsInv
  <1>17. HandedInv'
    <2>1. ASSUME NEW x \in Servers, pc'[x] \in Carrying
          PROVE  /\ pc[x] \in Carrying /\ held'[x] = held[x] /\ held[x] \in Pallets
                 /\ held[x] \notin Range(items')
                 /\ x # s => held[x] # h /\ held[x] \notin woken
                             /\ pc'[x] = pc[x] /\ ev'[x] = ev[x]
      <3>1. pc[x] \in Carrying BY <1>1, <1>13, <2>1 DEF Carrying
      <3>2. held'[x] = held[x] BY <1>10
      <3>3. held[x] \in Pallets /\ held[x] \notin Range(items) BY <3>1 DEF HandedInv
      <3>4. x # s => held[x] # h BY <1>1, <3>1 DEF HandedInv, Carrying, h
      <3>5. held[x] \notin woken
        BY <1>7, <1>11, <3>1 DEF HandedInv, Carrying
      <3> QED BY <1>11, <1>13, <3>1, <3>2, <3>3, <3>4, <3>5
    <2>2. ASSUME NEW x \in Servers, pc'[x] = "get"
          PROVE  \/ pallet_state'[held'[x]] = "STAGED"
                 \/ pc'[held'[x]] \in PutPending /\ (Before(held[x], x))'
      <3>1. /\ x # s /\ pc[x] = "get" /\ held'[x] = held[x] /\ held[x] \in Pallets
            /\ held[x] # h /\ held[x] \notin woken /\ ev'[x] = ev[x]
        BY <1>13, <2>1, <2>2 DEF Carrying
      <3>2. /\ pc'[held[x]] = pc[held[x]] /\ ev'[held[x]] = ev[held[x]]
            /\ pallet_state'[held[x]] = pallet_state[held[x]]
        BY <1>12, <3>1
      <3> QED BY <3>1, <3>2 DEF HandedInv, Before
    <2>3. ASSUME NEW x \in Servers, pc'[x] = "service"
          PROVE  pallet_state'[held'[x]] = "AWAITING_PUTAWAY"
      <3>1. CASE x = s
        BY <1>2, <1>4, <1>10, <3>1 DEF h, TypeOK
      <3>2. CASE x # s
        <4>1. /\ pc[x] = "service" /\ held'[x] = held[x] /\ held[x] \in Pallets /\ held[x] # h
          BY <2>1, <2>3, <3>2 DEF Carrying
        <4> QED BY <1>12, <4>1 DEF HandedInv
      <3> QED BY <3>1, <3>2
    <2>4. \A x, y \in Servers :
             pc'[x] \in Carrying /\ pc'[y] \in Carrying /\ held'[x] = held'[y] => x = y
      BY <2>1 DEF HandedInv
    <2> QED BY <2>1, <2>2, <2>3, <2>4 DEF HandedInv
  <1> QED BY <1>4, <1>6, <1>14, <1>15, <1>16, <1>17

\* HandoverInv and TypeOK together are inductive.
LEMMA HandoverStep ==
    ASSUME TypeOK, HorizonInv, HandoverInv, [Next]_vars
    PROVE  HandoverInv'
  <1>1. CASE UNCHANGED vars
    BY <1>1 DEF HandoverInv, NoIllegalTransition, QueueInv, PcInv, WaitInv, ItemsInv, HandedInv,
                Scheduled, Before, vars, queue_vars, input_vars, dock_vars, store_vars
  <1>2. CASE Finish
    <2>1. /\ UNCHANGED <<counter, ev, pc, requests, puts, gets, items, held, pallet_state, raised>>
          /\ now' \in Nat /\ now \in Nat
      BY <1>2 DEF Finish, TypeOK, dock_vars, store_vars
    <2>2. QueueInv' /\ ItemsInv'
      <3>1. \A a \in Procs : ev[a].at \in Nat BY DEF TypeOK
      <3>2. CASE horizon = NoHorizon
        <4>1. now' = now BY <1>2, <3>2 DEF Finish
        <4> QED BY <2>1, <4>1 DEF HandoverInv, QueueInv, ItemsInv, Scheduled
      <3>3. CASE horizon # NoHorizon
        <4>1. now' = horizon /\ \A a \in Scheduled : ev[a].at >= horizon
          BY <1>2, <3>3 DEF Finish
        <4>2. QueueInv'
          BY <2>1, <3>1, <4>1 DEF HandoverInv, QueueInv, Scheduled
        <4>3. ItemsInv'
          <5>1. \A a \in Pallets : pc'[a] \in PutPending => ev'[a].at <= now'
            BY <2>1, <3>1, <3>3, <4>1, ProcsSplit DEF HandoverInv, ItemsInv, HorizonInv, TypeOK
          <5> QED BY <2>1, <5>1 DEF HandoverInv, ItemsInv
        <4> QED BY <4>2, <4>3
      <3> QED BY <3>2, <3>3
    <2>3. PcInv' /\ WaitInv' /\ HandedInv' /\ NoIllegalTransition'
      BY <2>1 DEF HandoverInv, PcInv, WaitInv, HandedInv, NoIllegalTransition, Before
    <2> QED BY <2>2, <2>3 DEF HandoverInv
  <1> QED BY <1>1, <1>2, AwaitReleaseStep, ArriveStep, StartUnloadStep, FinishUnloadStep,
             StageStep, FreedStep, StartServerStep, StartPutawayStep, FinishPutawayStep
          DEF Next, PalletStep, ServerStep

\* No event after the horizon is taken, so the clock never passes it.
LEMMA HorizonStep ==
    ASSUME TypeOK, HorizonInv, [Next]_vars
    PROVE  HorizonInv'
  <1>1. UNCHANGED horizon
    BY DEF Next, vars, PalletStep, ServerStep, AwaitRelease, Arrive, StartUnload, FinishUnload,
           Stage, Freed, StartServer, StartPutaway, FinishPutaway, Finish, input_vars
  <1>2. ASSUME NEW a \in Procs, NEW kind, Fires(a, kind) PROVE HorizonInv'
    <2>1. ev[a].at \in Nat /\ horizon \in Nat BY DEF TypeOK
    <2> QED BY <1>1, <1>2, <2>1 DEF Fires, HorizonInv
  <1>3. CASE UNCHANGED vars BY <1>1, <1>3 DEF vars, queue_vars, HorizonInv
  <1>4. CASE Finish BY <1>1, <1>4 DEF Finish, HorizonInv, TypeOK
  <1> QED BY <1>2, <1>3, <1>4, ProcsSplit
          DEF Next, PalletStep, ServerStep, AwaitRelease, Arrive, StartUnload, FinishUnload,
              Stage, Freed, StartServer, StartPutaway, FinishPutaway

\* The state _station_line starts from satisfies the inductive invariant.
LEMMA InitIInv == Init => IInv
  <1> SUFFICES ASSUME Init PROVE IInv
    OBVIOUS
  <1> USE SpecAssumption
  <1>1. TypeOK
    <2>1. \A a \in Procs : a \in Nat BY DEF Procs, Pallets, Servers
    <2>2. ev \in [Procs -> [at : Nat, no : Nat]] BY <2>1 DEF Init
    <2>3. /\ state \in [Stations -> StationState] /\ spell_start \in [Stations -> Nat]
          /\ spells \in [Stations -> Seq(StateSpell)]
      BY DEF Init, idle_state, StationState
    <2>4. horizon \in Nat /\ release \in [Pallets -> Nat] BY DEF Init
    <2>5. sample \in [units : Int, queue : Int] /\ units \in [UnitColumns -> Int]
      BY DEF Init
    <2>6. pc \in [Procs -> Queued \cup {"requesting", "putting", "getting", "ended"}]
      BY DEF Init, Queued
    <2>7. /\ requests \in Seq(Pallets) /\ items \in Seq(Pallets) /\ puts \in Seq(Pallets)
          /\ gets \in Seq(Servers) /\ staged_log \in Seq(Pallets)
      BY DEF Init
    <2>8. now \in Nat /\ counter \in Nat /\ max_staged \in Nat BY DEF Init
    <2>9. /\ users \subseteq Pallets
          /\ held \in [Servers -> Pallets \cup {0}]
      BY DEF Init
    <2>10. pallet_state \in [Pallets -> PalletState] BY DEF Init, PalletState
    <2>11. busy \in [Stations -> Int] /\ blocked \in [Stations -> Int] BY DEF Init
    <2>12. raised \in BOOLEAN /\ finished \in BOOLEAN BY DEF Init
    <2> QED BY <2>2, <2>3, <2>4, <2>5, <2>6, <2>7, <2>8, <2>9, <2>10, <2>11, <2>12
            DEF TypeOK
  <1>2. HorizonInv BY <1>1 DEF Init, HorizonInv, TypeOK
  <1>3. QueueInv
    <2>1. \A a \in Procs : a <= NumPallets + PutawayCapacity BY DEF Procs, Pallets, Servers
    <2>2. now = 0 /\ counter = NumPallets + PutawayCapacity
          /\ \A a \in Procs : ev[a].at = 0 /\ ev[a].no = a
      BY DEF Init
    <2> QED BY <2>1, <2>2 DEF QueueInv, Scheduled
  <1>4. PcInv BY ProcsSplit DEF Init, PcInv
  <1>5. WaitInv BY DEF Init, WaitInv, Range, Distinct
  <1>6. ItemsInv
    <2>1. \A p \in Pallets : pc[p] = "init" BY ProcsSplit DEF Init
    <2> QED BY <2>1, SMTT(60) DEF Init, ItemsInv, Range, Distinct, PutPending
  <1>7. HandedInv
    <2>1. \A s \in Servers : pc[s] = "init" BY ProcsSplit DEF Init
    <2> QED BY <2>1 DEF HandedInv, Carrying
  <1> QED BY <1>1, <1>2, <1>3, <1>4, <1>5, <1>6, <1>7
          DEF IInv, HandoverInv, NoIllegalTransition, Init

-----------------------------------------------------------------------------
\* Every state of every run of the line is well typed, and the order in which
\* SimPy takes the events of one handover is the order of its two ends.
THEOREM HandoverCorrect == Spec => []IInv
  <1>1. IInv /\ [Next]_vars => IInv'
    <2> SUFFICES ASSUME IInv, [Next]_vars PROVE IInv'
      OBVIOUS
    <2>1. TypeOK /\ HorizonInv /\ HandoverInv /\ HandedInv BY DEF IInv, HandoverInv
    <2> QED BY <2>1, TypeStep, HorizonStep, HandoverStep DEF IInv
  <1> QED BY <1>1, InitIInv, PTL DEF Spec

\* check_transition never raises in station.py, whatever the arrivals, the
\* service times, the capacities and the horizon.
THEOREM TransitionsLegal == Spec => []NoIllegalTransition
  <1>1. IInv => NoIllegalTransition BY DEF IInv, HandoverInv
  <1> QED BY <1>1, HandoverCorrect, PTL

\* Type correctness of StationLine.
THEOREM TypeCorrect == Spec => []TypeOK
  <1>1. IInv => TypeOK BY DEF IInv
  <1> QED BY <1>1, HandoverCorrect, PTL

\* INV-TWIN-01 for every run: each of the actions that touches the ledger moves
\* the same quantity into one column as out of the other.
THEOREM MaterialConserved == Spec => []LedgerBalanced
  <1>1. Init => LedgerBalanced
    BY DEF Init, LedgerBalanced, UnitColumns
  <1>2. IInv /\ LedgerBalanced /\ [Next]_vars => LedgerBalanced'
    <2> SUFFICES ASSUME IInv, LedgerBalanced, [Next]_vars PROVE LedgerBalanced'
      OBVIOUS
    <2>1. /\ units \in [UnitColumns -> Int]
          /\ units["received"] \in Int /\ units["in_system"] \in Int
          /\ units["putaway"] \in Int /\ units["staged"] \in Int
          /\ \A p \in Pallets : Qty[p] \in Int
      BY InputTypes DEF IInv, TypeOK, UnitColumns
    <2>2. CASE UNCHANGED units BY <2>2 DEF LedgerBalanced
    <2>3. ASSUME NEW p \in Pallets, Arrive(p) PROVE LedgerBalanced'
      <3>1. units' = [units EXCEPT !["received"] = @ + Qty[p], !["in_system"] = @ + Qty[p]]
        BY <2>3 DEF Arrive
      <3> QED BY <2>1, <3>1 DEF LedgerBalanced, UnitColumns
    <2>4. ASSUME NEW p \in Pallets, Stage(p) PROVE LedgerBalanced'
      <3>1. units' = [units EXCEPT !["staged"] = @ + Qty[p]]
        BY <2>4 DEF Stage
      <3> QED BY <2>1, <3>1 DEF LedgerBalanced, UnitColumns
    <2>5. ASSUME NEW s \in Servers, StartPutaway(s) PROVE LedgerBalanced'
      <3>1. units' = [units EXCEPT !["staged"] = @ - Qty[held[s]]]
        BY <2>5 DEF StartPutaway
      <3> QED BY <2>1, <3>1 DEF LedgerBalanced, UnitColumns
    <2>6. ASSUME NEW s \in Servers, FinishPutaway(s) PROVE LedgerBalanced'
      <3>1. units' = [units EXCEPT !["in_system"] = @ - Qty[held[s]],
                                   !["putaway"] = @ + Qty[held[s]]]
        BY <2>6 DEF FinishPutaway
      <3>2. pc[s] = "service" BY <2>6 DEF FinishPutaway, Fires
      <3>3. held[s] \in Pallets BY <3>2 DEF IInv, HandoverInv, HandedInv, Carrying
      <3> QED BY <2>1, <3>1, <3>3 DEF LedgerBalanced, UnitColumns
    <2>7. ASSUME NEW p \in Pallets, AwaitRelease(p) \/ StartUnload(p) \/ FinishUnload(p) \/ Freed(p)
          PROVE  UNCHANGED units
      BY <2>7 DEF AwaitRelease, StartUnload, FinishUnload, Freed, ledger_vars
    <2>8. ASSUME NEW s \in Servers, StartServer(s) PROVE UNCHANGED units
      BY <2>8 DEF StartServer, ledger_vars
    <2>9. (Finish \/ UNCHANGED vars) => UNCHANGED units
      BY DEF Finish, vars, ledger_vars
    <2> QED BY <2>2, <2>3, <2>4, <2>5, <2>6, <2>7, <2>8, <2>9 DEF Next, PalletStep, ServerStep
  <1> QED BY <1>1, <1>2, HandoverCorrect, PTL DEF Spec
-----------------------------------------------------------------------------
(* The frame of a step.                                                    *)

\* Only run() itself sets finished, after which nothing fires; the clock does
\* not go back, and every process that fires is one of the queue's first.
LEMMA StepKinds ==
    ASSUME TypeOK, HorizonInv, HandoverInv, Next
    PROVE  /\ now \in Nat /\ now' \in Nat /\ now <= now' /\ finished = FALSE /\ raised = FALSE
           /\ ~Finish => UNCHANGED finished
  <1>1. /\ now \in Nat /\ QueueInv /\ finished \in BOOLEAN /\ raised \in BOOLEAN
        /\ horizon \in Nat
    BY DEF HandoverInv, TypeOK
  <1>2. ASSUME NEW a \in Procs, NEW kind \in Queued, Fires(a, kind)
        PROVE  now' \in Nat /\ now <= now' /\ finished = FALSE /\ raised = FALSE
    BY <1>1, <1>2, FiresFacts DEF Fires
  <1>3. Finish => now' \in Nat /\ now <= now' /\ finished = FALSE /\ raised = FALSE
    BY <1>1 DEF Finish, HorizonInv
  <1>4. ASSUME NEW p \in Pallets, PalletStep(p)
        PROVE  /\ now' \in Nat /\ now <= now' /\ finished = FALSE /\ raised = FALSE
               /\ UNCHANGED finished
    <2>1. \E kind \in Queued : Fires(p, kind)
      BY <1>4, PalletKinds DEF PalletStep, AwaitRelease, Arrive, StartUnload, FinishUnload, Stage, Freed
    <2>2. UNCHANGED finished
      BY <1>4 DEF PalletStep, AwaitRelease, Arrive, StartUnload, FinishUnload, Stage, Freed
    <2> QED BY <1>2, <2>1, <2>2, ProcsSplit
  <1>5. ASSUME NEW s \in Servers, ServerStep(s)
        PROVE  /\ now' \in Nat /\ now <= now' /\ finished = FALSE /\ raised = FALSE
               /\ UNCHANGED finished
    <2>1. \E kind \in Queued : Fires(s, kind)
      BY <1>5, PalletKinds DEF ServerStep, StartServer, StartPutaway, FinishPutaway
    <2>2. UNCHANGED finished
      BY <1>5 DEF ServerStep, StartServer, StartPutaway, FinishPutaway
    <2> QED BY <1>2, <2>1, <2>2, ProcsSplit
  <1> QED BY <1>1, <1>3, <1>4, <1>5 DEF Next
-----------------------------------------------------------------------------
(* The spells of a station.                                                *)

\* The strengthening of SpellsPartition: the open spell began in the past, and
\* its state is not the state of the spell that was closed last.
SpellInv ==
    /\ SpellsPartition
    /\ \A st \in Stations :
          /\ spell_start[st] <= now
          /\ ~finished /\ Len(spells[st]) > 0 => spells[st][Len(spells[st])].state # state[st]

\* A list of spells that starts at tick 0, without gap, up to the tick open.
Partition(sp, open) ==
    /\ Len(sp) > 0 => sp[1].start = 0 /\ sp[Len(sp)].end = open
    /\ Len(sp) = 0 => open = 0
    /\ \A i \in 1..Len(sp) : sp[i].start <= sp[i].end
    /\ \A i \in 1..Len(sp)-1 : sp[i].end = sp[i+1].start /\ sp[i].state # sp[i+1].state

\* Closing the open spell at tick t keeps the list a partition, now up to t.
LEMMA CloseSpell ==
    ASSUME NEW sp \in Seq(StateSpell), NEW open \in Nat, NEW t \in Nat, open <= t,
           NEW cur \in StationState, Partition(sp, open),
           Len(sp) > 0 => sp[Len(sp)].state # cur
    PROVE  LET new == Append(sp, [state |-> cur, start |-> open, end |-> t])
           IN  /\ Partition(new, t)
               /\ Len(new) > 0 /\ new[Len(new)].state = cur
  <1> DEFINE e == [state |-> cur, start |-> open, end |-> t]
             new == Append(sp, e)
             n == Len(sp)
  <1>1. e \in StateSpell /\ e.state = cur /\ e.start = open /\ e.end = t
    BY DEF StateSpell
  <1>2. n \in Nat /\ Len(new) = n + 1 /\ new[n + 1] = e /\ \A i \in 1..n : new[i] = sp[i]
    BY <1>1, AppendType
  <1> HIDE DEF e, new, n
  <1>3. /\ n > 0 => sp[1].start = 0 /\ sp[n].end = open /\ sp[n].state # cur
        /\ n = 0 => open = 0
        /\ \A i \in 1..n : sp[i].start <= sp[i].end
        /\ \A i \in 1..n-1 : sp[i].end = sp[i+1].start /\ sp[i].state # sp[i+1].state
    BY DEF Partition, n
  <1>4. new[1].start = 0
    BY <1>1, <1>2, <1>3
  <1>5. \A i \in 1..n+1 : new[i].start <= new[i].end
    BY <1>1, <1>2, <1>3
  <1>6. ASSUME NEW i \in 1..n
        PROVE  new[i].end = new[i+1].start /\ new[i].state # new[i+1].state
    <2>1. CASE i = n BY <1>1, <1>2, <1>3, <2>1
    <2>2. CASE i # n
      <3>1. i \in 1..n-1 /\ i + 1 \in 1..n BY <1>2, <2>2
      <3> QED BY <1>2, <1>3, <3>1
    <2> QED BY <2>1, <2>2
  <1>7. Partition(new, t)
    BY <1>1, <1>2, <1>4, <1>5, <1>6 DEF Partition
  <1> QED BY <1>1, <1>2, <1>7 DEF new, e

\* SpellsPartition, station by station, while the run goes on and when it returned.
LEMMA PartitionIs ==
    /\ ~finished => (SpellsPartition <=> \A st \in Stations : Partition(spells[st], spell_start[st]))
    /\ finished /\ (\A st \in Stations : Partition(spells[st], now) /\ Len(spells[st]) > 0)
          /\ (\A st \in Stations : Len(spells[st]) \in Nat)
       => SpellsPartition
  <1>1. ~finished /\ SpellsPartition => \A st \in Stations : Partition(spells[st], spell_start[st])
    BY DEF SpellsPartition, Partition
  <1>2. ~finished /\ (\A st \in Stations : Partition(spells[st], spell_start[st])) => SpellsPartition
    BY DEF SpellsPartition, Partition
  <1>3. ASSUME finished, \A st \in Stations : Partition(spells[st], now) /\ Len(spells[st]) > 0,
               \A st \in Stations : Len(spells[st]) \in Nat
        PROVE  SpellsPartition
    <2>1. \A st \in Stations : Len(spells[st]) # 0 BY <1>3
    <2> QED BY <1>3, <2>1 DEF SpellsPartition, Partition
  <1> QED BY <1>1, <1>2, <1>3

\* _refresh() closes a spell exactly when the state it observes is a new one.
LEMMA RefreshSpells ==
    ASSUME TypeOK, SpellInv, ~finished, ~finished', now \in Nat, now' \in Nat, now <= now',
           NEW st \in Stations, NEW bs, NEW bl, refresh(st, bs, bl, now'),
           observed(st, bs, bl) \in StationState
    PROVE  SpellInv'
  <1> DEFINE cur == [state |-> state[st], start |-> spell_start[st], end |-> now']
             new == Append(spells[st], cur)
  <1>1. /\ spells \in [Stations -> Seq(StateSpell)] /\ spell_start \in [Stations -> Nat]
        /\ state \in [Stations -> StationState]
    BY DEF TypeOK
  <1>2. \A x \in Stations : /\ Partition(spells[x], spell_start[x]) /\ spell_start[x] <= now
                            /\ Len(spells[x]) > 0 => spells[x][Len(spells[x])].state # state[x]
    BY PartitionIs DEF SpellInv
  <1>3. CASE observed(st, bs, bl) = state[st]
    <2>1. UNCHANGED <<state, spell_start, spells>> BY <1>3 DEF refresh
    <2>2. SpellsPartition' BY <2>1, <1>2, PartitionIs DEF SpellsPartition, Partition
    <2> QED BY <1>1, <1>2, <2>1, <2>2 DEF SpellInv
  <1>4. CASE observed(st, bs, bl) # state[st]
    <2>1. /\ spells' = [spells EXCEPT ![st] = new]
          /\ state' = [state EXCEPT ![st] = observed(st, bs, bl)]
          /\ spell_start' = [spell_start EXCEPT ![st] = now']
      BY <1>4 DEF refresh
    <2>2. Partition(new, now') /\ Len(new) > 0 /\ new[Len(new)].state = state[st]
      <3>1. spell_start[st] <= now' BY <1>1, <1>2
      <3> QED BY <1>1, <1>2, <3>1, CloseSpell, SMTT(60)
    <2> HIDE DEF new
    <2>3. spells'[st] = new /\ state'[st] = observed(st, bs, bl) /\ spell_start'[st] = now'
      BY <1>1, <2>1
    <2>4. \A x \in Stations : x # st => /\ spells'[x] = spells[x] /\ state'[x] = state[x]
                                        /\ spell_start'[x] = spell_start[x]
      BY <1>1, <2>1
    <2>5. ASSUME NEW x \in Stations
          PROVE  /\ Partition(spells'[x], spell_start'[x]) /\ spell_start'[x] <= now'
                 /\ Len(spells'[x]) > 0 => spells'[x][Len(spells'[x])].state # state'[x]
      <3>1. CASE x = st BY <1>4, <2>2, <2>3, <3>1
      <3>2. CASE x # st BY <1>1, <1>2, <2>4, <3>2
      <3> QED BY <3>1, <3>2
    <2>6. SpellsPartition' BY <2>5 DEF SpellsPartition, Partition
    <2> QED BY <2>5, <2>6 DEF SpellInv
  <1> QED BY <1>3, <1>4

\* A step that leaves the trace alone keeps SpellInv.
LEMMA FrameSpells ==
    ASSUME TypeOK, SpellInv, ~finished, ~finished', now \in Nat, now' \in Nat, now <= now',
           UNCHANGED <<state, spell_start, spells>>
    PROVE  SpellInv'
  <1>1. \A st \in Stations : spell_start[st] \in Nat BY DEF TypeOK
  <1>2. SpellsPartition' BY DEF SpellInv, SpellsPartition
  <1> QED BY <1>1, <1>2 DEF SpellInv

\* What the counts of a station show is one of the four states.
LEMMA ObservedType ==
    ASSUME NEW st, NEW bs, NEW bl PROVE observed(st, bs, bl) \in StationState
  BY DEF observed, idle_state, StationState

\* run() closes the open spell of every station at the tick it returns at.
LEMMA FinishSpells ==
    ASSUME TypeOK, SpellInv, now \in Nat, now' \in Nat, now <= now', Finish
    PROVE  SpellInv'
  <1> DEFINE cur(x) == [state |-> state[x], start |-> spell_start[x], end |-> now']
             new(x) == Append(spells[x], cur(x))
  <1>1. /\ spells \in [Stations -> Seq(StateSpell)] /\ spell_start \in [Stations -> Nat]
        /\ state \in [Stations -> StationState]
    BY DEF TypeOK
  <1>2. ~finished /\ finished' /\ UNCHANGED <<state, spell_start>>
        /\ spells' = [x \in Stations |-> new(x)]
    BY DEF Finish
  <1>3. \A x \in Stations : /\ Partition(spells[x], spell_start[x]) /\ spell_start[x] <= now
                            /\ Len(spells[x]) > 0 => spells[x][Len(spells[x])].state # state[x]
    BY <1>2, PartitionIs DEF SpellInv
  <1>4. ASSUME NEW x \in Stations
        PROVE  /\ Partition(spells'[x], now') /\ Len(spells'[x]) > 0
               /\ spell_start'[x] <= now'
    <2>1. spell_start[x] <= now' BY <1>1, <1>3
    <2>2. Partition(new(x), now') /\ Len(new(x)) > 0 BY <1>1, <1>3, <2>1, CloseSpell
    <2> HIDE DEF new
    <2> QED BY <1>2, <2>1, <2>2
  <1>5. SpellsPartition'
    BY <1>2, <1>4 DEF SpellsPartition, Partition
  <1> QED BY <1>2, <1>4, <1>5 DEF SpellInv

\* Every step of the line keeps the spells a partition of the time passed.
LEMMA SpellStep ==
    ASSUME TypeOK, HorizonInv, HandoverInv, SpellInv, [Next]_vars
    PROVE  SpellInv'
  <1>1. CASE UNCHANGED vars
    BY <1>1 DEF vars, queue_vars, trace_vars, SpellInv, SpellsPartition
  <1>2. CASE Next
    <2>1. now \in Nat /\ now' \in Nat /\ now <= now' /\ finished = FALSE
      BY <1>2, StepKinds
    <2>2. CASE Finish BY <2>1, <2>2, FinishSpells
    <2>3. CASE ~Finish
      <3>1. ~finished /\ ~finished' BY <1>2, <2>1, <2>3, StepKinds
      <3>2. \/ UNCHANGED <<state, spell_start, spells>>
            \/ \E st \in Stations : \E bs, bl : refresh(st, bs, bl, now')
        <4>1. "receiving" \in Stations /\ "putaway" \in Stations BY DEF Stations
        <4>2. ASSUME NEW p \in Pallets, PalletStep(p) PROVE <3>2!1 \/ <3>2!2
          BY <4>1, <4>2 DEF PalletStep, AwaitRelease, Arrive, StartUnload, FinishUnload, Stage,
                       Freed, trace_vars
        <4>3. ASSUME NEW s \in Servers, ServerStep(s) PROVE <3>2!1 \/ <3>2!2
          BY <4>1, <4>3 DEF ServerStep, StartServer, StartPutaway, FinishPutaway, trace_vars
        <4> QED BY <1>2, <2>3, <4>2, <4>3 DEF Next
      <3>3. CASE UNCHANGED <<state, spell_start, spells>>
        BY <2>1, <3>1, <3>3, FrameSpells
      <3>4. ASSUME NEW st \in Stations, NEW bs, NEW bl, refresh(st, bs, bl, now')
            PROVE  SpellInv'
        BY <2>1, <3>1, <3>4, RefreshSpells, ObservedType
      <3> QED BY <3>2, <3>3, <3>4
    <2> QED BY <2>2, <2>3
  <1> QED BY <1>1, <1>2
-----------------------------------------------------------------------------
(* The state of each station and the last sample.                          *)

Shown(st) == observed(st, busy[st], blocked[st])

\* The strengthening of RecordIsCurrent: only a pallet whose put was granted at
\* once, and whose process has not resumed, leaves the receiving station's record
\* behind its counts, and the samples are never behind.
CurrentInv ==
    /\ state["putaway"] = Shown("putaway")
    /\ (\A p \in Pallets : pc[p] # "put") => state["receiving"] = Shown("receiving")
    /\ sample.units = units["in_system"]
    /\ units["staged"] <= sample.queue

\* _refresh() brings the record of its station up to its counts and leaves the
\* other station's counts and record alone.
LEMMA RefreshShows ==
    ASSUME TypeOK, NEW st \in Stations, NEW bs, NEW bl, NEW t, refresh(st, bs, bl, t)
    PROVE  /\ state'[st] = Shown(st)'
           /\ \A x \in Stations : x # st => state'[x] = state[x] /\ Shown(x)' = Shown(x)
  <1>1. /\ busy' = [busy EXCEPT ![st] = bs] /\ blocked' = [blocked EXCEPT ![st] = bl]
        /\ state' = [state EXCEPT ![st] = observed(st, bs, bl)]
    BY DEF refresh, TypeOK
  <1>2. busy'[st] = bs /\ blocked'[st] = bl /\ state'[st] = observed(st, bs, bl)
    BY <1>1 DEF TypeOK
  <1>3. \A x \in Stations : x # st => /\ busy'[x] = busy[x] /\ blocked'[x] = blocked[x]
                                      /\ state'[x] = state[x]
    BY <1>1 DEF TypeOK
  <1> QED BY <1>2, <1>3 DEF Shown

\* A step that leaves the counts of both stations and their record alone, and takes
\* no pallet from its put, keeps the first half of CurrentInv.
LEMMA FrameShows ==
    ASSUME CurrentInv, UNCHANGED <<busy, blocked, state>>,
           \A p \in Pallets : pc[p] = "put" => pc'[p] = "put"
    PROVE  /\ state'["putaway"] = Shown("putaway")'
           /\ (\A p \in Pallets : pc'[p] # "put") => state'["receiving"] = Shown("receiving")'
  BY DEF CurrentInv, Shown

\* A fired process and the ones it wakes are the only ones that move.
LEMMA ScheduleKeeps ==
    ASSUME NEW woken, NEW wkind, NEW a, NEW akind, NEW t, Schedule(woken, wkind, a, akind, t)
    PROVE  /\ \A x \in Procs : x \notin woken /\ x # a => pc'[x] = pc[x] /\ ev'[x] = ev[x]
           /\ \A x \in Procs : x \in woken => pc'[x] = wkind /\ ev'[x] = [at |-> now', no |-> counter + 1]
           /\ a \in Procs /\ a \notin woken => pc'[a] = akind /\ ev'[a] = [at |-> t, no |-> counter + 2]
           /\ counter' = counter + 2
           /\ DOMAIN pc' = Procs
  BY DEF Schedule

\* Whom a trigger serves waited in its queue, so no process that has an event
\* of its own is moved by it.
LEMMA WokenWaits ==
    ASSUME TypeOK, HandoverInv
    PROVE  /\ \A p \in Pallets : pc[p] # "requesting" =>
                 /\ p \notin GrantOf(users, requests)
                 /\ \A q \in Pallets : p # q => p \notin GrantOf(users, Append(requests, q))
           /\ \A p \in Pallets : pc[p] # "putting" =>
                 /\ p \notin PutOf(items, puts)
                 /\ \A q \in Pallets : p # q => p \notin PutOf(items, Append(puts, q))
           /\ \A p \in Pallets : /\ p \notin GetOf(items, gets)
                                 /\ \A s \in Servers : p \notin GetOf(items, Append(gets, s))
           /\ \A t \in Servers : pc[t] # "getting" =>
                 /\ t \notin GetOf(items, gets)
                 /\ \A s \in Servers : t # s => t \notin GetOf(items, Append(gets, s))
           /\ \A t \in Servers : /\ t \notin GrantOf(users, requests) /\ t \notin PutOf(items, puts)
                                 /\ \A q \in Pallets : /\ t \notin GrantOf(users, Append(requests, q))
                                                       /\ t \notin PutOf(items, Append(puts, q))
  <1>1. /\ requests \in Seq(Pallets) /\ puts \in Seq(Pallets) /\ gets \in Seq(Servers)
        /\ \A p \in Range(requests) : pc[p] = "requesting"
        /\ \A p \in Range(puts) : pc[p] = "putting"
        /\ \A s \in Range(gets) : pc[s] = "getting"
    BY DEF TypeOK, HandoverInv, WaitInv
  <1>2. ASSUME NEW S, NEW q \in Seq(S)
        PROVE  /\ q # <<>> => Head(q) \in Range(q) /\ Head(q) \in S
               /\ \A e \in S : /\ Append(q, e) # <<>>
                               /\ Head(Append(q, e)) \in Range(q) \cup {e}
                               /\ Head(Append(q, e)) \in S
    <2>1. q # <<>> => Head(q) = q[1] /\ 1 \in DOMAIN q /\ Head(q) \in S BY <1>2
    <2>2. ASSUME NEW e \in S PROVE /\ Append(q, e) # <<>>
                               /\ Head(Append(q, e)) \in Range(q) \cup {e}
                               /\ Head(Append(q, e)) \in S
      <3>1. Append(q, e) \in Seq(S) /\ Append(q, e) # <<>> BY <1>2, <2>2, AppendType
      <3>2. Head(Append(q, e)) = Append(q, e)[1] /\ 1 \in DOMAIN Append(q, e)
            /\ Head(Append(q, e)) \in S
        BY <3>1, TailType
      <3>3. Head(Append(q, e)) \in Range(Append(q, e)) BY <3>2 DEF Range
      <3> QED BY <1>2, <3>1, <3>2, <3>3, RangeAppend
    <2> QED BY <2>1, <2>2 DEF Range
  <1>3. /\ GrantOf(users, requests) \subseteq Range(requests) \cap Pallets
        /\ \A q \in Pallets : GrantOf(users, Append(requests, q)) \subseteq (Range(requests) \cup {q}) \cap Pallets
    BY <1>1, <1>2 DEF GrantOf
  <1>4. /\ PutOf(items, puts) \subseteq Range(puts) \cap Pallets
        /\ \A q \in Pallets : PutOf(items, Append(puts, q)) \subseteq (Range(puts) \cup {q}) \cap Pallets
    BY <1>1, <1>2 DEF PutOf
  <1>5. /\ GetOf(items, gets) \subseteq Range(gets) \cap Servers
        /\ \A s \in Servers : GetOf(items, Append(gets, s)) \subseteq (Range(gets) \cup {s}) \cap Servers
    BY <1>1, <1>2 DEF GetOf
  <1>6. \A p \in Pallets, s \in Servers : p # s BY Disjoint
  <1>7. /\ \A p \in Pallets : pc[p] # "requesting" =>
                 /\ p \notin GrantOf(users, requests)
                 /\ \A q \in Pallets : p # q => p \notin GrantOf(users, Append(requests, q))
        /\ \A p \in Pallets : pc[p] # "putting" =>
                 /\ p \notin PutOf(items, puts)
                 /\ \A q \in Pallets : p # q => p \notin PutOf(items, Append(puts, q))
    BY <1>1, <1>3, <1>4
  <1>8. /\ \A p \in Pallets : /\ p \notin GetOf(items, gets)
                              /\ \A s \in Servers : p \notin GetOf(items, Append(gets, s))
        /\ \A t \in Servers : pc[t] # "getting" =>
                 /\ t \notin GetOf(items, gets)
                 /\ \A s \in Servers : t # s => t \notin GetOf(items, Append(gets, s))
    BY <1>1, <1>5, <1>6
  <1>9. \A t \in Servers : /\ t \notin GrantOf(users, requests) /\ t \notin PutOf(items, puts)
                           /\ \A q \in Pallets : /\ t \notin GrantOf(users, Append(requests, q))
                                                 /\ t \notin PutOf(items, Append(puts, q))
    BY <1>3, <1>4, <1>6
  <1> QED BY <1>7, <1>8, <1>9

\* No step but Stage takes a pallet from its put event.
LEMMA PutStays ==
    ASSUME TypeOK, HandoverInv, NEW q \in Pallets, pc[q] = "put", Next,
           \A p \in Pallets : ~Stage(p)
    PROVE  pc'[q] = "put"
  <1>1. /\ q \in Procs /\ \A s \in Servers : q # s /\ s \in Procs
    BY ProcsSplit, Disjoint
  <1>2. \A p \in Pallets : p \in Procs BY ProcsSplit
  <1>3. CASE Finish BY <1>3 DEF Finish
  <1>4. ASSUME NEW p \in Pallets, PalletStep(p) PROVE pc'[q] = "put"
    <2>1. AwaitRelease(p) => pc'[q] = "put"
      BY <1>1, <1>2 DEF Schedule, AwaitRelease, Fires
    <2>2. Arrive(p) => pc'[q] = "put"
      BY <1>1, <1>2, WokenWaits DEF Schedule, Arrive, Fires
    <2>3. StartUnload(p) => pc'[q] = "put"
      BY <1>1, <1>2 DEF Schedule, StartUnload, Fires
    <2>4. FinishUnload(p) => pc'[q] = "put"
      BY <1>1, <1>2, WokenWaits DEF Schedule, FinishUnload, Fires
    <2>5. Freed(p) => pc'[q] = "put"
      BY <1>1, <1>2, WokenWaits DEF Schedule, Freed, Fires
    <2> QED BY <1>4, <2>1, <2>2, <2>3, <2>4, <2>5 DEF PalletStep
  <1>5. ASSUME NEW s \in Servers, ServerStep(s) PROVE pc'[q] = "put"
    <2>1. StartServer(s) => pc'[q] = "put"
      BY <1>1, WokenWaits DEF Schedule, StartServer
    <2>2. StartPutaway(s) => pc'[q] = "put"
      BY <1>1, WokenWaits DEF Schedule, StartPutaway
    <2>3. FinishPutaway(s) => pc'[q] = "put"
      BY <1>1, WokenWaits DEF Schedule, FinishPutaway
    <2> QED BY <1>5, <2>1, <2>2, <2>3 DEF ServerStep
  <1> QED BY <1>3, <1>4, <1>5 DEF Next

\* The samples follow the ledger: an action that adds to a column takes a sample,
\* and the one that does not only takes units off the queue.
LEMMA SampleStep ==
    ASSUME TypeOK, HandoverInv, CurrentInv, Next
    PROVE  sample'.units = units'["in_system"] /\ units'["staged"] <= sample'.queue
  <1> DEFINE Goal == sample'.units = units'["in_system"] /\ units'["staged"] <= sample'.queue
  <1>1. /\ sample.units = units["in_system"] /\ units["staged"] <= sample.queue
        /\ units \in [UnitColumns -> Int] /\ units["staged"] \in Int /\ units["in_system"] \in Int
        /\ sample.queue \in Int
    BY DEF CurrentInv, TypeOK, UnitColumns
  <1>2. CASE UNCHANGED <<units, sample>> BY <1>1, <1>2
  <1>3. ASSUME sample_wip, units'["staged"] \in Int
        PROVE  Goal
    BY <1>3 DEF sample_wip
  <1>4. ASSUME NEW p \in Pallets, Arrive(p) PROVE Goal
    <2>1. units'["staged"] = units["staged"] BY <1>1, <1>4 DEF Arrive, UnitColumns
    <2> QED BY <1>1, <1>3, <1>4, <2>1 DEF Arrive
  <1>5. ASSUME NEW p \in Pallets, Stage(p) PROVE Goal
    <2>1. units'["staged"] = units["staged"] + Qty[p] BY <1>1, <1>5 DEF Stage, UnitColumns
    <2> QED BY <1>1, <1>3, <1>5, <2>1, InputTypes DEF Stage
  <1>6. ASSUME NEW s \in Servers, FinishPutaway(s) PROVE Goal
    <2>1. units'["staged"] = units["staged"] BY <1>1, <1>6 DEF FinishPutaway, UnitColumns
    <2> QED BY <1>1, <1>3, <1>6, <2>1 DEF FinishPutaway
  <1>7. ASSUME NEW s \in Servers, StartPutaway(s) PROVE Goal
    <2>1. held[s] \in Pallets
      BY <1>7 DEF StartPutaway, Fires, HandoverInv, HandedInv, Carrying
    <2>2. /\ units'["staged"] = units["staged"] - Qty[held[s]]
          /\ units'["in_system"] = units["in_system"] /\ sample' = sample
      BY <1>1, <1>7 DEF StartPutaway, UnitColumns
    <2>3. Qty[held[s]] \in Nat BY <2>1, InputTypes
    <2> QED BY <1>1, <2>2, <2>3
  <1>8. ASSUME NEW p \in Pallets, AwaitRelease(p) \/ StartUnload(p) \/ FinishUnload(p) \/ Freed(p)
        PROVE  UNCHANGED <<units, sample>>
    BY <1>8 DEF AwaitRelease, StartUnload, FinishUnload, Freed, ledger_vars
  <1>9. (Finish \/ \E s \in Servers : StartServer(s)) => UNCHANGED <<units, sample>>
    BY DEF Finish, StartServer, ledger_vars
  <1> QED BY <1>2, <1>4, <1>5, <1>6, <1>7, <1>8, <1>9 DEF Next, PalletStep, ServerStep

\* Every step of the line keeps the record of each station current.
LEMMA CurrentStep ==
    ASSUME TypeOK, HandoverInv, CurrentInv, [Next]_vars
    PROVE  CurrentInv'
  <1> DEFINE Show == /\ state'["putaway"] = Shown("putaway")'
                     /\ (\A p \in Pallets : pc'[p] # "put") =>
                           state'["receiving"] = Shown("receiving")'
  <1>1. CASE UNCHANGED vars
    BY <1>1 DEF vars, queue_vars, trace_vars, ledger_vars, CurrentInv, Shown
  <1>2. CASE Next
    <2>1. "receiving" \in Stations /\ "putaway" \in Stations BY DEF Stations
    <2>2. (\A p \in Pallets : ~Stage(p)) => \A q \in Pallets : pc[q] = "put" => pc'[q] = "put"
      BY <1>2, PutStays
    <2>3. (\A p \in Pallets : ~Stage(p)) /\ UNCHANGED <<busy, blocked, state>> => Show
      BY <2>2, FrameShows
    <2>4. ASSUME NEW bs, NEW bl, NEW t, refresh("receiving", bs, bl, t) PROVE Show
      BY <2>1, <2>4, RefreshShows DEF CurrentInv
    <2>5. ASSUME NEW bs, NEW bl, NEW t, refresh("putaway", bs, bl, t), \A p \in Pallets : ~Stage(p)
          PROVE  Show
      BY <2>1, <2>2, <2>5, RefreshShows DEF CurrentInv
    <2> HIDE DEF Show
    <2>6. ASSUME NEW p \in Pallets, Stage(p) PROVE Show BY <2>4, <2>6 DEF Stage
    <2>7. ASSUME \A p \in Pallets : ~Stage(p) PROVE Show
      <3>1. CASE UNCHANGED <<busy, blocked, state>> BY <2>3, <2>7, <3>1
      <3>2. ASSUME NEW p \in Pallets, StartUnload(p) PROVE Show
        BY <2>4, <3>2 DEF StartUnload
      <3>3. ASSUME NEW p \in Pallets, FinishUnload(p) PROVE Show
        <4> DEFINE woken == PutOf(items, Append(puts, p))
        <4>1. CASE p \in woken
          <5>1. /\ state' = state /\ busy' = [busy EXCEPT !["receiving"] = @ - 1] /\ blocked' = blocked
            BY <3>3, <4>1 DEF FinishUnload
          <5>2. pc'[p] = "put" BY <3>3, <4>1, ProcsSplit DEF FinishUnload, Schedule
          <5>3. busy'["putaway"] = busy["putaway"] BY <5>1 DEF TypeOK
          <5> QED BY <5>1, <5>2, <5>3 DEF CurrentInv, Shown, Show
        <4>2. CASE p \notin woken
          <5>1. refresh("receiving", busy["receiving"] - 1, blocked["receiving"] + 1, now')
            BY <3>3, <4>2 DEF FinishUnload
          <5> QED BY <2>4, <5>1
        <4> QED BY <4>1, <4>2
      <3>4. ASSUME NEW s \in Servers, StartPutaway(s) \/ FinishPutaway(s) PROVE Show
        BY <2>5, <2>7, <3>4 DEF StartPutaway, FinishPutaway
      <3>5. ASSUME NEW p \in Pallets, AwaitRelease(p) \/ Arrive(p) \/ Freed(p)
            PROVE  UNCHANGED <<busy, blocked, state>>
        BY <3>5 DEF AwaitRelease, Arrive, Freed, trace_vars
      <3>6. (Finish \/ \E s \in Servers : StartServer(s)) => UNCHANGED <<busy, blocked, state>>
        BY DEF Finish, StartServer, trace_vars
      <3> QED BY <1>2, <2>7, <3>1, <3>2, <3>3, <3>4, <3>5, <3>6 DEF Next, PalletStep, ServerStep
    <2>8. Show BY <2>6, <2>7
    <2> QED BY <1>2, <2>8, SampleStep DEF CurrentInv, Show
  <1> QED BY <1>1, <1>2

\* In the first state nothing has been recorded and nothing has happened.
LEMMA InitTrace == Init => SpellInv /\ CurrentInv
  <1> SUFFICES ASSUME Init PROVE SpellInv /\ CurrentInv
    OBVIOUS
  <1>1. SpellInv
    <2>1. ASSUME NEW st \in Stations
          PROVE  spells[st] = <<>> /\ Len(spells[st]) = 0 /\ spell_start[st] = 0 /\ now = 0
      BY DEF Init
    <2> QED BY <2>1 DEF SpellInv, SpellsPartition
  <1>2. CurrentInv
    BY DEF Init, CurrentInv, Shown, observed, Stations, UnitColumns
  <1> QED BY <1>1, <1>2

\* When every event of the tick has been taken no put is pending.
LEMMA QuietNoPut ==
    ASSUME TypeOK, HandoverInv, Quiet
    PROVE  \A p \in Pallets : pc[p] \notin PutPending
  <1> SUFFICES ASSUME NEW p \in Pallets, pc[p] \in PutPending PROVE FALSE
    OBVIOUS
  <1>1. p \in Scheduled BY ProcsSplit DEF Scheduled, PutPending, Queued
  <1>2. ev[p].at \in Nat /\ now \in Nat /\ ev[p].at <= now
    BY ProcsSplit DEF TypeOK, HandoverInv, ItemsInv
  <1> QED BY <1>1, <1>2 DEF Quiet

\* INV-TWIN-09 for every run: the spells of each station follow one another from
\* tick 0 without gap or overlap, whatever the service times and the horizon.
THEOREM SpellsPartitionTime == Spec => []SpellsPartition
  <1>1. Init => SpellInv BY InitTrace
  <1>2. IInv /\ SpellInv /\ [Next]_vars => SpellInv'
    BY SpellStep DEF IInv
  <1>3. SpellInv => SpellsPartition BY DEF SpellInv
  <1> QED BY <1>1, <1>2, <1>3, HandoverCorrect, PTL DEF Spec

\* When the clock moves on, the state trace of each station shows its server counts
\* and the last sample of _sample_wip the units in the system: no stretch of time is
\* charged to a stale record.
THEOREM RecordsAreCurrent == Spec => []RecordIsCurrent
  <1>1. Init => CurrentInv BY InitTrace
  <1>2. IInv /\ CurrentInv /\ [Next]_vars => CurrentInv'
    BY CurrentStep DEF IInv
  <1>3. IInv /\ CurrentInv => RecordIsCurrent
    <2> SUFFICES ASSUME IInv, CurrentInv, Quiet
                 PROVE  /\ \A st \in Stations : state[st] = observed(st, busy[st], blocked[st])
                        /\ sample.units = units["in_system"] /\ sample.queue >= units["staged"]
      BY DEF RecordIsCurrent, TraceIsCurrent, SampleIsCurrent
    <2>1. \A p \in Pallets : pc[p] # "put" BY QuietNoPut DEF IInv, PutPending
    <2>2. sample.queue \in Int /\ units["staged"] \in Int BY DEF IInv, TypeOK, UnitColumns
    <2> QED BY <2>1, <2>2 DEF CurrentInv, Shown, Stations
  <1> QED BY <1>1, <1>2, <1>3, HandoverCorrect, PTL DEF Spec
-----------------------------------------------------------------------------
(* The servers of the dock and the wake-ups of its resources.              *)

Holding == {"request", "service", "putting", "put", "unblocked"}

\* An unload server is held from its grant to the end of the with-block.
DockInv ==
    /\ users = {p \in Pallets : pc[p] \in Holding}
    /\ \A p \in Pallets : pallet_state[p] = "UNLOADING" => pc[p] \in Holding \ {"request"}
    /\ Cardinality(users) <= ReceivingCapacity

PutsDue  == {p \in Pallets : pc[p] \in PutPending}
FreesDue == {p \in Pallets : pc[p] = "freed"}
GetsDue  == {s \in Servers : pc[s] = "get"}

\* The strengthening of NoLostWakeup: each trigger serves one waiter only, so
\* what is there for the waiters of a resource never exceeds the events of this
\* tick that will trigger it again.
WakeInv ==
    /\ Len(items) <= StagingCapacity
    /\ gets # <<>> => Len(items) <= Cardinality(PutsDue)
    /\ puts # <<>> => StagingCapacity - Len(items) <= Cardinality(GetsDue)
    /\ requests # <<>> => ReceivingCapacity - Cardinality(users) <= Cardinality(FreesDue)

\* The events that trigger a resource again are events of the current tick.
DueInv == \A a \in GetsDue \cup FreesDue : ev[a].at <= now

\* The server counts of both stations.
CountInv ==
    /\ blocked["receiving"] = Cardinality({p \in Pallets : pc[p] \in {"putting", "unblocked"}})
    /\ busy["receiving"] = Cardinality({p \in Pallets : pc[p] = "service"})
    /\ busy["putaway"] = Cardinality({p \in Pallets : pallet_state[p] = "AWAITING_PUTAWAY"})
-----------------------------------------------------------------------------
(* What each step does to the processes and the resources.                 *)

\* Which pallet a queue serves first, and what adding one to a queue leaves.
LEMMA QueueEnds ==
    ASSUME NEW S, NEW q \in Seq(S), NEW e \in S
    PROVE  /\ Append(q, e) # <<>> /\ Append(q, e) \in Seq(S)
           /\ Head(Append(q, e)) = IF q = <<>> THEN e ELSE Head(q)
           /\ Tail(Append(q, e)) # <<>> => q # <<>>
           /\ Len(Append(q, e)) = Len(q) + 1
  <1>1. Append(q, e) # <<>> /\ Append(q, e) \in Seq(S) /\ Len(Append(q, e)) = Len(q) + 1
        /\ Len(q) \in Nat
    BY AppendType
  <1>2. Head(Append(q, e)) = Append(q, e)[1] BY <1>1, TailType
  <1>3. CASE q = <<>>
    <2>1. Append(q, e) = <<e>> BY <1>3
    <2> QED BY <1>1, <2>1
  <1>4. CASE q # <<>>
    <2>1. Head(q) = q[1] /\ 1 \in 1..Len(q) BY <1>4
    <2> QED BY <1>1, <1>2, <1>4, <2>1, AppendType
  <1> QED BY <1>3, <1>4

\* The dock grants a free server to the first request, or has none.
LEMMA RequestEffect ==
    ASSUME NEW us \in SUBSET Pallets, NEW rq \in Seq(Pallets), TriggerRequest(us, rq)
    PROVE  \/ /\ GrantOf(us, rq) = {} /\ requests' = rq /\ users' = us
              /\ rq # <<>> => ~(Cardinality(us) < ReceivingCapacity)
           \/ /\ rq # <<>> /\ GrantOf(us, rq) = {Head(rq)} /\ Cardinality(us) < ReceivingCapacity
              /\ requests' = Tail(rq) /\ users' = us \cup {Head(rq)} /\ Head(rq) \in Pallets
  BY TailType DEF TriggerRequest, GrantOf

\* The store lets the first blocked put in, or is full.
LEMMA PutLens ==
    ASSUME NEW its \in Seq(Pallets), NEW pq \in Seq(Pallets), TriggerPut(its, pq)
    PROVE  \/ /\ PutOf(its, pq) = {} /\ items' = its /\ puts' = pq
              /\ pq # <<>> => ~(Len(its) < StagingCapacity)
           \/ /\ pq # <<>> /\ PutOf(its, pq) = {Head(pq)} /\ Len(its) < StagingCapacity
              /\ items' = Append(its, Head(pq)) /\ puts' = Tail(pq) /\ Head(pq) \in Pallets
              /\ Len(items') = Len(its) + 1
  <1>1. CASE pq # <<>> /\ Len(its) < StagingCapacity
    <2>1. PutOf(its, pq) = {Head(pq)} /\ Head(pq) \in Pallets BY <1>1, TailType DEF PutOf
    <2>2. items' = Append(its, Head(pq)) /\ puts' = Tail(pq) BY <2>1 DEF TriggerPut
    <2>3. Len(items') = Len(its) + 1 BY <2>1, <2>2
    <2> QED BY <1>1, <2>1, <2>2, <2>3
  <1>2. CASE ~(pq # <<>> /\ Len(its) < StagingCapacity)
    BY <1>2 DEF TriggerPut, PutOf
  <1> QED BY <1>1, <1>2

\* The store hands its oldest item to the first waiting server, or lacks one of them.
LEMMA GetLens ==
    ASSUME NEW its \in Seq(Pallets), NEW gq \in Seq(Servers), TriggerGet(its, gq),
           held \in [Servers -> Pallets \cup {0}]
    PROVE  \/ /\ GetOf(its, gq) = {} /\ items' = its /\ gets' = gq /\ held' = held
              /\ gq = <<>> \/ its = <<>>
           \/ /\ gq # <<>> /\ its # <<>> /\ GetOf(its, gq) = {Head(gq)}
              /\ items' = Tail(its) /\ gets' = Tail(gq) /\ Head(gq) \in Servers
              /\ held' = [held EXCEPT ![Head(gq)] = Head(its)] /\ Head(its) \in Pallets
              /\ Len(items') = Len(its) - 1
  <1>1. CASE gq = <<>> \/ its = <<>>
    <2>1. GetOf(its, gq) = {} BY <1>1 DEF GetOf
    <2>2. held' = held BY <2>1 DEF TriggerGet
    <2> QED BY <1>1, <2>1, <2>2 DEF TriggerGet
  <1>2. CASE gq # <<>> /\ its # <<>>
    <2>1. GetOf(its, gq) = {Head(gq)} BY <1>2 DEF GetOf
    <2>2. Head(gq) \in Servers /\ Head(its) \in Pallets /\ Len(Tail(its)) = Len(its) - 1
      BY <1>2, TailType
    <2>3. held' = [held EXCEPT ![Head(gq)] = Head(its)]
      BY <2>1, <2>2 DEF TriggerGet
    <2> QED BY <1>2, <2>1, <2>2, <2>3 DEF TriggerGet
  <1> QED BY <1>1, <1>2

\* A transition that does not raise follows an edge of the state table.
LEMMA TransitionEffect ==
    ASSUME TypeOK, NEW p \in Pallets, NEW to, transition(p, to), raised = FALSE, raised' = FALSE
    PROVE  /\ pallet_state' = [pallet_state EXCEPT ![p] = to]
           /\ to = "ON_TRUCK" => pallet_state[p] = "EXPECTED"
           /\ to = "UNLOADING" => pallet_state[p] = "ON_TRUCK"
           /\ to = "STAGED" => pallet_state[p] = "UNLOADING"
           /\ to = "AWAITING_PUTAWAY" => pallet_state[p] = "STAGED"
           /\ to = "STORED" => pallet_state[p] = "AWAITING_PUTAWAY"
  BY DEF transition, PALLET_TRANSITIONS

\* A set of processes is finite.
LEMMA FiniteProcs ==
    /\ IsFiniteSet(Pallets) /\ Cardinality(Pallets) = NumPallets
    /\ IsFiniteSet(Servers) /\ Cardinality(Servers) = PutawayCapacity
    /\ \A S \in SUBSET Pallets : IsFiniteSet(S) /\ Cardinality(S) \in Nat
    /\ \A S \in SUBSET Servers : IsFiniteSet(S) /\ Cardinality(S) \in Nat
  <1>1. IsFiniteSet(Pallets) /\ Cardinality(Pallets) = NumPallets
    BY SpecAssumption, FS_Interval DEF Pallets
  <1>2. IsFiniteSet(Servers) /\ Cardinality(Servers) = PutawayCapacity
    <2>1. NumPallets + 1 \in Int /\ NumPallets + PutawayCapacity \in Int
          /\ ~(NumPallets + 1 > NumPallets + PutawayCapacity)
      BY SpecAssumption
    <2>2. (NumPallets + PutawayCapacity) - (NumPallets + 1) + 1 = PutawayCapacity
      BY SpecAssumption
    <2> QED BY <2>1, <2>2, FS_Interval DEF Servers
  <1>3. \A S \in SUBSET Pallets : IsFiniteSet(S) BY <1>1, FS_Subset
  <1>4. \A S \in SUBSET Servers : IsFiniteSet(S) BY <1>2, FS_Subset
  <1> QED BY <1>1, <1>2, <1>3, <1>4, FS_CardinalityType

\* Counting one more and one less of a set of processes.
LEMMA CountOne ==
    ASSUME NEW S, NEW x, IsFiniteSet(S)
    PROVE  /\ x \notin S => Cardinality(S \cup {x}) = Cardinality(S) + 1
           /\ x \in S => Cardinality(S \ {x}) = Cardinality(S) - 1
  BY FS_AddElement, FS_RemoveElement

\* At most one process is woken in a step.
AtMostOne(W, S) == W = {} \/ \E w \in S : W = {w}

\* What an arrival does, W being the pallets it leads to a grant for.
Arrives(p, W) ==
    /\ AtMostOne(W, Pallets) /\ \A w \in W : w = p \/ pc[w] = "requesting"
    /\ pc[p] \in {"init", "release"}
    /\ \A x \in Pallets : pc'[x] = IF x \in W THEN "request"
                                   ELSE IF x = p THEN "requesting" ELSE pc[x]
    /\ \A x \in Pallets : x \notin W /\ x # p => ev'[x] = ev[x]
    /\ \A x \in Servers : pc'[x] = pc[x] /\ ev'[x] = ev[x]
    /\ pallet_state[p] = "EXPECTED"
    /\ pallet_state' = [pallet_state EXCEPT ![p] = "ON_TRUCK"]
    /\ users' = users \cup W
    /\ W = {} => ~(Cardinality(users) < ReceivingCapacity)
    /\ W # {} => Cardinality(users) < ReceivingCapacity /\ (requests' # <<>> => requests # <<>>)
    /\ UNCHANGED <<items, puts, gets, held, staged_log, busy, blocked>>

\* An arriving pallet is on the truck and has a server, or waits for one.
LEMMA ArriveDoes ==
    ASSUME TypeOK, HandoverInv, HandoverInv', NEW p \in Pallets, Arrive(p)
    PROVE  \E W \in SUBSET Pallets : Arrives(p, W)
  <1> DEFINE W == GrantOf(users, Append(requests, p))
  <1>1. /\ requests \in Seq(Pallets) /\ users \in SUBSET Pallets /\ raised = FALSE /\ raised' = FALSE
        /\ TriggerRequest(users, Append(requests, p)) /\ transition(p, "ON_TRUCK")
        /\ Schedule(W, "request", p, "requesting", now') /\ pc[p] \in {"init", "release"}
        /\ UNCHANGED <<items, puts, gets, held, staged_log, busy, blocked>>
    BY DEF Arrive, Fires, TypeOK, HandoverInv, NoIllegalTransition, store_vars, trace_vars
  <1>2. /\ Append(requests, p) \in Seq(Pallets) /\ Append(requests, p) # <<>>
        /\ Tail(Append(requests, p)) # <<>> => requests # <<>>
    BY <1>1, QueueEnds
  <1>3. \/ W = {} /\ users' = users /\ ~(Cardinality(users) < ReceivingCapacity)
        \/ \E w \in Pallets : /\ W = {w} /\ users' = users \cup {w}
                              /\ Cardinality(users) < ReceivingCapacity
                              /\ requests' = Tail(Append(requests, p))
    BY <1>1, <1>2, RequestEffect
  <1>4. /\ AtMostOne(W, Pallets) /\ users' = users \cup W
        /\ W = {} => ~(Cardinality(users) < ReceivingCapacity)
        /\ W # {} => Cardinality(users) < ReceivingCapacity /\ (requests' # <<>> => requests # <<>>)
    <2> HIDE DEF W
    <2> QED BY <1>2, <1>3 DEF AtMostOne
  <1>5. W \in SUBSET Pallets BY <1>4 DEF AtMostOne
  <1>6. \A w \in W : w = p \/ pc[w] = "requesting" BY <1>5, WokenWaits
  <1>7. pallet_state[p] = "EXPECTED" /\ pallet_state' = [pallet_state EXCEPT ![p] = "ON_TRUCK"]
    BY <1>1, TransitionEffect
  <1> HIDE DEF W
  <1>8. /\ \A x \in Pallets : pc'[x] = IF x \in W THEN "request"
                                       ELSE IF x = p THEN "requesting" ELSE pc[x]
        /\ \A x \in Pallets : x \notin W /\ x # p => ev'[x] = ev[x]
        /\ \A x \in Servers : pc'[x] = pc[x] /\ ev'[x] = ev[x]
    BY <1>1, <1>5, ProcsSplit, Disjoint DEF Schedule
  <1> QED BY <1>1, <1>3, <1>4, <1>5, <1>6, <1>7, <1>8 DEF Arrives

\* What the release of an unload server does.
Frees(p, W) ==
    /\ AtMostOne(W, Pallets) /\ \A w \in W : w # p /\ pc[w] = "requesting"
    /\ pc[p] = "freed"
    /\ \A x \in Pallets : pc'[x] = IF x \in W THEN "request"
                                   ELSE IF x = p THEN "ended" ELSE pc[x]
    /\ \A x \in Pallets : x \notin W /\ x # p => ev'[x] = ev[x]
    /\ \A x \in Servers : pc'[x] = pc[x] /\ ev'[x] = ev[x]
    /\ users' = users \cup W
    /\ W = {} => requests' = <<>> \/ ~(Cardinality(users) < ReceivingCapacity)
    /\ W # {} => Cardinality(users) < ReceivingCapacity /\ requests # <<>>
    /\ UNCHANGED <<items, puts, gets, held, staged_log, busy, blocked, pallet_state>>

\* The release of a server gives it to the first pallet that waits for one.
LEMMA FreedDoes ==
    ASSUME TypeOK, HandoverInv, NEW p \in Pallets, Freed(p)
    PROVE  \E W \in SUBSET Pallets : Frees(p, W)
  <1> DEFINE W == GrantOf(users, requests)
  <1>1. /\ requests \in Seq(Pallets) /\ users \in SUBSET Pallets
        /\ TriggerRequest(users, requests)
        /\ Schedule(W, "request", p, "ended", now') /\ pc[p] = "freed"
        /\ UNCHANGED <<items, puts, gets, held, staged_log, busy, blocked, pallet_state>>
    BY DEF Freed, Fires, TypeOK, store_vars, trace_vars, ledger_vars
  <1>2. \/ /\ W = {} /\ users' = users /\ requests' = requests
           /\ requests # <<>> => ~(Cardinality(users) < ReceivingCapacity)
        \/ \E w \in Pallets : /\ W = {w} /\ users' = users \cup {w} /\ requests # <<>>
                              /\ Cardinality(users) < ReceivingCapacity
    BY <1>1, RequestEffect
  <1>3. /\ AtMostOne(W, Pallets) /\ users' = users \cup W
        /\ W = {} => requests' = <<>> \/ ~(Cardinality(users) < ReceivingCapacity)
        /\ W # {} => Cardinality(users) < ReceivingCapacity /\ requests # <<>>
    <2> HIDE DEF W
    <2> QED BY <1>2 DEF AtMostOne
  <1>4. W \in SUBSET Pallets BY <1>3 DEF AtMostOne
  <1>5. \A w \in W : w # p /\ pc[w] = "requesting" BY <1>1, <1>4, WokenWaits
  <1> HIDE DEF W
  <1>6. /\ \A x \in Pallets : pc'[x] = IF x \in W THEN "request"
                                       ELSE IF x = p THEN "ended" ELSE pc[x]
        /\ \A x \in Pallets : x \notin W /\ x # p => ev'[x] = ev[x]
        /\ \A x \in Servers : pc'[x] = pc[x] /\ ev'[x] = ev[x]
    BY <1>1, <1>4, ProcsSplit, Disjoint DEF Schedule
  <1> QED BY <1>1, <1>2, <1>3, <1>4, <1>5, <1>6 DEF Frees

\* What offering an unloaded pallet to the store does, W being the pallets let in.
Offers(p, W) ==
    /\ AtMostOne(W, Pallets) /\ \A w \in W : w = p \/ pc[w] = "putting"
    /\ pc[p] = "service"
    /\ \A x \in Pallets : pc'[x] = IF x \in W THEN IF p \in W THEN "put" ELSE "unblocked"
                                   ELSE IF x = p THEN "putting" ELSE pc[x]
    /\ \A x \in Pallets : /\ x \in W => ev'[x] = [at |-> now', no |-> counter + 1]
                          /\ x \notin W /\ x # p => ev'[x] = ev[x]
    /\ \A x \in Servers : pc'[x] = pc[x] /\ ev'[x] = ev[x]
    /\ counter' = counter + 2
    /\ W = {} => items' = items /\ ~(Len(items) < StagingCapacity)
    /\ W # {} => /\ Len(items) < StagingCapacity /\ Len(items') = Len(items) + 1
                 /\ puts' # <<>> => puts # <<>>
    /\ \A w \in W : items' = Append(items, w)
    /\ busy'["receiving"] = busy["receiving"] - 1 /\ busy'["putaway"] = busy["putaway"]
    /\ blocked'["receiving"] = blocked["receiving"] + IF p \in W THEN 0 ELSE 1
    /\ UNCHANGED <<users, requests, gets, held, staged_log, pallet_state>>

\* A pallet that is unloaded goes into the store, or waits behind the blocked ones.
LEMMA FinishUnloadDoes ==
    ASSUME TypeOK, HandoverInv, NEW p \in Pallets, FinishUnload(p)
    PROVE  \E W \in SUBSET Pallets : Offers(p, W)
  <1> DEFINE W == PutOf(items, Append(puts, p))
  <1>1. /\ items \in Seq(Pallets) /\ puts \in Seq(Pallets)
        /\ busy \in [Stations -> Int] /\ blocked \in [Stations -> Int]
        /\ TriggerPut(items, Append(puts, p))
        /\ Schedule(W, IF p \in W THEN "put" ELSE "unblocked", p, "putting", now')
        /\ pc[p] = "service"
        /\ UNCHANGED <<users, requests, gets, held, staged_log, pallet_state>>
    BY DEF FinishUnload, Fires, TypeOK, dock_vars, ledger_vars
  <1>2. /\ Append(puts, p) \in Seq(Pallets) /\ Append(puts, p) # <<>>
        /\ Tail(Append(puts, p)) # <<>> => puts # <<>>
    BY <1>1, QueueEnds
  <1>3. \/ W = {} /\ items' = items /\ ~(Len(items) < StagingCapacity)
        \/ \E w \in Pallets : /\ W = {w} /\ Len(items) < StagingCapacity
                              /\ items' = Append(items, w) /\ Len(items') = Len(items) + 1
                              /\ puts' = Tail(Append(puts, p))
    BY <1>1, <1>2, PutLens
  <1>4. W \in SUBSET Pallets /\ AtMostOne(W, Pallets)
    <2> HIDE DEF W
    <2> QED BY <1>3 DEF AtMostOne
  <1>5. \A w \in W : w = p \/ pc[w] = "putting" BY <1>4, WokenWaits
  <1>6. /\ W = {} => items' = items /\ ~(Len(items) < StagingCapacity)
        /\ W # {} => /\ Len(items) < StagingCapacity /\ Len(items') = Len(items) + 1
                     /\ puts' # <<>> => puts # <<>>
        /\ \A w \in W : items' = Append(items, w)
    <2> HIDE DEF W
    <2> QED BY <1>2, <1>3
  <1>7. /\ busy'["receiving"] = busy["receiving"] - 1 /\ busy'["putaway"] = busy["putaway"]
        /\ blocked'["receiving"] = blocked["receiving"] + IF p \in W THEN 0 ELSE 1
    <2>1. busy' = [busy EXCEPT !["receiving"] = busy["receiving"] - 1] BY DEF FinishUnload, refresh
    <2>2. p \in W => blocked' = blocked BY DEF FinishUnload
    <2>3. p \notin W => blocked' = [blocked EXCEPT !["receiving"] = blocked["receiving"] + 1]
      BY DEF FinishUnload, refresh
    <2>4. "receiving" \in Stations /\ "putaway" \in Stations BY DEF Stations
    <2> HIDE DEF W
    <2> QED BY <1>1, <2>1, <2>2, <2>3, <2>4
  <1> HIDE DEF W
  <1>8. /\ \A x \in Pallets : pc'[x] = IF x \in W THEN IF p \in W THEN "put" ELSE "unblocked"
                                       ELSE IF x = p THEN "putting" ELSE pc[x]
        /\ \A x \in Pallets : /\ x \in W => ev'[x] = [at |-> now', no |-> counter + 1]
                              /\ x \notin W /\ x # p => ev'[x] = ev[x]
        /\ \A x \in Servers : pc'[x] = pc[x] /\ ev'[x] = ev[x]
        /\ counter' = counter + 2
    BY <1>1, <1>4, ProcsSplit, Disjoint DEF Schedule
  <1> QED BY <1>1, <1>3, <1>4, <1>5, <1>6, <1>7, <1>8 DEF Offers

\* What the put event of a pallet does, W being the servers handed a pallet.
Stages(p, W) ==
    /\ AtMostOne(W, Servers) /\ \A w \in W : pc[w] = "getting"
    /\ pc[p] \in PutPending /\ Fires(p, pc[p])
    /\ \A x \in Servers : /\ pc'[x] = IF x \in W THEN "get" ELSE pc[x]
                          /\ x \in W => ev'[x] = [at |-> now', no |-> counter + 1]
                          /\ x \notin W => ev'[x] = ev[x]
    /\ \A x \in Pallets : /\ pc'[x] = IF x = p THEN "freed" ELSE pc[x]
                          /\ x # p => ev'[x] = ev[x]
    /\ ev'[p].at = now' /\ counter' = counter + 2
    /\ pallet_state[p] = "UNLOADING"
    /\ pallet_state' = [pallet_state EXCEPT ![p] = "STAGED"]
    /\ users' = users \ {p} /\ staged_log' = Append(staged_log, p)
    /\ W = {} => items' = items /\ gets' = gets /\ held' = held /\ (gets = <<>> \/ items = <<>>)
    /\ \A w \in W : /\ gets # <<>> /\ items # <<>> /\ Len(items') = Len(items) - 1
                    /\ items' = Tail(items) /\ held' = [held EXCEPT ![w] = Head(items)]
    /\ busy' = busy /\ blocked'["putaway"] = blocked["putaway"]
    /\ blocked'["receiving"] = blocked["receiving"] - IF pc[p] = "unblocked" THEN 1 ELSE 0
    /\ UNCHANGED <<requests, puts>>

\* The pallet is staged, its server is released and the oldest item of the store
\* goes to the first waiting putaway server.
LEMMA StageDoes ==
    ASSUME TypeOK, HandoverInv, HandoverInv', NEW p \in Pallets, Stage(p)
    PROVE  \E W \in SUBSET Servers : Stages(p, W)
  <1> DEFINE W == GetOf(items, gets)
  <1>1. /\ items \in Seq(Pallets) /\ gets \in Seq(Servers) /\ held \in [Servers -> Pallets \cup {0}]
        /\ busy \in [Stations -> Int] /\ blocked \in [Stations -> Int]
        /\ raised = FALSE /\ raised' = FALSE
        /\ TriggerGet(items, gets) /\ transition(p, "STAGED")
        /\ Schedule(W, "get", p, "freed", now')
        /\ users' = users \ {p} /\ staged_log' = Append(staged_log, p)
        /\ UNCHANGED <<requests, puts>>
    BY SMTT(60) DEF Stage, TypeOK, HandoverInv, NoIllegalTransition
  <1>2. pc[p] \in PutPending /\ Fires(p, pc[p])
    <2>1. Fires(p, "put") \/ Fires(p, "unblocked") BY DEF Stage
    <2> QED BY <2>1 DEF PutPending, Fires
  <1>3. \/ W = {} /\ items' = items /\ gets' = gets /\ held' = held /\ (gets = <<>> \/ items = <<>>)
        \/ \E w \in Servers : /\ W = {w} /\ gets # <<>> /\ items # <<>> /\ Len(items') = Len(items) - 1
                              /\ items' = Tail(items) /\ held' = [held EXCEPT ![w] = Head(items)]
    BY <1>1, GetLens
  <1>4. W \in SUBSET Servers /\ AtMostOne(W, Servers)
    <2> HIDE DEF W
    <2> QED BY <1>3 DEF AtMostOne
  <1>5. \A w \in W : pc[w] = "getting" BY <1>4, WokenWaits
  <1>6. pallet_state[p] = "UNLOADING" /\ pallet_state' = [pallet_state EXCEPT ![p] = "STAGED"]
    BY <1>1, TransitionEffect
  <1>7. /\ busy' = busy /\ blocked'["putaway"] = blocked["putaway"]
        /\ blocked'["receiving"] = blocked["receiving"] - IF pc[p] = "unblocked" THEN 1 ELSE 0
    <2>1. CASE pc[p] = "put"
      <3>1. refresh("receiving", busy["receiving"], blocked["receiving"], now')
        BY <2>1 DEF Stage, Fires
      <3>2. /\ busy' = [busy EXCEPT !["receiving"] = busy["receiving"]]
            /\ blocked' = [blocked EXCEPT !["receiving"] = blocked["receiving"]]
        BY <3>1 DEF refresh
      <3> QED BY <1>1, <2>1, <3>2 DEF Stations
    <2>2. CASE pc[p] = "unblocked"
      <3>1. refresh("receiving", busy["receiving"], blocked["receiving"] - 1, now')
        BY <2>2 DEF Stage, Fires
      <3>2. /\ busy' = [busy EXCEPT !["receiving"] = busy["receiving"]]
            /\ blocked' = [blocked EXCEPT !["receiving"] = blocked["receiving"] - 1]
        BY <3>1 DEF refresh
      <3> QED BY <1>1, <2>2, <3>2 DEF Stations
    <2> QED BY <1>2, <2>1, <2>2 DEF PutPending
  <1> HIDE DEF W
  <1>8. /\ W = {} => items' = items /\ gets' = gets /\ held' = held /\ (gets = <<>> \/ items = <<>>)
        /\ \A w \in W : /\ gets # <<>> /\ items # <<>> /\ Len(items') = Len(items) - 1
                        /\ items' = Tail(items) /\ held' = [held EXCEPT ![w] = Head(items)]
    BY <1>3
  <1>9. /\ \A x \in Servers : /\ pc'[x] = IF x \in W THEN "get" ELSE pc[x]
                              /\ x \in W => ev'[x] = [at |-> now', no |-> counter + 1]
                              /\ x \notin W => ev'[x] = ev[x]
        /\ \A x \in Pallets : /\ pc'[x] = IF x = p THEN "freed" ELSE pc[x]
                              /\ x # p => ev'[x] = ev[x]
        /\ ev'[p].at = now' /\ counter' = counter + 2
    BY <1>1, <1>4, ProcsSplit, Disjoint DEF Schedule
  <1> QED BY <1>1, <1>2, <1>4, <1>5, <1>6, <1>7, <1>8, <1>9 DEF Stages

\* What a server does that asks for its next pallet, at its start or after putaway.
AsksNext(s, W) ==
    /\ AtMostOne(W, Servers) /\ \A w \in W : w = s \/ pc[w] = "getting"
    /\ \A x \in Servers : /\ pc'[x] = IF x \in W THEN "get" ELSE IF x = s THEN "getting" ELSE pc[x]
                          /\ x \in W => ev'[x] = [at |-> now', no |-> counter + 1]
                          /\ x \notin W /\ x # s => ev'[x] = ev[x]
    /\ \A x \in Pallets : pc'[x] = pc[x] /\ ev'[x] = ev[x]
    /\ counter' = counter + 2
    /\ W = {} => items' = items /\ held' = held /\ items = <<>>
    /\ \A w \in W : /\ items # <<>> /\ Len(items') = Len(items) - 1 /\ (gets' # <<>> => gets # <<>>)
                    /\ items' = Tail(items) /\ held' = [held EXCEPT ![w] = Head(items)]
    /\ UNCHANGED <<users, requests, puts, staged_log>>

\* store.get() and the events it leads to.
LEMMA AsksNextDoes ==
    ASSUME TypeOK, HandoverInv, NEW s \in Servers,
           TriggerGet(items, Append(gets, s)),
           Schedule(GetOf(items, Append(gets, s)), "get", s, "getting", now'),
           UNCHANGED <<users, requests, puts, staged_log>>
    PROVE  \E W \in SUBSET Servers : AsksNext(s, W)
  <1> DEFINE W == GetOf(items, Append(gets, s))
  <1>1. /\ items \in Seq(Pallets) /\ gets \in Seq(Servers) /\ held \in [Servers -> Pallets \cup {0}]
    BY DEF TypeOK
  <1>2. /\ Append(gets, s) \in Seq(Servers) /\ Append(gets, s) # <<>>
        /\ Tail(Append(gets, s)) # <<>> => gets # <<>>
    BY <1>1, QueueEnds
  <1>3. \/ W = {} /\ items' = items /\ held' = held /\ items = <<>>
        \/ \E w \in Servers : /\ W = {w} /\ items # <<>> /\ Len(items') = Len(items) - 1
                              /\ gets' = Tail(Append(gets, s))
                              /\ items' = Tail(items) /\ held' = [held EXCEPT ![w] = Head(items)]
    BY <1>1, <1>2, GetLens
  <1>4. W \in SUBSET Servers /\ AtMostOne(W, Servers)
    <2> HIDE DEF W
    <2> QED BY <1>3 DEF AtMostOne
  <1>5. \A w \in W : w = s \/ pc[w] = "getting" BY <1>4, WokenWaits
  <1> HIDE DEF W
  <1>6. /\ W = {} => items' = items /\ held' = held /\ items = <<>>
        /\ \A w \in W : /\ items # <<>> /\ Len(items') = Len(items) - 1 /\ (gets' # <<>> => gets # <<>>)
                        /\ items' = Tail(items) /\ held' = [held EXCEPT ![w] = Head(items)]
    BY <1>2, <1>3
  <1>7. Schedule(W, "get", s, "getting", now') BY DEF W
  <1>8. /\ \A x \in Servers : /\ pc'[x] = IF x \in W THEN "get" ELSE IF x = s THEN "getting" ELSE pc[x]
                              /\ x \in W => ev'[x] = [at |-> now', no |-> counter + 1]
                              /\ x \notin W /\ x # s => ev'[x] = ev[x]
        /\ \A x \in Pallets : pc'[x] = pc[x] /\ ev'[x] = ev[x]
        /\ counter' = counter + 2
    BY <1>7, <1>4, ProcsSplit, Disjoint DEF Schedule
  <1> QED BY <1>4, <1>5, <1>6, <1>8 DEF AsksNext

\* A server that starts asks for its first pallet.
LEMMA StartServerDoes ==
    ASSUME TypeOK, HandoverInv, NEW s \in Servers, StartServer(s)
    PROVE  /\ \E W \in SUBSET Servers : AsksNext(s, W)
           /\ pc[s] = "init" /\ UNCHANGED <<pallet_state, busy, blocked>>
  <1>1. /\ TriggerGet(items, Append(gets, s))
        /\ Schedule(GetOf(items, Append(gets, s)), "get", s, "getting", now')
        /\ UNCHANGED <<users, requests, puts, staged_log>>
        /\ pc[s] = "init" /\ UNCHANGED <<pallet_state, busy, blocked>>
    BY DEF StartServer, Fires, dock_vars, ledger_vars, trace_vars
  <1> QED BY <1>1, AsksNextDoes

\* A server stores its pallet and asks for the next.
LEMMA FinishPutawayDoes ==
    ASSUME TypeOK, HandoverInv, HandoverInv', NEW s \in Servers, FinishPutaway(s)
    PROVE  /\ \E W \in SUBSET Servers : AsksNext(s, W)
           /\ pc[s] = "service" /\ held[s] \in Pallets
           /\ pallet_state[held[s]] = "AWAITING_PUTAWAY"
           /\ pallet_state' = [pallet_state EXCEPT ![held[s]] = "STORED"]
           /\ busy' = [busy EXCEPT !["putaway"] = busy["putaway"] - 1]
           /\ blocked' = [blocked EXCEPT !["putaway"] = blocked["putaway"]]
  <1>1. /\ TriggerGet(items, Append(gets, s))
        /\ Schedule(GetOf(items, Append(gets, s)), "get", s, "getting", now')
        /\ UNCHANGED <<users, requests, puts, staged_log>>
        /\ pc[s] = "service" /\ transition(held[s], "STORED")
        /\ raised = FALSE /\ raised' = FALSE
        /\ refresh("putaway", busy["putaway"] - 1, blocked["putaway"], now')
    BY DEF FinishPutaway, Fires, dock_vars, HandoverInv, NoIllegalTransition, TypeOK
  <1>2. held[s] \in Pallets BY <1>1 DEF HandoverInv, HandedInv, Carrying
  <1>3. pallet_state[held[s]] = "AWAITING_PUTAWAY" /\ pallet_state' = [pallet_state EXCEPT ![held[s]] = "STORED"]
    BY <1>1, <1>2, TransitionEffect
  <1>4. /\ busy' = [busy EXCEPT !["putaway"] = busy["putaway"] - 1]
        /\ blocked' = [blocked EXCEPT !["putaway"] = blocked["putaway"]]
    BY <1>1 DEF refresh
  <1> QED BY <1>1, <1>2, <1>3, <1>4, AsksNextDoes

\* What the get event of a server does, W being the pallets let into the store.
Pulls(s, W) ==
    /\ AtMostOne(W, Pallets) /\ \A w \in W : pc[w] = "putting" /\ w # held[s]
    /\ pc[s] = "get" /\ held[s] \in Pallets /\ Fires(s, "get")
    /\ \A x \in Pallets : /\ pc'[x] = IF x \in W THEN "unblocked" ELSE pc[x]
                          /\ x \in W => ev'[x] = [at |-> now', no |-> counter + 1]
                          /\ x \notin W => ev'[x] = ev[x]
    /\ \A x \in Servers : /\ pc'[x] = IF x = s THEN "service" ELSE pc[x]
                          /\ x # s => ev'[x] = ev[x]
    /\ counter' = counter + 2
    /\ pallet_state[held[s]] = "STAGED"
    /\ pallet_state' = [pallet_state EXCEPT ![held[s]] = "AWAITING_PUTAWAY"]
    /\ W = {} => items' = items /\ puts' = puts /\ (puts # <<>> => ~(Len(items) < StagingCapacity))
    /\ \A w \in W : /\ Len(items) < StagingCapacity /\ Len(items') = Len(items) + 1 /\ puts # <<>>
                    /\ items' = Append(items, w)
    /\ busy' = [busy EXCEPT !["putaway"] = busy["putaway"] + 1]
    /\ blocked' = [blocked EXCEPT !["putaway"] = blocked["putaway"]]
    /\ UNCHANGED <<users, requests, gets, held, staged_log>>

\* A server starts putaway, and the place its pallet left goes to the first blocked put.
LEMMA StartPutawayDoes ==
    ASSUME TypeOK, HandoverInv, HandoverInv', NEW s \in Servers, StartPutaway(s)
    PROVE  \E W \in SUBSET Pallets : Pulls(s, W)
  <1> DEFINE W == PutOf(items, puts)
  <1>1. /\ items \in Seq(Pallets) /\ puts \in Seq(Pallets)
        /\ TriggerPut(items, puts) /\ transition(held[s], "AWAITING_PUTAWAY")
        /\ raised = FALSE /\ raised' = FALSE /\ pc[s] = "get" /\ Fires(s, "get")
        /\ refresh("putaway", busy["putaway"] + 1, blocked["putaway"], now')
        /\ UNCHANGED <<users, requests, gets, held, staged_log>>
    BY DEF StartPutaway, Fires, dock_vars, HandoverInv, NoIllegalTransition, TypeOK
  <1>2. PICK ticks \in ServiceTicks : Schedule(W, "unblocked", s, "service", now' + ticks)
    BY DEF StartPutaway
  <1>3. \/ W = {} /\ items' = items /\ puts' = puts /\ (puts # <<>> => ~(Len(items) < StagingCapacity))
        \/ \E w \in Pallets : /\ W = {w} /\ Len(items) < StagingCapacity /\ puts # <<>>
                              /\ items' = Append(items, w) /\ Len(items') = Len(items) + 1
    BY <1>1, PutLens
  <1>4. W \in SUBSET Pallets /\ AtMostOne(W, Pallets)
    <2> HIDE DEF W
    <2> QED BY <1>3 DEF AtMostOne
  <1>5. held[s] \in Pallets BY <1>1 DEF HandoverInv, HandedInv, Carrying
  <1>6. /\ pallet_state[held[s]] = "STAGED"
        /\ pallet_state' = [pallet_state EXCEPT ![held[s]] = "AWAITING_PUTAWAY"]
    BY <1>1, <1>5, TransitionEffect
  <1>7. \A w \in W : pc[w] = "putting" /\ w # held[s]
    <2>1. \A w \in W : pc[w] = "putting" BY <1>4, WokenWaits
    <2> HIDE DEF W
    <2> QED BY <1>4, <1>6, <2>1 DEF HandoverInv, PcInv
  <1>8. /\ busy' = [busy EXCEPT !["putaway"] = busy["putaway"] + 1]
        /\ blocked' = [blocked EXCEPT !["putaway"] = blocked["putaway"]]
    BY <1>1 DEF refresh
  <1> HIDE DEF W
  <1>9. /\ W = {} => items' = items /\ puts' = puts /\ (puts # <<>> => ~(Len(items) < StagingCapacity))
        /\ \A w \in W : /\ Len(items) < StagingCapacity /\ Len(items') = Len(items) + 1 /\ puts # <<>>
                        /\ items' = Append(items, w)
    BY <1>3
  <1>10. /\ \A x \in Pallets : /\ pc'[x] = IF x \in W THEN "unblocked" ELSE pc[x]
                               /\ x \in W => ev'[x] = [at |-> now', no |-> counter + 1]
                               /\ x \notin W => ev'[x] = ev[x]
         /\ \A x \in Servers : /\ pc'[x] = IF x = s THEN "service" ELSE pc[x]
                               /\ x # s => ev'[x] = ev[x]
         /\ counter' = counter + 2
    BY <1>2, <1>4, ProcsSplit, Disjoint DEF Schedule
  <1> QED BY <1>1, <1>4, <1>5, <1>6, <1>7, <1>8, <1>9, <1>10 DEF Pulls

\* A granted pallet is unloaded; a pallet that is not due yet waits.
LEMMA OwnMoveDoes ==
    ASSUME TypeOK, HandoverInv, HandoverInv', NEW p \in Pallets, StartUnload(p) \/ AwaitRelease(p)
    PROVE  /\ \A x \in Pallets : x # p => pc'[x] = pc[x] /\ ev'[x] = ev[x]
           /\ \A x \in Servers : pc'[x] = pc[x] /\ ev'[x] = ev[x]
           /\ UNCHANGED <<users, requests, items, puts, gets, held, staged_log>>
           /\ \/ /\ pc[p] = "request" /\ pc'[p] = "service"
                 /\ pallet_state[p] = "ON_TRUCK"
                 /\ pallet_state' = [pallet_state EXCEPT ![p] = "UNLOADING"]
                 /\ busy' = [busy EXCEPT !["receiving"] = busy["receiving"] + 1]
                 /\ blocked' = [blocked EXCEPT !["receiving"] = blocked["receiving"]]
              \/ /\ pc[p] = "init" /\ pc'[p] = "release" /\ UNCHANGED <<pallet_state, busy, blocked>>
  <1>1. CASE AwaitRelease(p)
    <2>1. /\ pc[p] = "init" /\ Schedule({}, "release", p, "release", now' + release[p])
          /\ UNCHANGED <<users, requests, items, puts, gets, held, staged_log, pallet_state, busy, blocked>>
      BY <1>1 DEF AwaitRelease, Fires, dock_vars, store_vars, ledger_vars, trace_vars
    <2>2. \A x \in Procs : /\ pc'[x] = IF x = p THEN "release" ELSE pc[x]
                           /\ x # p => ev'[x] = ev[x]
      BY <2>1 DEF Schedule
    <2> QED BY <2>1, <2>2, ProcsSplit, Disjoint
  <1>2. CASE StartUnload(p)
    <2>1. /\ pc[p] = "request" /\ transition(p, "UNLOADING") /\ raised = FALSE /\ raised' = FALSE
          /\ refresh("receiving", busy["receiving"] + 1, blocked["receiving"], now')
          /\ UNCHANGED <<users, requests, items, puts, gets, held, staged_log>>
      BY <1>2 DEF StartUnload, Fires, dock_vars, store_vars, ledger_vars, HandoverInv,
                  NoIllegalTransition, TypeOK
    <2>2. PICK ticks \in ServiceTicks : Schedule({}, "service", p, "service", now' + ticks)
      BY <1>2 DEF StartUnload
    <2>3. \A x \in Procs : /\ pc'[x] = IF x = p THEN "service" ELSE pc[x]
                           /\ x # p => ev'[x] = ev[x]
      BY <2>2 DEF Schedule
    <2>4. pallet_state[p] = "ON_TRUCK" /\ pallet_state' = [pallet_state EXCEPT ![p] = "UNLOADING"]
      BY <2>1, TransitionEffect
    <2>5. /\ busy' = [busy EXCEPT !["receiving"] = busy["receiving"] + 1]
          /\ blocked' = [blocked EXCEPT !["receiving"] = blocked["receiving"]]
      BY <2>1 DEF refresh
    <2> QED BY <2>1, <2>3, <2>4, <2>5, ProcsSplit, Disjoint
  <1> QED BY <1>1, <1>2
-----------------------------------------------------------------------------
(* The dock.                                                               *)

\* The servers of the dock are held by the pallets that are between their grant
\* and their release, and there are never more than it has.
LEMMA DockStep ==
    ASSUME TypeOK, HandoverInv, HandoverInv', DockInv, [Next]_vars
    PROVE  DockInv'
  <1>1. /\ IsFiniteSet(users) /\ Cardinality(users) \in Nat /\ ReceivingCapacity \in Nat
        /\ users \subseteq Pallets /\ pallet_state \in [Pallets -> PalletState]
    BY FiniteProcs, SpecAssumption DEF TypeOK
  <1> USE DEF Holding
  <1>2. CASE UNCHANGED vars
    BY <1>2 DEF vars, queue_vars, dock_vars, DockInv
  <1>3. CASE Finish BY <1>3 DEF Finish, dock_vars, DockInv
  <1>4. ASSUME NEW p \in Pallets, Arrive(p) PROVE DockInv'
    <2>0. PICK W \in SUBSET Pallets : Arrives(p, W) BY <1>4, ArriveDoes
    <2>1. /\ AtMostOne(W, Pallets) /\ \A w \in W : w = p \/ pc[w] = "requesting"
          /\ pc[p] \in {"init", "release"}
          /\ \A x \in Pallets : pc'[x] = IF x \in W THEN "request"
                                         ELSE IF x = p THEN "requesting" ELSE pc[x]
          /\ pallet_state' = [pallet_state EXCEPT ![p] = "ON_TRUCK"]
          /\ users' = users \cup W
          /\ W # {} => Cardinality(users) < ReceivingCapacity
      BY <2>0 DEF Arrives
    <2>2. users' = {x \in Pallets : pc'[x] \in Holding} BY <2>1 DEF DockInv
    <2>3. \A x \in Pallets : pallet_state'[x] = "UNLOADING" => pc'[x] \in Holding \ {"request"}
      BY <1>1, <2>1 DEF DockInv
    <2>4. Cardinality(users') <= ReceivingCapacity
      <3>1. CASE W = {} BY <2>1, <3>1 DEF DockInv
      <3>2. ASSUME NEW w \in Pallets, W = {w} PROVE Cardinality(users') <= ReceivingCapacity
        <4>1. w \notin users BY <2>1, <3>2 DEF DockInv
        <4> QED BY <1>1, <2>1, <3>2, <4>1, CountOne
      <3> QED BY <2>1, <3>1, <3>2 DEF AtMostOne
    <2> QED BY <2>2, <2>3, <2>4 DEF DockInv
  <1>5. ASSUME NEW p \in Pallets, Freed(p) PROVE DockInv'
    <2>0. PICK W \in SUBSET Pallets : Frees(p, W) BY <1>5, FreedDoes
    <2>1. /\ AtMostOne(W, Pallets) /\ \A w \in W : w # p /\ pc[w] = "requesting"
          /\ pc[p] = "freed"
          /\ \A x \in Pallets : pc'[x] = IF x \in W THEN "request"
                                         ELSE IF x = p THEN "ended" ELSE pc[x]
          /\ users' = users \cup W
          /\ W # {} => Cardinality(users) < ReceivingCapacity
          /\ UNCHANGED pallet_state
      BY <2>0 DEF Frees
    <2>2. users' = {x \in Pallets : pc'[x] \in Holding} BY <2>1 DEF DockInv
    <2>3. \A x \in Pallets : pallet_state'[x] = "UNLOADING" => pc'[x] \in Holding \ {"request"}
      BY <1>1, <2>1 DEF DockInv
    <2>4. Cardinality(users') <= ReceivingCapacity
      <3>1. CASE W = {} BY <2>1, <3>1 DEF DockInv
      <3>2. ASSUME NEW w \in Pallets, W = {w} PROVE Cardinality(users') <= ReceivingCapacity
        <4>1. w \notin users BY <2>1, <3>2 DEF DockInv
        <4> QED BY <1>1, <2>1, <3>2, <4>1, CountOne
      <3> QED BY <2>1, <3>1, <3>2 DEF AtMostOne
    <2> QED BY <2>2, <2>3, <2>4 DEF DockInv
  <1>6. ASSUME NEW p \in Pallets, Stage(p) PROVE DockInv'
    <2>1. /\ pc[p] \in PutPending /\ users' = users \ {p}
          /\ \A x \in Pallets : pc'[x] = IF x = p THEN "freed" ELSE pc[x]
          /\ pallet_state' = [pallet_state EXCEPT ![p] = "STAGED"]
      BY <1>6, StageDoes DEF Stages
    <2>2. users' = {x \in Pallets : pc'[x] \in Holding} BY <2>1 DEF DockInv
    <2>3. \A x \in Pallets : pallet_state'[x] = "UNLOADING" => pc'[x] \in Holding \ {"request"}
      BY <1>1, <2>1 DEF DockInv
    <2>4. Cardinality(users') <= ReceivingCapacity
      <3>1. p \in users BY <2>1 DEF DockInv, PutPending
      <3>2. Cardinality(users) <= ReceivingCapacity BY DEF DockInv
      <3> QED BY <1>1, <2>1, <3>1, <3>2, CountOne
    <2> QED BY <2>2, <2>3, <2>4 DEF DockInv
  <1>7. ASSUME NEW p \in Pallets, FinishUnload(p) PROVE DockInv'
    <2>0. PICK W \in SUBSET Pallets : Offers(p, W) BY <1>7, FinishUnloadDoes
    <2>1. /\ \A w \in W : w = p \/ pc[w] = "putting"
          /\ pc[p] = "service"
          /\ \A x \in Pallets : pc'[x] = IF x \in W THEN IF p \in W THEN "put" ELSE "unblocked"
                                         ELSE IF x = p THEN "putting" ELSE pc[x]
          /\ UNCHANGED <<users, pallet_state>>
      BY <2>0 DEF Offers
    <2> QED BY <2>1 DEF DockInv
  <1>8. ASSUME NEW p \in Pallets, StartUnload(p) \/ AwaitRelease(p) PROVE DockInv'
    BY <1>1, <1>8, OwnMoveDoes, ZenonT(60) DEF DockInv
  <1>9. ASSUME NEW s \in Servers, StartServer(s) PROVE DockInv'
    BY <1>9, StartServerDoes DEF AsksNext, DockInv
  <1>10. ASSUME NEW s \in Servers, FinishPutaway(s) PROVE DockInv'
    <2>1. /\ UNCHANGED users /\ \A x \in Pallets : pc'[x] = pc[x]
          /\ held[s] \in Pallets /\ pallet_state' = [pallet_state EXCEPT ![held[s]] = "STORED"]
      BY <1>10, FinishPutawayDoes DEF AsksNext
    <2> QED BY <1>1, <2>1 DEF DockInv
  <1>11. ASSUME NEW s \in Servers, StartPutaway(s) PROVE DockInv'
    <2>0. PICK W \in SUBSET Pallets : Pulls(s, W) BY <1>11, StartPutawayDoes
    <2>1. /\ \A w \in W : pc[w] = "putting"
          /\ \A x \in Pallets : pc'[x] = IF x \in W THEN "unblocked" ELSE pc[x]
          /\ held[s] \in Pallets
          /\ pallet_state' = [pallet_state EXCEPT ![held[s]] = "AWAITING_PUTAWAY"]
          /\ UNCHANGED users
      BY <2>0 DEF Pulls
    <2> QED BY <1>1, <2>1 DEF DockInv
  <1>12. ASSUME NEW p \in Pallets, PalletStep(p) PROVE DockInv'
    BY <1>4, <1>5, <1>6, <1>7, <1>8, <1>12 DEF PalletStep
  <1>13. ASSUME NEW s \in Servers, ServerStep(s) PROVE DockInv'
    BY <1>9, <1>10, <1>11, <1>13 DEF ServerStep
  <1> QED BY <1>2, <1>3, <1>12, <1>13 DEF Next
-----------------------------------------------------------------------------
(* The wake-ups.                                                           *)

\* A get that was triggered and a server that was released are processed in the
\* tick they happened in.
LEMMA DueStep ==
    ASSUME TypeOK, HorizonInv, HandoverInv, HandoverInv', DueInv, [Next]_vars
    PROVE  DueInv'
  <1>1. CASE UNCHANGED vars
    BY <1>1 DEF vars, queue_vars, DueInv, GetsDue, FreesDue
  <1>2. CASE Next
    <2>1. now \in Nat /\ now' \in Nat /\ now <= now' BY <1>2, StepKinds
    <2>2. \A a \in Procs : ev[a].at \in Nat BY DEF TypeOK
    <2>3. \A a \in GetsDue \cup FreesDue : a \in Procs /\ ev[a].at <= now
      BY ProcsSplit DEF DueInv, GetsDue, FreesDue
    <2>4. SUFFICES ASSUME NEW a \in GetsDue' \cup FreesDue'
                   PROVE  \/ a \in GetsDue \cup FreesDue /\ ev'[a] = ev[a]
                          \/ ev'[a].at = now'
      BY <2>1, <2>2, <2>3 DEF DueInv
    <2>5. \/ a \in Servers /\ pc'[a] = "get"
          \/ a \in Pallets /\ pc'[a] = "freed"
      BY DEF GetsDue, FreesDue
    <2> DEFINE Same == pc'[a] = pc[a] /\ ev'[a] = ev[a]
    <2>6. Same => a \in GetsDue \cup FreesDue BY <2>5 DEF GetsDue, FreesDue
    <2>7. SUFFICES Same \/ ev'[a].at = now' BY <2>6
    <2>8. CASE Finish BY <2>8 DEF Finish
    <2>9. ASSUME NEW p \in Pallets, Arrive(p) PROVE Same
      BY <2>5, <2>9, ArriveDoes DEF Arrives
    <2>10. ASSUME NEW p \in Pallets, Freed(p) PROVE Same
      BY <2>5, <2>10, FreedDoes DEF Frees
    <2>11. ASSUME NEW p \in Pallets, StartUnload(p) \/ AwaitRelease(p) PROVE Same
      BY <2>5, <2>11, OwnMoveDoes
    <2>12. ASSUME NEW p \in Pallets, FinishUnload(p) PROVE Same
      BY <2>5, <2>12, FinishUnloadDoes DEF Offers
    <2>13. ASSUME NEW p \in Pallets, Stage(p) PROVE Same \/ ev'[a].at = now'
      BY <2>5, <2>13, StageDoes DEF Stages
    <2>14. ASSUME NEW s \in Servers, NEW W \in SUBSET Servers, AsksNext(s, W)
           PROVE  Same \/ ev'[a].at = now'
      BY <2>5, <2>14 DEF AsksNext
    <2>15. ASSUME NEW s \in Servers, StartPutaway(s) PROVE Same
      BY <2>5, <2>15, StartPutawayDoes DEF Pulls
    <2> HIDE DEF Same
    <2>16. ASSUME NEW p \in Pallets, PalletStep(p) PROVE Same \/ ev'[a].at = now'
      BY <2>9, <2>10, <2>11, <2>12, <2>13, <2>16 DEF PalletStep
    <2>17. ASSUME NEW s \in Servers, ServerStep(s) PROVE Same \/ ev'[a].at = now'
      BY <2>14, <2>15, <2>17, StartServerDoes, FinishPutawayDoes DEF ServerStep
    <2> QED BY <1>2, <2>8, <2>16, <2>17 DEF Next
  <1> QED BY <1>1, <1>2

\* Each trigger leaves no more for its waiters than the triggers still due.
LEMMA WakeStep ==
    ASSUME TypeOK, HandoverInv, HandoverInv', DockInv, WakeInv, [Next]_vars
    PROVE  WakeInv'
  <1> DEFINE P == Cardinality(PutsDue)
             G == Cardinality(GetsDue)
             F == Cardinality(FreesDue)
             U == Cardinality(users)
             L == Len(items)
             RC == ReceivingCapacity
             SC == StagingCapacity
  <1>1. /\ PutsDue \subseteq Pallets /\ FreesDue \subseteq Pallets /\ GetsDue \subseteq Servers
        /\ users \subseteq Pallets
    BY DEF PutsDue, FreesDue, GetsDue, TypeOK
  <1>2. /\ IsFiniteSet(PutsDue) /\ IsFiniteSet(FreesDue) /\ IsFiniteSet(GetsDue) /\ IsFiniteSet(users)
        /\ P \in Nat /\ G \in Nat /\ F \in Nat /\ U \in Nat
    BY <1>1, FiniteProcs
  <1>3. L \in Nat /\ RC \in Nat /\ SC \in Nat BY SpecAssumption DEF TypeOK
  <1>4. /\ L <= SC
        /\ gets # <<>> => L <= P
        /\ puts # <<>> => SC - L <= G
        /\ requests # <<>> => RC - U <= F
    BY DEF WakeInv
  <1>5. ASSUME Len(items') <= SC,
               gets' # <<>> => Len(items') <= Cardinality(PutsDue'),
               puts' # <<>> => SC - Len(items') <= Cardinality(GetsDue'),
               requests' # <<>> => RC - Cardinality(users') <= Cardinality(FreesDue')
        PROVE  WakeInv'
    BY <1>5 DEF WakeInv
  <1>6. CASE UNCHANGED <<pc, users, requests, items, puts, gets>>
    BY <1>6 DEF WakeInv, PutsDue, GetsDue, FreesDue
  <1> HIDE DEF P, G, F, U, L, RC, SC
  <1>7. ASSUME NEW p \in Pallets, Arrive(p) PROVE WakeInv'
    <2>0. PICK W \in SUBSET Pallets : Arrives(p, W) BY <1>7, ArriveDoes
    <2>1. /\ AtMostOne(W, Pallets) /\ \A w \in W : w = p \/ pc[w] = "requesting"
          /\ pc[p] \in {"init", "release"}
          /\ \A x \in Pallets : pc'[x] = IF x \in W THEN "request"
                                         ELSE IF x = p THEN "requesting" ELSE pc[x]
          /\ \A x \in Servers : pc'[x] = pc[x]
          /\ users' = users \cup W
          /\ W = {} => ~(Cardinality(users) < ReceivingCapacity)
          /\ W # {} => Cardinality(users) < ReceivingCapacity /\ (requests' # <<>> => requests # <<>>)
          /\ UNCHANGED <<items, puts, gets>>
      BY <2>0 DEF Arrives
    <2>2. PutsDue' = PutsDue /\ FreesDue' = FreesDue /\ GetsDue' = GetsDue
      BY <2>1 DEF PutsDue, FreesDue, GetsDue, PutPending
    <2>3. requests' # <<>> => RC - Cardinality(users') <= F
      <3>1. CASE W = {}
        <4>1. users' = users /\ ~(U < RC) BY <2>1, <3>1 DEF U, RC
        <4> QED BY <1>2, <1>3, <4>1 DEF U
      <3>2. ASSUME NEW w \in Pallets, W = {w} PROVE <2>3
        <4>1. w \notin users BY <2>1, <3>2 DEF DockInv, Holding
        <4>2. Cardinality(users') = U + 1 BY <1>2, <2>1, <3>2, <4>1, CountOne DEF U
        <4>3. requests' # <<>> => requests # <<>> BY <2>1, <3>2
        <4> QED BY <1>2, <1>3, <1>4, <4>2, <4>3
      <3> QED BY <2>1, <3>1, <3>2 DEF AtMostOne
    <2> QED BY <1>4, <1>5, <2>1, <2>2, <2>3 DEF P, G, F, L
  <1>8. ASSUME NEW p \in Pallets, Freed(p) PROVE WakeInv'
    <2>0. PICK W \in SUBSET Pallets : Frees(p, W) BY <1>8, FreedDoes
    <2>1. /\ AtMostOne(W, Pallets) /\ \A w \in W : w # p /\ pc[w] = "requesting"
          /\ pc[p] = "freed"
          /\ \A x \in Pallets : pc'[x] = IF x \in W THEN "request"
                                         ELSE IF x = p THEN "ended" ELSE pc[x]
          /\ \A x \in Servers : pc'[x] = pc[x]
          /\ users' = users \cup W
          /\ W = {} => requests' = <<>> \/ ~(Cardinality(users) < ReceivingCapacity)
          /\ W # {} => Cardinality(users) < ReceivingCapacity /\ requests # <<>>
          /\ UNCHANGED <<items, puts, gets>>
      BY <2>0 DEF Frees
    <2>2. /\ PutsDue' = PutsDue /\ FreesDue' = FreesDue \ {p} /\ p \in FreesDue /\ GetsDue' = GetsDue
      BY <2>1 DEF PutsDue, FreesDue, GetsDue, PutPending
    <2>3. Cardinality(FreesDue') = F - 1 BY <1>2, <2>2, CountOne DEF F
    <2>4. requests' # <<>> => RC - Cardinality(users') <= Cardinality(FreesDue')
      <3>1. CASE W = {}
        <4>1. users' = users /\ (requests' = <<>> \/ ~(U < RC)) BY <2>1, <3>1 DEF U, RC
        <4>2. Cardinality(FreesDue') \in Nat BY FiniteProcs, <1>1, <2>2
        <4> QED BY <1>2, <1>3, <4>1, <4>2 DEF U
      <3>2. ASSUME NEW w \in Pallets, W = {w} PROVE <2>4
        <4>1. w \notin users BY <2>1, <3>2 DEF DockInv, Holding
        <4>2. Cardinality(users') = U + 1 BY <1>2, <2>1, <3>2, <4>1, CountOne DEF U
        <4>3. requests # <<>> BY <2>1, <3>2
        <4> QED BY <1>2, <1>3, <1>4, <2>3, <4>2, <4>3
      <3> QED BY <2>1, <3>1, <3>2 DEF AtMostOne
    <2> QED BY <1>4, <1>5, <2>1, <2>2, <2>4 DEF P, G, L
  <1>9. ASSUME NEW p \in Pallets, StartUnload(p) \/ AwaitRelease(p) PROVE WakeInv'
    <2>1. /\ \A x \in Pallets : x # p => pc'[x] = pc[x]
          /\ \A x \in Servers : pc'[x] = pc[x]
          /\ UNCHANGED <<users, requests, items, puts, gets>>
          /\ pc[p] \in {"request", "init"} /\ pc'[p] \in {"service", "release"}
      BY <1>9, OwnMoveDoes
    <2>2. PutsDue' = PutsDue /\ FreesDue' = FreesDue /\ GetsDue' = GetsDue
      BY <2>1 DEF PutsDue, FreesDue, GetsDue, PutPending
    <2> QED BY <1>4, <1>5, <2>1, <2>2 DEF P, G, F, L, U
  <1>10. ASSUME NEW p \in Pallets, FinishUnload(p) PROVE WakeInv'
    <2>0. PICK W \in SUBSET Pallets : Offers(p, W) BY <1>10, FinishUnloadDoes
    <2>1. /\ AtMostOne(W, Pallets) /\ \A w \in W : w = p \/ pc[w] = "putting"
          /\ pc[p] = "service"
          /\ \A x \in Pallets : pc'[x] = IF x \in W THEN IF p \in W THEN "put" ELSE "unblocked"
                                         ELSE IF x = p THEN "putting" ELSE pc[x]
          /\ \A x \in Servers : pc'[x] = pc[x]
          /\ W = {} => items' = items /\ ~(Len(items) < StagingCapacity)
          /\ W # {} => /\ Len(items) < StagingCapacity /\ Len(items') = Len(items) + 1
                       /\ puts' # <<>> => puts # <<>>
          /\ UNCHANGED <<users, requests, gets>>
      BY <2>0 DEF Offers
    <2>2. PutsDue' = PutsDue \cup W /\ FreesDue' = FreesDue /\ GetsDue' = GetsDue
      BY <2>1 DEF PutsDue, FreesDue, GetsDue, PutPending
    <2>3. CASE W = {}
      <3>1. items' = items /\ ~(L < SC) /\ PutsDue' = PutsDue BY <2>1, <2>2, <2>3 DEF L, SC
      <3>2. SC - L <= G BY <1>2, <1>3, <3>1
      <3> QED BY <1>4, <1>5, <2>1, <2>2, <3>1, <3>2 DEF P, G, F, L, U
    <2>4. ASSUME NEW w \in Pallets, W = {w} PROVE WakeInv'
      <3>1. w \notin PutsDue BY <2>1, <2>4 DEF PutsDue, PutPending
      <3>2. Cardinality(PutsDue') = P + 1 BY <1>2, <2>2, <2>4, <3>1, CountOne DEF P
      <3>3. L < SC /\ Len(items') = L + 1 /\ (puts' # <<>> => puts # <<>>)
        BY <2>1, <2>4 DEF L, SC
      <3>4. /\ Len(items') <= SC /\ (gets' # <<>> => Len(items') <= Cardinality(PutsDue'))
            /\ puts' # <<>> => SC - Len(items') <= G
        BY <1>2, <1>3, <1>4, <2>1, <3>2, <3>3
      <3> QED BY <1>4, <1>5, <2>1, <2>2, <3>4 DEF G, F, U
    <2> QED BY <2>1, <2>3, <2>4 DEF AtMostOne
  <1>11. ASSUME NEW p \in Pallets, Stage(p) PROVE WakeInv'
    <2>0. PICK W \in SUBSET Servers : Stages(p, W) BY <1>11, StageDoes
    <2>1. /\ AtMostOne(W, Servers) /\ \A w \in W : pc[w] = "getting"
          /\ pc[p] \in PutPending
          /\ \A x \in Servers : pc'[x] = IF x \in W THEN "get" ELSE pc[x]
          /\ \A x \in Pallets : pc'[x] = IF x = p THEN "freed" ELSE pc[x]
          /\ users' = users \ {p}
          /\ W = {} => items' = items /\ gets' = gets /\ (gets = <<>> \/ items = <<>>)
          /\ \A w \in W : gets # <<>> /\ items # <<>> /\ Len(items') = Len(items) - 1
          /\ UNCHANGED <<requests, puts>>
      BY <2>0 DEF Stages
    <2>2. /\ PutsDue' = PutsDue \ {p} /\ p \in PutsDue
          /\ FreesDue' = FreesDue \cup {p} /\ p \notin FreesDue /\ GetsDue' = GetsDue \cup W
      BY <2>1 DEF PutsDue, FreesDue, GetsDue, PutPending
    <2>3. p \in users BY <2>1 DEF DockInv, Holding, PutPending
    <2>4. /\ Cardinality(PutsDue') = P - 1 /\ Cardinality(FreesDue') = F + 1
          /\ Cardinality(users') = U - 1
      <3>1. Cardinality(PutsDue') = P - 1 BY <1>2, <2>2, CountOne DEF P
      <3>2. Cardinality(FreesDue') = F + 1 BY <1>2, <2>2, CountOne DEF F
      <3>3. Cardinality(users') = U - 1 BY <1>2, <2>1, <2>3, CountOne DEF U
      <3> QED BY <3>1, <3>2, <3>3
    <2>5. requests' # <<>> => RC - Cardinality(users') <= Cardinality(FreesDue')
      BY <1>2, <1>3, <1>4, <2>1, <2>4
    <2>6. CASE W = {}
      <3>1. /\ items' = items /\ gets' = gets /\ (gets = <<>> \/ L = 0) /\ GetsDue' = GetsDue
        BY <2>1, <2>2, <2>6 DEF L
      <3>2. gets' # <<>> => L <= Cardinality(PutsDue')
        <4>1. Cardinality(PutsDue') \in Nat BY <1>1, <2>2, FiniteProcs
        <4> QED BY <1>3, <3>1, <4>1
      <3> QED BY <1>4, <1>5, <2>1, <2>5, <3>1, <3>2 DEF G, L
    <2>7. ASSUME NEW w \in Servers, W = {w} PROVE WakeInv'
      <3>1. w \notin GetsDue BY <2>1, <2>7 DEF GetsDue
      <3>2. Cardinality(GetsDue') = G + 1 BY <1>2, <2>2, <2>7, <3>1, CountOne DEF G
      <3>3. gets # <<>> /\ Len(items') = L - 1 BY <2>1, <2>7 DEF L
      <3>4. /\ Len(items') <= SC /\ Len(items') <= Cardinality(PutsDue')
            /\ puts' # <<>> => SC - Len(items') <= Cardinality(GetsDue')
        BY <1>2, <1>3, <1>4, <2>1, <2>4, <3>2, <3>3
      <3> QED BY <1>5, <2>5, <3>4
    <2> QED BY <2>1, <2>6, <2>7 DEF AtMostOne
  <1>12. ASSUME NEW s \in Servers, NEW W \in SUBSET Servers, AsksNext(s, W), pc[s] \in {"init", "service"}
         PROVE  WakeInv'
    <2>1. /\ AtMostOne(W, Servers) /\ \A w \in W : w = s \/ pc[w] = "getting"
          /\ \A x \in Servers : pc'[x] = IF x \in W THEN "get" ELSE IF x = s THEN "getting" ELSE pc[x]
          /\ \A x \in Pallets : pc'[x] = pc[x]
          /\ W = {} => items' = items /\ items = <<>>
          /\ \A w \in W : Len(items') = Len(items) - 1 /\ (gets' # <<>> => gets # <<>>)
          /\ UNCHANGED <<users, requests, puts>>
      BY <1>12 DEF AsksNext
    <2>2. PutsDue' = PutsDue /\ FreesDue' = FreesDue /\ GetsDue' = GetsDue \cup W
      BY <1>12, <2>1 DEF PutsDue, FreesDue, GetsDue
    <2>3. CASE W = {}
      <3>1. items' = items /\ L = 0 /\ GetsDue' = GetsDue BY <2>1, <2>2, <2>3 DEF L
      <3>2. L <= P BY <1>2, <3>1
      <3> QED BY <1>4, <1>5, <2>1, <2>2, <3>1, <3>2 DEF P, G, F, L, U
    <2>4. ASSUME NEW w \in Servers, W = {w} PROVE WakeInv'
      <3>1. w \notin GetsDue BY <1>12, <2>1, <2>4 DEF GetsDue
      <3>2. Cardinality(GetsDue') = G + 1 BY <1>2, <2>2, <2>4, <3>1, CountOne DEF G
      <3>3. Len(items') = L - 1 /\ (gets' # <<>> => gets # <<>>) BY <2>1, <2>4 DEF L
      <3>4. /\ Len(items') <= SC /\ (gets' # <<>> => Len(items') <= P)
            /\ puts' # <<>> => SC - Len(items') <= Cardinality(GetsDue')
        BY <1>2, <1>3, <1>4, <2>1, <3>2, <3>3
      <3> QED BY <1>4, <1>5, <2>1, <2>2, <3>4 DEF P, F, U
    <2> QED BY <2>1, <2>3, <2>4 DEF AtMostOne
  <1>13. ASSUME NEW s \in Servers, StartPutaway(s) PROVE WakeInv'
    <2>0. PICK W \in SUBSET Pallets : Pulls(s, W) BY <1>13, StartPutawayDoes
    <2>1. /\ AtMostOne(W, Pallets) /\ \A w \in W : pc[w] = "putting"
          /\ pc[s] = "get"
          /\ \A x \in Pallets : pc'[x] = IF x \in W THEN "unblocked" ELSE pc[x]
          /\ \A x \in Servers : pc'[x] = IF x = s THEN "service" ELSE pc[x]
          /\ W = {} => items' = items /\ puts' = puts /\ (puts # <<>> => ~(Len(items) < StagingCapacity))
          /\ \A w \in W : Len(items) < StagingCapacity /\ Len(items') = Len(items) + 1 /\ puts # <<>>
          /\ UNCHANGED <<users, requests, gets>>
      BY <2>0 DEF Pulls
    <2>2. /\ PutsDue' = PutsDue \cup W /\ FreesDue' = FreesDue
          /\ GetsDue' = GetsDue \ {s} /\ s \in GetsDue
      BY <2>1 DEF PutsDue, FreesDue, GetsDue, PutPending
    <2>3. Cardinality(GetsDue') = G - 1 /\ Cardinality(GetsDue') \in Nat
      BY <1>1, <1>2, <2>2, CountOne, FiniteProcs DEF G
    <2>4. CASE W = {}
      <3>1. items' = items /\ puts' = puts /\ (puts # <<>> => ~(L < SC)) /\ PutsDue' = PutsDue
        BY <2>1, <2>2, <2>4 DEF L, SC
      <3>2. puts' # <<>> => SC - L <= Cardinality(GetsDue') BY <1>3, <2>3, <3>1
      <3> QED BY <1>4, <1>5, <2>1, <2>2, <3>1, <3>2 DEF P, F, L, U
    <2>5. ASSUME NEW w \in Pallets, W = {w} PROVE WakeInv'
      <3>1. w \notin PutsDue BY <2>1, <2>5 DEF PutsDue, PutPending
      <3>2. Cardinality(PutsDue') = P + 1 BY <1>2, <2>2, <2>5, <3>1, CountOne DEF P
      <3>3. L < SC /\ Len(items') = L + 1 /\ puts # <<>> BY <2>1, <2>5 DEF L, SC
      <3>4. /\ Len(items') <= SC /\ (gets' # <<>> => Len(items') <= Cardinality(PutsDue'))
            /\ SC - Len(items') <= Cardinality(GetsDue')
        BY <1>2, <1>3, <1>4, <2>1, <2>3, <3>2, <3>3
      <3> QED BY <1>4, <1>5, <2>1, <2>2, <3>4 DEF F, U
    <2> QED BY <2>1, <2>4, <2>5 DEF AtMostOne
  <1>14. ASSUME NEW p \in Pallets, PalletStep(p) PROVE WakeInv'
    BY <1>7, <1>8, <1>9, <1>10, <1>11, <1>14 DEF PalletStep
  <1>15. ASSUME NEW s \in Servers, ServerStep(s) PROVE WakeInv'
    BY <1>12, <1>13, <1>15, StartServerDoes, FinishPutawayDoes DEF ServerStep
  <1>16. UNCHANGED vars \/ Finish => UNCHANGED <<pc, users, requests, items, puts, gets>>
    BY DEF Finish, vars, queue_vars, dock_vars, store_vars
  <1> QED BY <1>6, <1>14, <1>15, <1>16 DEF Next
-----------------------------------------------------------------------------
(* The counters.                                                           *)

\* Every step that changes a server count changes the pallets it counts.
LEMMA CountStep ==
    ASSUME TypeOK, HandoverInv, HandoverInv', CountInv, [Next]_vars
    PROVE  CountInv'
  <1> DEFINE Waiting   == {p \in Pallets : pc[p] \in {"putting", "unblocked"}}
             Unloading == {p \in Pallets : pc[p] = "service"}
             Storing   == {p \in Pallets : pallet_state[p] = "AWAITING_PUTAWAY"}
             b == blocked["receiving"]
             u == busy["receiving"]
             s == busy["putaway"]
  <1>1. /\ IsFiniteSet(Waiting) /\ IsFiniteSet(Unloading) /\ IsFiniteSet(Storing)
        /\ Cardinality(Waiting) \in Nat /\ Cardinality(Unloading) \in Nat /\ Cardinality(Storing) \in Nat
    BY FiniteProcs
  <1>2. b = Cardinality(Waiting) /\ u = Cardinality(Unloading) /\ s = Cardinality(Storing)
    BY DEF CountInv
  <1>3. /\ "receiving" \in Stations /\ "putaway" \in Stations
        /\ busy \in [Stations -> Int] /\ blocked \in [Stations -> Int]
        /\ pallet_state \in [Pallets -> PalletState]
    BY DEF Stations, TypeOK
  <1>4. ASSUME b' = Cardinality(Waiting'), u' = Cardinality(Unloading'), s' = Cardinality(Storing')
        PROVE  CountInv'
    BY <1>4 DEF CountInv
  <1>5. CASE UNCHANGED <<pc, pallet_state, busy, blocked>>
    BY <1>5 DEF CountInv
  <1>6. ASSUME NEW p \in Pallets, NEW W \in SUBSET Pallets, Arrives(p, W) PROVE CountInv'
    <2>1. Waiting' = Waiting /\ Unloading' = Unloading BY <1>6 DEF Arrives
    <2>2. Storing' = Storing BY <1>3, <1>6 DEF Arrives
    <2>3. UNCHANGED <<b, u, s>> BY <1>6 DEF Arrives
    <2> HIDE DEF Waiting, Unloading, Storing, b, u, s
    <2> QED BY <1>2, <1>4, <2>1, <2>2, <2>3
  <1>7. ASSUME NEW p \in Pallets, NEW W \in SUBSET Pallets, Frees(p, W) PROVE CountInv'
    <2>1. Waiting' = Waiting /\ Unloading' = Unloading BY <1>7 DEF Frees
    <2>2. Storing' = Storing BY <1>7 DEF Frees
    <2>3. UNCHANGED <<b, u, s>> BY <1>7 DEF Frees
    <2> HIDE DEF Waiting, Unloading, Storing, b, u, s
    <2> QED BY <1>2, <1>4, <2>1, <2>2, <2>3
  <1>8. ASSUME NEW p \in Pallets, StartUnload(p) \/ AwaitRelease(p) PROVE CountInv'
    <2>1. /\ \A x \in Pallets : x # p => pc'[x] = pc[x]
          /\ \/ /\ pc[p] = "request" /\ pc'[p] = "service"
                /\ pallet_state[p] = "ON_TRUCK"
                /\ pallet_state' = [pallet_state EXCEPT ![p] = "UNLOADING"]
                /\ busy' = [busy EXCEPT !["receiving"] = busy["receiving"] + 1]
                /\ blocked' = [blocked EXCEPT !["receiving"] = blocked["receiving"]]
             \/ /\ pc[p] = "init" /\ pc'[p] = "release" /\ UNCHANGED <<pallet_state, busy, blocked>>
      BY <1>8, OwnMoveDoes
    <2>2. Waiting' = Waiting /\ Storing' = Storing BY <1>3, <2>1
    <2>3. CASE pc[p] = "init"
      <3>1. Unloading' = Unloading /\ UNCHANGED <<b, u, s>> BY <2>1, <2>3
      <3> HIDE DEF Waiting, Unloading, Storing, b, u, s
      <3> QED BY <1>2, <1>4, <2>2, <3>1
    <2>4. CASE pc[p] = "request"
      <3>1. Unloading' = Unloading \cup {p} /\ p \notin Unloading BY <2>1, <2>4
      <3>2. b' = b /\ u' = u + 1 /\ s' = s BY <1>3, <2>1, <2>4
      <3> HIDE DEF Waiting, Unloading, Storing, b, u, s
      <3>3. Cardinality(Unloading') = Cardinality(Unloading) + 1 BY <1>1, <3>1, CountOne
      <3> QED BY <1>2, <1>4, <2>2, <3>2, <3>3
    <2> QED BY <2>1, <2>3, <2>4
  <1>9. ASSUME NEW p \in Pallets, NEW W \in SUBSET Pallets, Offers(p, W) PROVE CountInv'
    <2>1. /\ AtMostOne(W, Pallets) /\ \A w \in W : w = p \/ pc[w] = "putting"
          /\ pc[p] = "service" /\ UNCHANGED pallet_state
          /\ \A x \in Pallets : pc'[x] = IF x \in W THEN IF p \in W THEN "put" ELSE "unblocked"
                                         ELSE IF x = p THEN "putting" ELSE pc[x]
          /\ u' = u - 1 /\ s' = s /\ b' = b + IF p \in W THEN 0 ELSE 1
      BY <1>9 DEF Offers
    <2>2. Storing' = Storing BY <2>1
    <2>3. Unloading' = Unloading \ {p} /\ p \in Unloading BY <2>1
    <2>4. Cardinality(Unloading') = Cardinality(Unloading) - 1
      <3> HIDE DEF Unloading
      <3> QED BY <1>1, <2>3, CountOne
    <2>5. CASE p \in W
      <3>1. W = {p} BY <2>1, <2>5 DEF AtMostOne
      <3>2. Waiting' = Waiting BY <2>1, <3>1
      <3>3. b' = b BY <1>3, <2>1, <2>5
      <3> HIDE DEF Waiting, Unloading, Storing, b, u, s
      <3> QED BY <1>2, <1>4, <2>1, <2>2, <2>4, <3>2, <3>3
    <2>6. CASE p \notin W
      <3>1. Waiting' = Waiting \cup {p} /\ p \notin Waiting BY <2>1, <2>6
      <3>2. b' = b + 1 BY <2>1, <2>6
      <3> HIDE DEF Waiting, Unloading, Storing, b, u, s
      <3>3. Cardinality(Waiting') = Cardinality(Waiting) + 1 BY <1>1, <3>1, CountOne
      <3> QED BY <1>2, <1>4, <2>1, <2>2, <2>4, <3>2, <3>3
    <2> QED BY <2>5, <2>6
  <1>10. ASSUME NEW p \in Pallets, NEW W \in SUBSET Servers, Stages(p, W) PROVE CountInv'
    <2>1. /\ pc[p] \in PutPending /\ pallet_state[p] = "UNLOADING"
          /\ \A x \in Pallets : pc'[x] = IF x = p THEN "freed" ELSE pc[x]
          /\ pallet_state' = [pallet_state EXCEPT ![p] = "STAGED"]
          /\ u' = u /\ s' = s /\ b' = b - IF pc[p] = "unblocked" THEN 1 ELSE 0
      BY <1>10 DEF Stages
    <2>2. Storing' = Storing BY <1>3, <2>1
    <2>3. Unloading' = Unloading BY <2>1 DEF PutPending
    <2>4. CASE pc[p] = "put"
      <3>1. Waiting' = Waiting /\ b' = b BY <1>3, <2>1, <2>4
      <3> HIDE DEF Waiting, Unloading, Storing, b, u, s
      <3> QED BY <1>2, <1>4, <2>1, <2>2, <2>3, <3>1
    <2>5. CASE pc[p] = "unblocked"
      <3>1. Waiting' = Waiting \ {p} /\ p \in Waiting /\ b' = b - 1 BY <2>1, <2>5
      <3> HIDE DEF Waiting, Unloading, Storing, b, u, s
      <3>2. Cardinality(Waiting') = Cardinality(Waiting) - 1 BY <1>1, <3>1, CountOne
      <3> QED BY <1>2, <1>4, <2>1, <2>2, <2>3, <3>1, <3>2
    <2> QED BY <2>1, <2>4, <2>5 DEF PutPending
  <1>11. ASSUME NEW t \in Servers, StartServer(t) PROVE UNCHANGED <<pallet_state, busy, blocked>>
                                                        /\ \A x \in Pallets : pc'[x] = pc[x]
    BY <1>11, StartServerDoes DEF AsksNext
  <1>12. ASSUME NEW t \in Servers, FinishPutaway(t) PROVE CountInv'
    <2>1. /\ \A x \in Pallets : pc'[x] = pc[x]
          /\ held[t] \in Pallets /\ pallet_state[held[t]] = "AWAITING_PUTAWAY"
          /\ pallet_state' = [pallet_state EXCEPT ![held[t]] = "STORED"]
          /\ busy' = [busy EXCEPT !["putaway"] = busy["putaway"] - 1]
          /\ blocked' = [blocked EXCEPT !["putaway"] = blocked["putaway"]]
      BY <1>12, FinishPutawayDoes DEF AsksNext
    <2>2. Waiting' = Waiting /\ Unloading' = Unloading BY <2>1
    <2>3. Storing' = Storing \ {held[t]} /\ held[t] \in Storing BY <1>3, <2>1
    <2>4. b' = b /\ u' = u /\ s' = s - 1 BY <1>3, <2>1
    <2> HIDE DEF Waiting, Unloading, Storing, b, u, s
    <2>5. Cardinality(Storing') = Cardinality(Storing) - 1 BY <1>1, <2>3, CountOne
    <2> QED BY <1>2, <1>4, <2>2, <2>4, <2>5
  <1>13. ASSUME NEW t \in Servers, NEW W \in SUBSET Pallets, Pulls(t, W) PROVE CountInv'
    <2>1. /\ \A w \in W : pc[w] = "putting"
          /\ \A x \in Pallets : pc'[x] = IF x \in W THEN "unblocked" ELSE pc[x]
          /\ held[t] \in Pallets /\ pallet_state[held[t]] = "STAGED"
          /\ pallet_state' = [pallet_state EXCEPT ![held[t]] = "AWAITING_PUTAWAY"]
          /\ busy' = [busy EXCEPT !["putaway"] = busy["putaway"] + 1]
          /\ blocked' = [blocked EXCEPT !["putaway"] = blocked["putaway"]]
      BY <1>13 DEF Pulls
    <2>2. Waiting' = Waiting /\ Unloading' = Unloading BY <2>1
    <2>3. Storing' = Storing \cup {held[t]} /\ held[t] \notin Storing BY <1>3, <2>1
    <2>4. b' = b /\ u' = u /\ s' = s + 1 BY <1>3, <2>1
    <2> HIDE DEF Waiting, Unloading, Storing, b, u, s
    <2>5. Cardinality(Storing') = Cardinality(Storing) + 1 BY <1>1, <2>3, CountOne
    <2> QED BY <1>2, <1>4, <2>2, <2>4, <2>5
  <1>14. ASSUME NEW t \in Servers, StartServer(t) PROVE CountInv'
    <2>1. Waiting' = Waiting /\ Unloading' = Unloading /\ Storing' = Storing BY <1>11, <1>14
    <2>2. UNCHANGED <<b, u, s>> BY <1>11, <1>14
    <2> HIDE DEF Waiting, Unloading, Storing, b, u, s
    <2> QED BY <1>2, <1>4, <2>1, <2>2
  <1> HIDE DEF Waiting, Unloading, Storing, b, u, s
  <1>15. ASSUME NEW p \in Pallets, PalletStep(p) PROVE CountInv'
    BY <1>6, <1>7, <1>8, <1>9, <1>10, <1>15, ArriveDoes, FreedDoes, FinishUnloadDoes, StageDoes
       DEF PalletStep
  <1>16. ASSUME NEW t \in Servers, ServerStep(t) PROVE CountInv'
    BY <1>12, <1>13, <1>14, <1>16, StartPutawayDoes DEF ServerStep
  <1>17. UNCHANGED vars \/ Finish => UNCHANGED <<pc, pallet_state, busy, blocked>>
    BY DEF Finish, vars, queue_vars, trace_vars
  <1> QED BY <1>5, <1>15, <1>16, <1>17 DEF Next

\* The units of one pallet.
Own(p) == {p} \X (1..Qty[p])

\* The units that the running totals add up, of one pallet and of them all, are
\* finitely many, and a pallet has as many as its quantity says.
LEMMA UnitsFinite ==
    /\ IsFiniteSet(Units)
    /\ \A p \in Pallets : Own(p) \subseteq Units /\ IsFiniteSet(Own(p)) /\ Cardinality(Own(p)) = Qty[p]
    /\ \A u \in Units : u[1] \in Pallets /\ u \in Own(u[1])
    /\ \A p \in Pallets : \A u \in Own(p) : u[1] = p
  <1>1. ASSUME NEW p \in Pallets
        PROVE  IsFiniteSet(Own(p)) /\ Cardinality(Own(p)) = Qty[p]
    <2>1. Qty[p] \in Nat /\ Qty[p] \in Int /\ 1 \in Int BY <1>1, InputTypes
    <2>2. IsFiniteSet(1..Qty[p]) /\ Cardinality(1..Qty[p]) = Qty[p]
      <3>1. /\ IsFiniteSet(1..Qty[p])
            /\ Cardinality(1..Qty[p]) = IF 1 > Qty[p] THEN 0 ELSE Qty[p] - 1 + 1
        BY <2>1, FS_Interval
      <3> QED BY <2>1, <3>1
    <2>3. IsFiniteSet({p}) /\ Cardinality({p}) = 1 BY FS_Singleton
    <2>4. IsFiniteSet({p} \X (1..Qty[p])) /\ Cardinality({p} \X (1..Qty[p])) = 1 * Qty[p]
      BY <2>2, <2>3, FS_Product, ZenonT(60)
    <2> QED BY <2>1, <2>4 DEF Own
  <1>2. IsFiniteSet(Units)
    <2> DEFINE All == {Own(p) : p \in Pallets}
               f == [p \in Pallets |-> Own(p)]
    <2>1. f \in Surjection(Pallets, All) BY DEF Surjection
    <2>2. IsFiniteSet(All) BY <2>1, FiniteProcs, FS_Surjection
    <2>3. \A T \in All : IsFiniteSet(T) BY <1>1
    <2>4. IsFiniteSet(UNION All) BY <2>2, <2>3, FS_UNION
    <2>5. Units = UNION All BY DEF Units, Own
    <2> QED BY <2>4, <2>5
  <1>3. \A p \in Pallets : Own(p) \subseteq Units BY DEF Own, Units
  <1>4. \A u \in Units : u[1] \in Pallets /\ u \in Own(u[1]) BY DEF Own, Units
  <1>5. \A p \in Pallets : \A u \in Own(p) : u[1] = p BY DEF Own
  <1> QED BY <1>1, <1>2, <1>3, <1>4, <1>5

\* A pallet that changes its state takes its own units with it, and no others.
LEMMA UnitsMove ==
    ASSUME TypeOK, NEW p \in Pallets, NEW CONSTANT to, NEW CONSTANT S,
           pallet_state' = [pallet_state EXCEPT ![p] = to]
    PROVE  /\ UnitsIn(S) \in Nat
           /\ UnitsIn(S)' = UnitsIn(S) + (IF to \in S THEN Qty[p] ELSE 0)
                                       - (IF pallet_state[p] \in S THEN Qty[p] ELSE 0)
  <1> DEFINE U == {u \in Units : pallet_state[u[1]] \in S}
             O == Own(p)
  <1>1. U \subseteq Units /\ IsFiniteSet(Units) /\ IsFiniteSet(O) /\ Cardinality(O) = Qty[p]
        /\ O \subseteq Units /\ \A u \in Units : u[1] \in Pallets /\ (u[1] = p <=> u \in O)
    BY UnitsFinite
  <1>2. IsFiniteSet(U) /\ Cardinality(U) \in Nat BY <1>1, FS_Subset, FS_CardinalityType
  <1>3. Qty[p] \in Nat BY InputTypes
  <1>4. \A x \in Pallets : pallet_state'[x] = IF x = p THEN to ELSE pallet_state[x]
    BY DEF TypeOK
  <1>5. UnitsIn(S) = Cardinality(U) /\ UnitsIn(S)' = Cardinality(U') BY DEF UnitsIn
  <1> HIDE DEF O
  <1>6. CASE (to \in S) <=> (pallet_state[p] \in S)
    <2>1. U' = U BY <1>1, <1>4, <1>6
    <2> HIDE DEF U
    <2> QED BY <1>2, <1>3, <1>5, <1>6, <2>1
  <1>7. CASE to \in S /\ pallet_state[p] \notin S
    <2>1. U' = U \cup O /\ U \cap O = {} BY <1>1, <1>4, <1>7
    <2> HIDE DEF U
    <2>2. Cardinality(U') = Cardinality(U) + Cardinality(O) - Cardinality({})
      BY <1>1, <1>2, <2>1, FS_Union
    <2> QED BY <1>1, <1>2, <1>3, <1>5, <1>7, <2>2, FS_EmptySet
  <1>8. CASE to \notin S /\ pallet_state[p] \in S
    <2>1. \A u \in O : u \in Units /\ u[1] = p BY <1>1
    <2>2. O \subseteq U BY <1>8, <2>1
    <2>3. U' = U \ O BY <1>1, <1>4, <1>8
    <2> HIDE DEF U
    <2>4. U \cap O = O BY <2>2
    <2>5. Cardinality(U') = Cardinality(U) - Cardinality(O)
      <3>1. Cardinality(U \ O) = Cardinality(U) - Cardinality(U \cap O) BY <1>2, FS_Difference
      <3> QED BY <2>3, <2>4, <3>1
    <2> QED BY <1>1, <1>2, <1>3, <1>5, <1>8, <2>5
  <1> QED BY <1>6, <1>7, <1>8 DEF U

InSystem == {"ON_TRUCK", "UNLOADING", "STAGED", "AWAITING_PUTAWAY"}

\* The ledger moves the units of a pallet when the pallet moves.
LEMMA UnitsStep ==
    ASSUME TypeOK, HandoverInv, HandoverInv', UnitsMatchStates, [Next]_vars
    PROVE  UnitsMatchStates'
  <1>1. /\ units \in [UnitColumns -> Int] /\ "in_system" \in UnitColumns /\ "putaway" \in UnitColumns
        /\ "staged" \in UnitColumns /\ "received" \in UnitColumns
    BY DEF TypeOK, UnitColumns
  <1>2. /\ units["in_system"] = UnitsIn(InSystem) /\ units["putaway"] = UnitsIn({"STORED"})
        /\ units["staged"] = UnitsIn({"STAGED"})
    BY DEF UnitsMatchStates, InSystem
  <1>3. ASSUME units'["in_system"] = UnitsIn(InSystem)', units'["putaway"] = UnitsIn({"STORED"})',
               units'["staged"] = UnitsIn({"STAGED"})'
        PROVE  UnitsMatchStates'
    BY <1>3 DEF UnitsMatchStates, InSystem
  <1>4. CASE UNCHANGED <<units, pallet_state>>
    BY <1>4 DEF UnitsMatchStates, UnitsIn
  <1>5. ASSUME NEW p \in Pallets, Arrive(p) PROVE UnitsMatchStates'
    <2>1. /\ pallet_state[p] = "EXPECTED" /\ pallet_state' = [pallet_state EXCEPT ![p] = "ON_TRUCK"]
      BY <1>5, ArriveDoes DEF Arrives
    <2>2. units' = [units EXCEPT !["received"] = @ + Qty[p], !["in_system"] = @ + Qty[p]]
      BY <1>5 DEF Arrive
    <2>3. /\ UnitsIn(InSystem)' = UnitsIn(InSystem) + Qty[p]
          /\ UnitsIn({"STORED"})' = UnitsIn({"STORED"})
          /\ UnitsIn({"STAGED"})' = UnitsIn({"STAGED"})
      <3>1. Qty[p] \in Nat BY InputTypes
      <3>2. \A S \in {InSystem, {"STORED"}, {"STAGED"}} :
              /\ UnitsIn(S) \in Nat
              /\ UnitsIn(S)' = UnitsIn(S) + (IF "ON_TRUCK" \in S THEN Qty[p] ELSE 0)
                                          - (IF pallet_state[p] \in S THEN Qty[p] ELSE 0)
        BY <2>1, UnitsMove
      <3> QED BY <2>1, <3>1, <3>2 DEF InSystem
    <2>4. /\ units'["in_system"] = units["in_system"] + Qty[p] /\ units'["putaway"] = units["putaway"]
          /\ units'["staged"] = units["staged"]
      BY <1>1, <2>2
    <2> QED BY <1>2, <1>3, <2>3, <2>4
  <1>6. ASSUME NEW p \in Pallets, StartUnload(p) PROVE UnitsMatchStates'
    <2>1. /\ pallet_state[p] = "ON_TRUCK" /\ pallet_state' = [pallet_state EXCEPT ![p] = "UNLOADING"]
      <3>1. pc[p] = "request" BY <1>6 DEF StartUnload, Fires
      <3> QED BY <1>6, <3>1, OwnMoveDoes
    <2>2. units' = units BY <1>6 DEF StartUnload, ledger_vars
    <2>3. /\ UnitsIn(InSystem)' = UnitsIn(InSystem)
          /\ UnitsIn({"STORED"})' = UnitsIn({"STORED"})
          /\ UnitsIn({"STAGED"})' = UnitsIn({"STAGED"})
      <3>1. Qty[p] \in Nat BY InputTypes
      <3>2. \A S \in {InSystem, {"STORED"}, {"STAGED"}} :
              /\ UnitsIn(S) \in Nat
              /\ UnitsIn(S)' = UnitsIn(S) + (IF "UNLOADING" \in S THEN Qty[p] ELSE 0)
                                          - (IF pallet_state[p] \in S THEN Qty[p] ELSE 0)
        BY <2>1, UnitsMove
      <3> QED BY <2>1, <3>1, <3>2 DEF InSystem
    <2> QED BY <1>2, <1>3, <2>2, <2>3
  <1>7. ASSUME NEW p \in Pallets, Stage(p) PROVE UnitsMatchStates'
    <2>1. /\ pallet_state[p] = "UNLOADING" /\ pallet_state' = [pallet_state EXCEPT ![p] = "STAGED"]
      BY <1>7, StageDoes DEF Stages
    <2>2. units' = [units EXCEPT !["staged"] = @ + Qty[p]] BY <1>7 DEF Stage
    <2>3. /\ UnitsIn(InSystem)' = UnitsIn(InSystem)
          /\ UnitsIn({"STORED"})' = UnitsIn({"STORED"})
          /\ UnitsIn({"STAGED"})' = UnitsIn({"STAGED"}) + Qty[p]
      <3>1. Qty[p] \in Nat BY InputTypes
      <3>2. \A S \in {InSystem, {"STORED"}, {"STAGED"}} :
              /\ UnitsIn(S) \in Nat
              /\ UnitsIn(S)' = UnitsIn(S) + (IF "STAGED" \in S THEN Qty[p] ELSE 0)
                                          - (IF pallet_state[p] \in S THEN Qty[p] ELSE 0)
        BY <2>1, UnitsMove
      <3> QED BY <2>1, <3>1, <3>2 DEF InSystem
    <2>4. /\ units'["in_system"] = units["in_system"] /\ units'["putaway"] = units["putaway"]
          /\ units'["staged"] = units["staged"] + Qty[p]
      BY <1>1, <2>2
    <2> QED BY <1>2, <1>3, <2>3, <2>4
  <1>8. ASSUME NEW s \in Servers, StartPutaway(s) PROVE UnitsMatchStates'
    <2>1. /\ held[s] \in Pallets /\ pallet_state[held[s]] = "STAGED"
          /\ pallet_state' = [pallet_state EXCEPT ![held[s]] = "AWAITING_PUTAWAY"]
      BY <1>8, StartPutawayDoes DEF Pulls
    <2>2. units' = [units EXCEPT !["staged"] = @ - Qty[held[s]]] BY <1>8 DEF StartPutaway
    <2>3. /\ UnitsIn(InSystem)' = UnitsIn(InSystem)
          /\ UnitsIn({"STORED"})' = UnitsIn({"STORED"})
          /\ UnitsIn({"STAGED"})' = UnitsIn({"STAGED"}) - Qty[held[s]]
      <3> DEFINE h == held[s]
      <3>1. Qty[h] \in Nat BY <2>1, InputTypes
      <3>2. \A S \in {InSystem, {"STORED"}, {"STAGED"}} :
              /\ UnitsIn(S) \in Nat
              /\ UnitsIn(S)' = UnitsIn(S) + (IF "AWAITING_PUTAWAY" \in S THEN Qty[h] ELSE 0)
                                          - (IF pallet_state[h] \in S THEN Qty[h] ELSE 0)
        BY <2>1, UnitsMove
      <3> QED BY <2>1, <3>1, <3>2 DEF InSystem
    <2>4. /\ units'["in_system"] = units["in_system"] /\ units'["putaway"] = units["putaway"]
          /\ units'["staged"] = units["staged"] - Qty[held[s]]
      BY <1>1, <2>2
    <2> QED BY <1>2, <1>3, <2>3, <2>4
  <1>9. ASSUME NEW s \in Servers, FinishPutaway(s) PROVE UnitsMatchStates'
    <2>1. /\ held[s] \in Pallets /\ pallet_state[held[s]] = "AWAITING_PUTAWAY"
          /\ pallet_state' = [pallet_state EXCEPT ![held[s]] = "STORED"]
      BY <1>9, FinishPutawayDoes
    <2>2. units' = [units EXCEPT !["in_system"] = @ - Qty[held[s]], !["putaway"] = @ + Qty[held[s]]]
      BY <1>9 DEF FinishPutaway
    <2>3. /\ UnitsIn(InSystem)' = UnitsIn(InSystem) - Qty[held[s]]
          /\ UnitsIn({"STORED"})' = UnitsIn({"STORED"}) + Qty[held[s]]
          /\ UnitsIn({"STAGED"})' = UnitsIn({"STAGED"})
      <3> DEFINE h == held[s]
      <3>1. Qty[h] \in Nat BY <2>1, InputTypes
      <3>2. \A S \in {InSystem, {"STORED"}, {"STAGED"}} :
              /\ UnitsIn(S) \in Nat
              /\ UnitsIn(S)' = UnitsIn(S) + (IF "STORED" \in S THEN Qty[h] ELSE 0)
                                          - (IF pallet_state[h] \in S THEN Qty[h] ELSE 0)
        BY <2>1, UnitsMove
      <3> QED BY <2>1, <3>1, <3>2 DEF InSystem
    <2>4. /\ units'["in_system"] = units["in_system"] - Qty[held[s]]
          /\ units'["putaway"] = units["putaway"] + Qty[held[s]]
          /\ units'["staged"] = units["staged"]
      BY <1>1, <2>2
    <2> QED BY <1>2, <1>3, <2>3, <2>4
  <1>10. ASSUME NEW p \in Pallets, AwaitRelease(p) \/ FinishUnload(p) \/ Freed(p)
         PROVE  UNCHANGED <<units, pallet_state>>
    BY <1>10 DEF AwaitRelease, FinishUnload, Freed, ledger_vars
  <1>11. ASSUME NEW s \in Servers, StartServer(s) PROVE UNCHANGED <<units, pallet_state>>
    BY <1>11 DEF StartServer, ledger_vars
  <1>12. UNCHANGED vars \/ Finish => UNCHANGED <<units, pallet_state>>
    BY DEF Finish, vars, ledger_vars
  <1>13. ASSUME NEW p \in Pallets, PalletStep(p) PROVE UnitsMatchStates'
    BY <1>4, <1>5, <1>6, <1>7, <1>10, <1>13 DEF PalletStep
  <1>14. ASSUME NEW s \in Servers, ServerStep(s) PROVE UnitsMatchStates'
    BY <1>4, <1>8, <1>9, <1>11, <1>14 DEF ServerStep
  <1> QED BY <1>4, <1>12, <1>13, <1>14 DEF Next

\* The line starts with nobody waiting and nothing counted.
LEMMA InitCounts == Init => DockInv /\ WakeInv /\ DueInv /\ CountInv /\ UnitsMatchStates
  <1> SUFFICES ASSUME Init PROVE DockInv /\ WakeInv /\ DueInv /\ CountInv /\ UnitsMatchStates
    OBVIOUS
  <1>1. /\ \A p \in Pallets : pc[p] = "init" /\ pallet_state[p] = "EXPECTED"
        /\ \A s \in Servers : pc[s] = "init"
        /\ users = {} /\ requests = <<>> /\ items = <<>> /\ puts = <<>> /\ gets = <<>>
    BY ProcsSplit DEF Init
  <1>2. Cardinality({}) = 0 /\ ReceivingCapacity \in Nat /\ StagingCapacity \in Nat
    BY FS_EmptySet, SpecAssumption
  <1>3. DockInv
    <2>1. {p \in Pallets : pc[p] \in Holding} = {} BY <1>1 DEF Holding
    <2> QED BY <1>1, <1>2, <2>1 DEF DockInv
  <1>4. WakeInv
    <2>1. Len(items) = 0 BY <1>1
    <2> QED BY <1>1, <1>2, <2>1 DEF WakeInv
  <1>5. DueInv BY <1>1 DEF DueInv, GetsDue, FreesDue
  <1>6. CountInv
    <2>1. /\ {p \in Pallets : pc[p] \in {"putting", "unblocked"}} = {}
          /\ {p \in Pallets : pc[p] = "service"} = {}
          /\ {p \in Pallets : pallet_state[p] = "AWAITING_PUTAWAY"} = {}
      BY <1>1
    <2>2. blocked["receiving"] = 0 /\ busy["receiving"] = 0 /\ busy["putaway"] = 0
      BY DEF Init, Stations
    <2> QED BY <1>2, <2>1, <2>2 DEF CountInv
  <1>7. UnitsMatchStates
    <2>1. units["in_system"] = 0 /\ units["putaway"] = 0 /\ units["staged"] = 0
      BY DEF Init, UnitColumns
    <2>2. ASSUME NEW S, "EXPECTED" \notin S PROVE UnitsIn(S) = 0
      <3>1. {u \in Units : pallet_state[u[1]] \in S} = {} BY <1>1, <2>2, UnitsFinite
      <3> QED BY <1>2, <3>1 DEF UnitsIn
    <2> QED BY <2>1, <2>2 DEF UnitsMatchStates
  <1> QED BY <1>3, <1>4, <1>5, <1>6, <1>7

\* The dock, its queues and its counters in every reachable state.
THEOREM DockCorrect == Spec => [](IInv /\ DockInv /\ WakeInv /\ DueInv /\ CountInv /\ UnitsMatchStates)
  <1> DEFINE D == IInv /\ DockInv /\ WakeInv /\ DueInv /\ CountInv /\ UnitsMatchStates
  <1>1. Init => D BY InitIInv, InitCounts
  <1>2. D /\ [Next]_vars => D'
    <2> SUFFICES ASSUME D, [Next]_vars PROVE D'
      OBVIOUS
    <2>1. TypeOK /\ HorizonInv /\ HandoverInv /\ HandedInv BY DEF IInv, HandoverInv
    <2>2. HandoverInv' BY <2>1, HandoverStep
    <2>3. IInv' BY <2>1, <2>2, TypeStep, HorizonStep DEF IInv
    <2>4. DockInv' BY <2>1, <2>2, DockStep
    <2>5. WakeInv' BY <2>1, <2>2, WakeStep
    <2>6. DueInv' BY <2>1, <2>2, DueStep
    <2>7. CountInv' BY <2>1, <2>2, CountStep
    <2>8. UnitsMatchStates' BY <2>1, <2>2, UnitsStep
    <2> QED BY <2>3, <2>4, <2>5, <2>6, <2>7, <2>8
  <1> QED BY <1>1, <1>2, PTL DEF Spec

\* No lost wake-up, whatever the capacities: SimPy's Store and Resource serve one
\* waiter per trigger, and when the tick is over nobody waits for what is there.
THEOREM WakeupsNotLost == Spec => []NoLostWakeup
  <1>1. IInv /\ DockInv /\ WakeInv /\ DueInv => NoLostWakeup
    <2> SUFFICES ASSUME IInv, DockInv, WakeInv, DueInv, Quiet
                 PROVE  /\ gets # <<>> => items = <<>>
                        /\ puts # <<>> => Len(items) = StagingCapacity
                        /\ requests # <<>> => Cardinality(users) = ReceivingCapacity
      BY DEF NoLostWakeup
    <2>1. TypeOK /\ HandoverInv BY DEF IInv
    <2>2. PutsDue = {} BY <2>1, QuietNoPut DEF PutsDue
    <2>3. ASSUME NEW a \in GetsDue \cup FreesDue PROVE FALSE
      <3>1. a \in Procs /\ a \in Scheduled
        BY ProcsSplit DEF GetsDue, FreesDue, Scheduled, Queued
      <3>2. ev[a].at \in Nat /\ now \in Nat BY <2>1, <3>1 DEF TypeOK
      <3> QED BY <3>1, <3>2 DEF DueInv, Quiet
    <2>4. GetsDue = {} /\ FreesDue = {} BY <2>3
    <2>5. Cardinality(PutsDue) = 0 /\ Cardinality(GetsDue) = 0 /\ Cardinality(FreesDue) = 0
      BY <2>2, <2>4, FS_EmptySet
    <2>6. /\ Len(items) \in Nat /\ StagingCapacity \in Nat /\ ReceivingCapacity \in Nat
          /\ items \in Seq(Pallets)
      BY <2>1, SpecAssumption DEF TypeOK
    <2>7. Cardinality(users) \in Nat /\ Cardinality(users) <= ReceivingCapacity
      BY <2>1, FiniteProcs DEF TypeOK, DockInv
    <2>8. Len(items) = 0 => items = <<>> BY <2>6
    <2> QED BY <2>5, <2>6, <2>7, <2>8 DEF WakeInv
  <1> QED BY <1>1, DockCorrect, PTL

\* The running totals of _Line are the pallets' states added up, and the server
\* counts of its stations the pallets that hold or await a server.
THEOREM CountersCorrect == Spec => []CountersMatchStates
  <1>1. DockInv /\ CountInv /\ UnitsMatchStates => CountersMatchStates
    <2> SUFFICES ASSUME DockInv, CountInv, UnitsMatchStates PROVE ServersAccounted
      BY DEF CountersMatchStates
    <2>1. {p \in Pallets : pallet_state[p] = "UNLOADING"} \subseteq users BY DEF DockInv
    <2> QED BY <2>1 DEF DockInv, CountInv, ServersAccounted
  <1> QED BY <1>1, DockCorrect, PTL
-----------------------------------------------------------------------------
(* First in, first out.                                                    *)

\* Where pallet x is, or will be, in the log of staged pallets: the pallets whose
\* put is pending are staged in the order of their events, behind the log.
RankIn(log, e, x) ==
    IF x \in Range(log) THEN CHOOSE i \in DOMAIN log : log[i] = x
                        ELSE Len(log) + 1 + e[x].no

Rank(x) == RankIn(staged_log, ev, x)

\* The pallets that have a rank, and those that no server has taken yet: in the
\* store, or handed to a server whose get event is pending.
Coming  == Range(staged_log) \cup PutsDue
Waiting == Range(items) \cup {held[s] : s \in GetsDue}

\* The log is the pallets that are or were staged, and it is the taken ones, in
\* the order they were staged, that come first.
LogInv ==
    /\ Distinct(staged_log)
    /\ Range(staged_log) = {p \in Pallets : pallet_state[p] \in {"STAGED", "AWAITING_PUTAWAY", "STORED"}}
    /\ \A i \in DOMAIN staged_log : staged_log[i] \in Taken <=> i <= Cardinality(Taken)

\* A pallet that is staged, or about to be, is not taken yet, and a pallet that is
\* taken and not stored is served.
WaitingInv ==
    /\ \A p \in Pallets : pallet_state[p] = "STAGED" \/ p \in PutsDue => p \in Waiting
    /\ \A p \in Pallets : pallet_state[p] = "AWAITING_PUTAWAY" =>
          \E s \in Servers : pc[s] = "service" /\ held[s] = p

\* The store, the servers in the order of their get events, and the log agree on
\* the order of the pallets.
FifoInv ==
    /\ \A i, j \in DOMAIN items : i < j => Rank(items[i]) < Rank(items[j])
    /\ \A s \in GetsDue, x \in Range(items) : Rank(held[s]) < Rank(x)
    /\ \A s, t \in GetsDue : ev[s].no < ev[t].no => Rank(held[s]) < Rank(held[t])

\* The pallets ahead of y that are not taken by the time y is staged.
Ahead(y) ==
    {x \in Pallets : /\ Rank(x) < Rank(y)
                     /\ \/ x \in Range(items)
                        \/ \E s \in GetsDue : held[s] = x /\ ev[y].no < ev[s].no}

\* They leave a place of the buffer for y.
RoomInv == \A y \in PutsDue : Cardinality(Ahead(y)) < StagingCapacity

\* What the refinement carries from step to step, beside the invariants of the
\* handover and of the dock.
OrderInv == LogInv /\ WaitingInv /\ FifoInv /\ RoomInv

\* The rank of a logged pallet is its place in the log, and that of a pending one is
\* behind the log.
LEMMA RankIs ==
    ASSUME NEW log \in Seq(Pallets), Distinct(log), NEW e \in [Procs -> [at : Nat, no : Nat]]
    PROVE  /\ \A i \in DOMAIN log : RankIn(log, e, log[i]) = i
           /\ \A x \in Range(log) : /\ RankIn(log, e, x) \in DOMAIN log
                                    /\ log[RankIn(log, e, x)] = x
                                    /\ RankIn(log, e, x) \in Nat /\ RankIn(log, e, x) <= Len(log)
           /\ \A x \in Pallets : x \notin Range(log) =>
                 /\ RankIn(log, e, x) = Len(log) + 1 + e[x].no
                 /\ RankIn(log, e, x) \in Nat /\ RankIn(log, e, x) > Len(log)
  <1>1. DOMAIN log = 1..Len(log) /\ Len(log) \in Nat OBVIOUS
  <1>2. ASSUME NEW x \in Range(log)
        PROVE  RankIn(log, e, x) \in DOMAIN log /\ log[RankIn(log, e, x)] = x
    <2>1. \E i \in DOMAIN log : log[i] = x BY <1>2 DEF Range
    <2>2. RankIn(log, e, x) = CHOOSE i \in DOMAIN log : log[i] = x BY <1>2 DEF RankIn
    <2> QED BY <2>1, <2>2
  <1>3. ASSUME NEW i \in DOMAIN log PROVE RankIn(log, e, log[i]) = i
    <2>1. log[i] \in Range(log) BY <1>3 DEF Range
    <2> QED BY <1>2, <1>3, <2>1 DEF Distinct
  <1>4. ASSUME NEW x \in Pallets, x \notin Range(log)
        PROVE  /\ RankIn(log, e, x) = Len(log) + 1 + e[x].no
               /\ RankIn(log, e, x) \in Nat /\ RankIn(log, e, x) > Len(log)
    <2>1. RankIn(log, e, x) = Len(log) + 1 + e[x].no BY <1>4 DEF RankIn
    <2>2. e[x].no \in Nat BY ProcsSplit
    <2> QED BY <1>1, <2>1, <2>2
  <1>5. ASSUME NEW x \in Range(log)
        PROVE  RankIn(log, e, x) \in Nat /\ RankIn(log, e, x) <= Len(log)
    BY <1>1, <1>2
  <1> QED BY <1>2, <1>3, <1>4, <1>5

\* What waits in the store or with a server has a rank, and pending events are not
\* newer than the counter.
LEMMA WaitingHaveRank ==
    ASSUME TypeOK, HandoverInv, LogInv
    PROVE  /\ Range(items) \subseteq Coming /\ \A s \in GetsDue : held[s] \in Coming
           /\ Coming \subseteq Pallets
           /\ \A x \in Coming : Rank(x) \in Nat
           /\ \A a \in PutsDue \cup GetsDue : ev[a].no \in Nat /\ ev[a].no <= counter
           /\ counter \in Nat
  <1>1. /\ items \in Seq(Pallets) /\ ev \in [Procs -> [at : Nat, no : Nat]] /\ counter \in Nat
        /\ staged_log \in Seq(Pallets) /\ QueueInv /\ Distinct(staged_log)
    BY DEF TypeOK, HandoverInv, LogInv
  <1>2. Coming \subseteq Pallets BY DEF LogInv, Coming, PutsDue
  <1>3. \A x \in Pallets : pallet_state[x] = "STAGED" \/ pc[x] \in PutPending => x \in Coming
    BY DEF LogInv, Coming, PutsDue
  <1>4. Range(items) \subseteq Pallets BY <1>1 DEF Range
  <1>5. Range(items) \subseteq Coming BY <1>3, <1>4 DEF HandoverInv, ItemsInv
  <1>6. ASSUME NEW s \in GetsDue PROVE held[s] \in Coming
    <2>1. s \in Servers /\ pc[s] = "get" BY <1>6 DEF GetsDue
    <2>2. held[s] \in Pallets BY <2>1 DEF HandoverInv, HandedInv, Carrying
    <2> QED BY <1>3, <2>1, <2>2 DEF HandoverInv, HandedInv
  <1>7. \A x \in Coming : Rank(x) \in Nat
    BY <1>1, <1>2, RankIs DEF Rank
  <1>8. \A a \in PutsDue \cup GetsDue : a \in Scheduled
    BY ProcsSplit DEF PutsDue, GetsDue, Scheduled, Queued, PutPending
  <1>9. \A a \in PutsDue \cup GetsDue : ev[a].no \in Nat /\ ev[a].no <= counter
    BY <1>1, <1>8 DEF QueueInv, Scheduled
  <1> QED BY <1>1, <1>2, <1>5, <1>6, <1>7, <1>9

\* Of the pending puts and gets, the one that fires has the oldest event: all are
\* events of the current tick.
LEMMA FiresOldest ==
    ASSUME TypeOK, HandoverInv, DueInv, NEW a \in PutsDue \cup GetsDue, Fires(a, pc[a])
    PROVE  \A b \in PutsDue \cup GetsDue : b # a => ev[a].no < ev[b].no
  <1>1. \A b \in PutsDue \cup GetsDue : b \in Scheduled /\ b \in Procs
    BY ProcsSplit DEF PutsDue, GetsDue, Scheduled, Queued, PutPending
  <1>2. \A b \in PutsDue \cup GetsDue : ev[b].at \in Nat /\ now \in Nat /\ ev[b].at <= now /\ now <= ev[b].at
    <2>1. \A b \in Procs : ev[b].at \in Nat /\ now \in Nat BY DEF TypeOK
    <2>2. \A b \in PutsDue : ev[b].at <= now BY DEF PutsDue, HandoverInv, ItemsInv
    <2>3. \A b \in GetsDue : ev[b].at <= now BY DEF DueInv
    <2>4. \A b \in Scheduled : now <= ev[b].at BY DEF HandoverInv, QueueInv
    <2> QED BY <1>1, <2>1, <2>2, <2>3, <2>4
  <1> SUFFICES ASSUME NEW b \in PutsDue \cup GetsDue, b # a PROVE ev[a].no < ev[b].no
    OBVIOUS
  <1>3. Before(a, b) BY <1>1 DEF Fires
  <1>4. ev[a].at = ev[b].at /\ ev[a].at \in Nat BY <1>2
  <1> QED BY <1>3, <1>4 DEF Before
-----------------------------------------------------------------------------
(* The two triggers of the store keep the order.                           *)

\* A step keeps the order of the pallets that have a rank.
SameOrder ==
    \A x, y \in Coming :
        Rank(x) < Rank(y) <=> RankIn(staged_log', ev', x) < RankIn(staged_log', ev', y)

\* What a step does that gives the servers in W (at most one) the oldest item.
HandsOver(W) ==
    /\ AtMostOne(W, Servers) /\ W \cap GetsDue = {}
    /\ GetsDue' = GetsDue \cup W /\ PutsDue' \subseteq PutsDue
    /\ \A a \in GetsDue \cup PutsDue' : ev'[a] = ev[a]
    /\ \A w \in W : ev'[w].no = counter + 1
    /\ W = {} => items' = items /\ held' = held
    /\ \A w \in W : items # <<>> /\ items' = Tail(items) /\ held' = [held EXCEPT ![w] = Head(items)]

\* What a step does that lets the pallets in W (at most one) into the store.
LetsIn(W) ==
    /\ AtMostOne(W, Pallets) /\ W \cap Coming = {}
    /\ PutsDue' = PutsDue \cup W /\ GetsDue' \subseteq GetsDue
    /\ \A a \in GetsDue' \cup PutsDue : ev'[a] = ev[a]
    /\ \A w \in W : ev'[w].no = counter + 1
    /\ W = {} => items' = items
    /\ \A w \in W : Len(items) < StagingCapacity /\ items' = Append(items, w)
    /\ UNCHANGED <<held, staged_log>>

\* After a handover, what is in the store was there before, and who has a get event
\* carries what it carried or what was the oldest item.
LEMMA HandedFrom ==
    ASSUME TypeOK, HandoverInv, NEW W \in SUBSET Servers, HandsOver(W)
    PROVE  /\ Range(items') \subseteq Range(items)
           /\ \A s \in GetsDue : held'[s] = held[s] /\ ev'[s] = ev[s] /\ s \in GetsDue'
           /\ \A s \in GetsDue' : s \in GetsDue \/ s \in W
           /\ \A w \in W : /\ held'[w] \in Range(items) /\ held'[w] \notin Range(items')
                           /\ ev'[w].no = counter + 1 /\ w \in GetsDue'
                           /\ \A i \in DOMAIN items : items[i] = held'[w] => i = 1
                           /\ 1 \in DOMAIN items /\ held'[w] = items[1]
           /\ \A w1, w2 \in W : w1 = w2
           /\ Range(items) = Range(items') \cup {held'[w] : w \in W}
           /\ \A i \in DOMAIN items' : \E k \in DOMAIN items : items'[i] = items[k] /\ (W # {} => k = i + 1)
                                                             /\ (W = {} => k = i)
           /\ DOMAIN items' \subseteq Nat
  <1>1. /\ items \in Seq(Pallets) /\ Distinct(items) /\ held \in [Servers -> Pallets \cup {0}]
        /\ DOMAIN items = 1..Len(items) /\ Len(items) \in Nat
    BY DEF TypeOK, HandoverInv, ItemsInv
  <1>2. GetsDue \subseteq Servers BY DEF GetsDue
  <1>3. CASE W = {} BY <1>1, <1>2, <1>3 DEF HandsOver
  <1>4. ASSUME NEW w \in Servers, W = {w}
        PROVE  /\ items # <<>> /\ items' = Tail(items) /\ held' = [held EXCEPT ![w] = Head(items)]
               /\ ev'[w].no = counter + 1 /\ w \notin GetsDue /\ GetsDue' = GetsDue \cup {w}
               /\ \A a \in GetsDue : ev'[a] = ev[a]
    BY <1>4 DEF HandsOver
  <1>5. ASSUME NEW w \in Servers, W = {w}
        PROVE  /\ Head(items) \in Range(items) /\ Head(items) = items[1] /\ 1 \in DOMAIN items
               /\ Range(Tail(items)) = Range(items) \ {Head(items)}
               /\ DOMAIN Tail(items) = 1..Len(items)-1
               /\ \A i \in 1..Len(items)-1 : Tail(items)[i] = items[i+1] /\ i + 1 \in DOMAIN items
    <2>1. items # <<>> BY <1>4, <1>5
    <2> QED BY <1>1, <2>1, RangeTail, TailType
  <1>6. ASSUME NEW w \in Servers, W = {w}
        PROVE  /\ held'[w] = Head(items) /\ \A s \in GetsDue : held'[s] = held[s]
    BY <1>1, <1>2, <1>4, <1>6
  <1>7. ASSUME NEW w \in Servers, W = {w}
        PROVE  /\ Range(items') \subseteq Range(items)
               /\ \A s \in GetsDue : held'[s] = held[s] /\ ev'[s] = ev[s] /\ s \in GetsDue'
               /\ \A s \in GetsDue' : s \in GetsDue \/ s \in W
               /\ held'[w] \in Range(items) /\ held'[w] \notin Range(items')
               /\ ev'[w].no = counter + 1 /\ w \in GetsDue'
               /\ \A i \in DOMAIN items : items[i] = held'[w] => i = 1
               /\ 1 \in DOMAIN items /\ held'[w] = items[1]
               /\ Range(items) = Range(items') \cup {held'[w]}
               /\ \A i \in DOMAIN items' : \E k \in DOMAIN items : items'[i] = items[k] /\ k = i + 1
               /\ DOMAIN items' \subseteq Nat
    <2>1. items' = Tail(items) BY <1>4, <1>7
    <2>2. \A i \in DOMAIN items : items[i] = held'[w] => i = 1
      BY <1>1, <1>5, <1>6, <1>7 DEF Distinct
    <2>3. \A i \in DOMAIN items' : \E k \in DOMAIN items : items'[i] = items[k] /\ k = i + 1
      BY <1>1, <1>5, <1>7, <2>1
    <2> QED BY <1>1, <1>4, <1>5, <1>6, <1>7, <2>1, <2>2, <2>3
  <1>8. ASSUME NEW w \in Servers, W = {w}
        PROVE  /\ W # {} /\ {held'[v] : v \in W} = {held'[w]} /\ \A v \in W : v = w
    BY <1>8
  <1>9. CASE \E w \in Servers : W = {w}
    <2>1. PICK w \in Servers : W = {w} BY <1>9
    <2> QED BY <1>7, <1>8, <2>1
  <1> QED BY <1>3, <1>9 DEF HandsOver, AtMostOne

\* A handover keeps the store, the servers and the log in one order, and leaves the
\* pending pallets their places: the server that gets the oldest item is the last of
\* the servers to take its own.
LEMMA HandsOverKeeps ==
    ASSUME TypeOK, HandoverInv, LogInv, FifoInv, RoomInv, SameOrder,
           NEW W \in SUBSET Servers, HandsOver(W)
    PROVE  FifoInv' /\ RoomInv'
  <1> DEFINE R(x) == Rank(x)
             N(x) == RankIn(staged_log', ev', x)
  <1>1. /\ Range(items) \subseteq Coming /\ \A s \in GetsDue : held[s] \in Coming
        /\ \A a \in PutsDue \cup GetsDue : ev[a].no \in Nat /\ ev[a].no <= counter
        /\ counter \in Nat
    BY WaitingHaveRank
  <1>2. \A x, y \in Coming : R(x) < R(y) <=> N(x) < N(y) BY DEF SameOrder
  <1>3. /\ \A i, j \in DOMAIN items : i < j => R(items[i]) < R(items[j])
        /\ \A s \in GetsDue, x \in Range(items) : R(held[s]) < R(x)
        /\ \A s, t \in GetsDue : ev[s].no < ev[t].no => R(held[s]) < R(held[t])
    BY DEF FifoInv
  <1>4. /\ Range(items') \subseteq Range(items)
        /\ \A s \in GetsDue : held'[s] = held[s] /\ ev'[s] = ev[s] /\ s \in GetsDue'
        /\ \A s \in GetsDue' : s \in GetsDue \/ s \in W
        /\ \A w \in W : /\ held'[w] \in Range(items) /\ held'[w] \notin Range(items')
                        /\ ev'[w].no = counter + 1 /\ w \in GetsDue'
                        /\ 1 \in DOMAIN items /\ held'[w] = items[1]
        /\ \A w1, w2 \in W : w1 = w2
        /\ \A i \in DOMAIN items' : \E k \in DOMAIN items : items'[i] = items[k] /\ (W # {} => k = i + 1)
                                                          /\ (W = {} => k = i)
        /\ DOMAIN items' \subseteq Nat
    BY HandedFrom
  <1>5. DOMAIN items = 1..Len(items) /\ Len(items) \in Nat /\ DOMAIN items \subseteq Nat BY DEF TypeOK
  <1>6. \A i \in DOMAIN items : items[i] \in Range(items) BY DEF Range
  <1>7. PutsDue' \subseteq PutsDue /\ PutsDue \subseteq Coming /\ \A p \in PutsDue' : ev'[p] = ev[p]
    BY DEF HandsOver, Coming
  <1> HIDE DEF R, N
  <1>8. \A i, j \in DOMAIN items' : i < j => N(items'[i]) < N(items'[j])
    <2> SUFFICES ASSUME NEW i \in DOMAIN items', NEW j \in DOMAIN items', i < j
                 PROVE  N(items'[i]) < N(items'[j])
      OBVIOUS
    <2>1. PICK k \in DOMAIN items : items'[i] = items[k] /\ (W # {} => k = i + 1) /\ (W = {} => k = i)
      BY <1>4
    <2>2. PICK l \in DOMAIN items : items'[j] = items[l] /\ (W # {} => l = j + 1) /\ (W = {} => l = j)
      BY <1>4
    <2>3. k < l BY <1>4, <1>5, <2>1, <2>2
    <2> QED BY <1>1, <1>2, <1>3, <1>6, <2>1, <2>2, <2>3
  <1>9. \A w \in W, x \in Range(items') : N(held'[w]) < N(x)
    <2> SUFFICES ASSUME NEW w \in W, NEW x \in Range(items') PROVE N(held'[w]) < N(x)
      OBVIOUS
    <2>1. PICK k \in DOMAIN items : items[k] = x BY <1>4 DEF Range
    <2>2. k # 1 BY <1>4, <2>1
    <2>3. 1 < k BY <1>5, <2>2
    <2> QED BY <1>1, <1>2, <1>3, <1>4, <1>6, <2>1, <2>3
  <1>10. \A s \in GetsDue', x \in Range(items') : N(held'[s]) < N(x)
    BY <1>1, <1>2, <1>3, <1>4, <1>9
  <1>11. \A s, t \in GetsDue' : ev'[s].no < ev'[t].no => N(held'[s]) < N(held'[t])
    <2> SUFFICES ASSUME NEW s \in GetsDue', NEW t \in GetsDue', ev'[s].no < ev'[t].no
                 PROVE  N(held'[s]) < N(held'[t])
      OBVIOUS
    <2>1. CASE s \in GetsDue /\ t \in GetsDue BY <1>1, <1>2, <1>3, <1>4, <2>1
    <2>2. CASE s \in GetsDue /\ t \in W
      <3>1. held'[s] = held[s] /\ held'[t] \in Range(items) BY <1>4, <2>2
      <3>2. R(held[s]) < R(held'[t]) BY <1>3, <2>2, <3>1
      <3> QED BY <1>1, <1>2, <2>2, <3>1, <3>2
    <2>3. CASE s \in W /\ t \in GetsDue
      <3>1. ev'[s].no = counter + 1 /\ ev'[t].no = ev[t].no BY <1>4, <2>3
      <3>2. ev[t].no \in Nat /\ ev[t].no <= counter BY <1>1, <2>3
      <3> QED BY <1>1, <3>1, <3>2
    <2>4. CASE s \in W /\ t \in W
      <3>1. ev'[s].no = counter + 1 /\ ev'[t].no = counter + 1 BY <1>4, <2>4
      <3> QED BY <1>1, <3>1
    <2> QED BY <1>4, <2>1, <2>2, <2>3, <2>4
  <1>12. FifoInv' BY <1>8, <1>10, <1>11 DEF FifoInv, Rank, N
  <1>13. ASSUME NEW y \in PutsDue' PROVE Cardinality(Ahead(y)') < StagingCapacity
    <2> DEFINE A == Ahead(y)
               B == Ahead(y)'
    <2>1. B = {x \in Pallets : /\ N(x) < N(y)
                               /\ \/ x \in Range(items')
                                  \/ \E s \in GetsDue' : held'[s] = x /\ ev'[y].no < ev'[s].no}
      BY DEF Ahead, Rank, N
    <2>2. A = {x \in Pallets : /\ R(x) < R(y)
                               /\ \/ x \in Range(items)
                                  \/ \E s \in GetsDue : held[s] = x /\ ev[y].no < ev[s].no}
      BY DEF Ahead, R
    <2> HIDE DEF A, B
    <2>3. ASSUME NEW x \in B PROVE x \in A
      <3>1. x \in Pallets /\ N(x) < N(y) BY <2>1
      <3>2. CASE x \in Range(items')
        BY <1>1, <1>2, <1>4, <1>7, <2>2, <3>1, <3>2
      <3>3. ASSUME NEW s \in GetsDue', held'[s] = x, ev'[y].no < ev'[s].no PROVE x \in A
        <4>1. CASE s \in GetsDue BY <1>1, <1>2, <1>4, <1>7, <2>2, <3>1, <3>3, <4>1
        <4>2. CASE s \in W BY <1>1, <1>2, <1>4, <1>7, <2>2, <3>1, <3>3, <4>2
        <4> QED BY <1>4, <4>1, <4>2
      <3> QED BY <2>1, <3>2, <3>3
    <2>4. A \subseteq Pallets /\ B \subseteq A BY <2>2, <2>3
    <2>5. Cardinality(A) < StagingCapacity BY <1>7 DEF RoomInv, A
    <2>6. IsFiniteSet(A) /\ Cardinality(A) \in Nat /\ Cardinality(B) \in Nat BY <2>4, FiniteProcs
    <2>7. Cardinality(B) <= Cardinality(A) BY <2>4, <2>6, FS_Subset
    <2>8. Cardinality(B) < StagingCapacity BY <2>5, <2>6, <2>7, SpecAssumption
    <2> QED BY <2>8 DEF B
  <1>14. RoomInv' BY <1>13 DEF RoomInv
  <1> QED BY <1>12, <1>14

\* The items of a store are not more than its length says.
LEMMA RangeCount ==
    ASSUME NEW q \in Seq(Pallets)
    PROVE  Cardinality(Range(q)) <= Len(q)
  <1>1. Len(q) \in Nat /\ DOMAIN q = 1..Len(q) /\ q \in [1..Len(q) -> Range(q)]
    BY DEF Range
  <1>2. \A y \in Range(q) : \E i \in 1..Len(q) : q[i] = y BY <1>1 DEF Range
  <1>3. q \in Surjection(1..Len(q), Range(q)) BY <1>1, <1>2 DEF Surjection
  <1>4. ExistsSurjection(1..Len(q), Range(q)) BY <1>3 DEF ExistsSurjection
  <1> QED BY <1>1, <1>4, FS_SurjCardinalityBound

\* A pallet let into the store is the last in the order, and has room: whatever is
\* handed over by then is taken before it is staged.
LEMMA LetsInKeeps ==
    ASSUME TypeOK, TypeOK', HandoverInv, LogInv, FifoInv, RoomInv,
           NEW W \in SUBSET Pallets, LetsIn(W)
    PROVE  FifoInv' /\ RoomInv'
  <1> DEFINE R(x) == Rank(x)
             N(x) == RankIn(staged_log', ev', x)
  <1>1. /\ Range(items) \subseteq Coming /\ \A s \in GetsDue : held[s] \in Coming
        /\ \A a \in PutsDue \cup GetsDue : ev[a].no \in Nat /\ ev[a].no <= counter
        /\ counter \in Nat /\ Coming \subseteq Pallets
        /\ \A x \in Coming : R(x) \in Nat
    BY WaitingHaveRank
  <1>2. /\ \A i, j \in DOMAIN items : i < j => R(items[i]) < R(items[j])
        /\ \A s \in GetsDue, x \in Range(items) : R(held[s]) < R(x)
        /\ \A s, t \in GetsDue : ev[s].no < ev[t].no => R(held[s]) < R(held[t])
    BY DEF FifoInv
  <1>3. /\ AtMostOne(W, Pallets) /\ W \cap Coming = {}
        /\ PutsDue' = PutsDue \cup W /\ GetsDue' \subseteq GetsDue
        /\ \A a \in GetsDue' \cup PutsDue : ev'[a] = ev[a]
        /\ \A w \in W : ev'[w].no = counter + 1
        /\ W = {} => items' = items
        /\ \A w \in W : Len(items) < StagingCapacity /\ items' = Append(items, w)
        /\ held' = held /\ staged_log' = staged_log
    BY DEF LetsIn
  <1>4. /\ items \in Seq(Pallets) /\ DOMAIN items = 1..Len(items) /\ Len(items) \in Nat
        /\ staged_log \in Seq(Pallets) /\ Distinct(staged_log) /\ Len(staged_log) \in Nat
        /\ ev \in [Procs -> [at : Nat, no : Nat]] /\ ev' \in [Procs -> [at : Nat, no : Nat]]
    BY SMTT(60) DEF TypeOK, LogInv
  <1>5. PutsDue \subseteq Coming /\ Coming = Range(staged_log) \cup PutsDue BY DEF Coming
  <1>6. \A x \in Coming : N(x) = R(x)
    <2>1. \A x \in Range(staged_log) : N(x) = R(x) BY <1>3 DEF Rank, RankIn
    <2>2. \A x \in PutsDue : x \notin Range(staged_log) => N(x) = R(x) BY <1>3 DEF Rank, RankIn
    <2> QED BY <1>5, <2>1, <2>2
  <1>7. \A w \in W : N(w) = Len(staged_log) + 1 + (counter + 1)
    <2>1. \A w \in W : w \in Pallets /\ w \notin Range(staged_log) BY <1>3, <1>5
    <2>2. \A w \in W : N(w) = Len(staged_log) + 1 + ev'[w].no BY <1>3, <2>1 DEF RankIn
    <2> QED BY <1>3, <2>2
  <1>8. \A x \in Coming : R(x) <= Len(staged_log) + 1 + counter
    <2>1. \A x \in Range(staged_log) : R(x) \in Nat /\ R(x) <= Len(staged_log)
      BY <1>4, RankIs DEF Rank
    <2>2. \A x \in PutsDue : x \notin Range(staged_log) => R(x) = Len(staged_log) + 1 + ev[x].no
      BY DEF Rank, RankIn
    <2> HIDE DEF R
    <2> SUFFICES ASSUME NEW x \in Coming PROVE R(x) <= Len(staged_log) + 1 + counter OBVIOUS
    <2>3. CASE x \in Range(staged_log) BY <1>1, <1>4, <2>1, <2>3
    <2>4. CASE x \notin Range(staged_log)
      <3>1. x \in PutsDue /\ ev[x].no \in Nat /\ ev[x].no <= counter BY <1>1, <1>5, <2>4
      <3> QED BY <1>1, <1>4, <2>2, <2>4, <3>1
    <2> QED BY <2>3, <2>4
  <1> HIDE DEF R, N
  <1>9. \A x \in Coming, w \in W : N(x) < N(w)
    <2> SUFFICES ASSUME NEW x \in Coming, NEW w \in W PROVE N(x) < N(w) OBVIOUS
    <2>1. R(x) \in Nat /\ R(x) <= Len(staged_log) + 1 + counter BY <1>1, <1>8
    <2>2. N(w) = Len(staged_log) + 1 + (counter + 1) /\ N(x) = R(x) BY <1>6, <1>7
    <2> QED BY <1>1, <1>4, <2>1, <2>2
  <1>10. \A i \in DOMAIN items : items[i] \in Range(items) BY DEF Range
  <1>11. /\ Range(items') = Range(items) \cup W
         /\ \A i, j \in DOMAIN items' : i < j => i \in DOMAIN items /\ items'[i] = items[i]
         /\ \A j \in DOMAIN items' : \/ j \in DOMAIN items /\ items'[j] = items[j]
                                     \/ items'[j] \in W
    <2>1. CASE W = {}
      <3>1. items' = items BY <1>3, <2>1
      <3> QED BY <2>1, <3>1
    <2>2. ASSUME NEW w \in Pallets, W = {w}
          PROVE  /\ Range(items') = Range(items) \cup W
                 /\ \A i, j \in DOMAIN items' : i < j => i \in DOMAIN items /\ items'[i] = items[i]
                 /\ \A j \in DOMAIN items' : \/ j \in DOMAIN items /\ items'[j] = items[j]
                                             \/ items'[j] \in W
      <3>1. items' = Append(items, w) BY <1>3, <2>2
      <3>2. Range(items') = Range(items) \cup {w} BY <1>4, <3>1, RangeAppend
      <3>3. /\ DOMAIN items' = 1..Len(items)+1 /\ items'[Len(items)+1] = w
            /\ \A i \in 1..Len(items) : items'[i] = items[i]
        BY <1>4, <3>1, AppendType
      <3> QED BY <1>4, <2>2, <3>2, <3>3
    <2> QED BY <1>3, <2>1, <2>2 DEF AtMostOne
  <1>12. \A i, j \in DOMAIN items' : i < j => N(items'[i]) < N(items'[j])
    <2> SUFFICES ASSUME NEW i \in DOMAIN items', NEW j \in DOMAIN items', i < j
                 PROVE  N(items'[i]) < N(items'[j])
      OBVIOUS
    <2>1. i \in DOMAIN items /\ items'[i] = items[i] /\ items[i] \in Coming BY <1>1, <1>10, <1>11
    <2>2. CASE items'[j] \in W BY <1>9, <2>1, <2>2
    <2>3. CASE j \in DOMAIN items /\ items'[j] = items[j]
      <3>1. items[j] \in Coming BY <1>1, <1>10, <2>3
      <3> QED BY <1>2, <1>6, <2>1, <2>3, <3>1
    <2> QED BY <1>11, <2>2, <2>3
  <1>13. \A s \in GetsDue', x \in Range(items') : N(held'[s]) < N(x)
    <2> SUFFICES ASSUME NEW s \in GetsDue', NEW x \in Range(items') PROVE N(held'[s]) < N(x)
      OBVIOUS
    <2>1. s \in GetsDue /\ held'[s] = held[s] /\ held[s] \in Coming BY <1>1, <1>3
    <2>2. CASE x \in W BY <1>9, <2>1, <2>2
    <2>3. CASE x \in Range(items) BY <1>1, <1>2, <1>6, <2>1, <2>3
    <2> QED BY <1>11, <2>2, <2>3
  <1>14. \A s, t \in GetsDue' : ev'[s].no < ev'[t].no => N(held'[s]) < N(held'[t])
    BY <1>1, <1>2, <1>3, <1>6
  <1>15. FifoInv' BY <1>12, <1>13, <1>14 DEF FifoInv, Rank, N
  <1>16. ASSUME NEW y \in PutsDue' PROVE Cardinality(Ahead(y)') < StagingCapacity
    <2> DEFINE B == Ahead(y)'
    <2>1. B = {x \in Pallets : /\ N(x) < N(y)
                               /\ \/ x \in Range(items')
                                  \/ \E s \in GetsDue' : held'[s] = x /\ ev'[y].no < ev'[s].no}
      BY DEF Ahead, Rank, N
    <2>2. CASE y \in W
      <3> DEFINE A == Range(items)
      <3> HIDE DEF B
      <3>1. ASSUME NEW x \in B PROVE x \in A
        <4>1. CASE x \in Range(items')
          <5>1. x \in A \/ x \in W BY <1>11, <4>1
          <5>2. \A w \in W : w = y BY <1>3, <2>2 DEF AtMostOne
          <5>3. x # y
            <6>1. N(x) < N(y) BY <2>1
            <6>2. N(y) \in Nat BY <1>1, <1>4, <1>7, <2>2
            <6> QED BY <6>1, <6>2
          <5> QED BY <5>1, <5>2, <5>3
        <4>2. ASSUME NEW s \in GetsDue', ev'[y].no < ev'[s].no PROVE FALSE
          <5>1. ev'[y].no = counter + 1 /\ ev'[s].no = ev[s].no BY <1>3, <2>2
          <5>2. ev[s].no \in Nat /\ ev[s].no <= counter BY <1>1, <1>3
          <5> QED BY <1>1, <4>2, <5>1, <5>2
        <4> QED BY <2>1, <4>1, <4>2
      <3>2. A \subseteq Pallets /\ B \subseteq A BY <1>4, <3>1 DEF Range
      <3>3. Cardinality(A) <= Len(items) BY <1>4, RangeCount
      <3> HIDE DEF A
      <3>4. IsFiniteSet(A) /\ Cardinality(A) \in Nat /\ Cardinality(B) \in Nat BY <3>2, FiniteProcs
      <3>5. Cardinality(B) <= Cardinality(A) BY <3>2, <3>4, FS_Subset
      <3>6. Len(items) < StagingCapacity BY <1>3, <2>2
      <3>7. Cardinality(B) < StagingCapacity BY <1>4, <3>3, <3>4, <3>5, <3>6, SpecAssumption
      <3> QED BY <3>7 DEF B
    <2>3. CASE y \in PutsDue
      <3> DEFINE A == Ahead(y)
      <3>1. A = {x \in Pallets : /\ R(x) < R(y)
                                 /\ \/ x \in Range(items)
                                    \/ \E s \in GetsDue : held[s] = x /\ ev[y].no < ev[s].no}
        BY DEF Ahead, R
      <3> HIDE DEF A, B
      <3>2. y \in Coming /\ N(y) = R(y) /\ R(y) \in Nat /\ ev'[y] = ev[y] BY <1>1, <1>3, <1>5, <1>6, <2>3
      <3>3. ASSUME NEW x \in B PROVE x \in A
        <4>1. x \in Pallets /\ N(x) < N(y) BY <2>1
        <4>2. CASE x \in Range(items')
          <5>1. x \notin W
            <6>1. ASSUME x \in W PROVE FALSE
              <7>1. N(y) < N(x) BY <1>9, <3>2, <6>1
              <7>2. N(x) \in Nat BY <1>1, <1>4, <1>7, <6>1
              <7> QED BY <3>2, <4>1, <7>1, <7>2
            <6> QED BY <6>1
          <5>2. x \in Range(items) /\ x \in Coming BY <1>1, <1>11, <4>2, <5>1
          <5> QED BY <1>6, <3>1, <3>2, <4>1, <5>2
        <4>3. ASSUME NEW s \in GetsDue', held'[s] = x, ev'[y].no < ev'[s].no PROVE x \in A
          <5>1. s \in GetsDue /\ held[s] = x /\ x \in Coming /\ ev'[s] = ev[s] BY <1>1, <1>3, <4>3
          <5> QED BY <1>6, <3>1, <3>2, <4>1, <4>3, <5>1
        <4> QED BY <2>1, <4>2, <4>3
      <3>4. A \subseteq Pallets /\ B \subseteq A BY <3>1, <3>3
      <3>5. Cardinality(A) < StagingCapacity BY <2>3 DEF RoomInv, A
      <3>6. IsFiniteSet(A) /\ Cardinality(A) \in Nat /\ Cardinality(B) \in Nat BY <3>4, FiniteProcs
      <3>7. Cardinality(B) <= Cardinality(A) BY <3>4, <3>6, FS_Subset
      <3>8. Cardinality(B) < StagingCapacity BY <3>5, <3>6, <3>7, SpecAssumption
      <3> QED BY <3>8 DEF B
    <2> QED BY <1>3, <2>2, <2>3
  <1>17. RoomInv' BY <1>16 DEF RoomInv
  <1> QED BY <1>15, <1>17
-----------------------------------------------------------------------------
(* The order of the pallets from step to step.                             *)

\* A pending pallet is not in the log yet.
LEMMA PendingNotLogged ==
    ASSUME HandoverInv, LogInv
    PROVE  \A p \in PutsDue : p \in Pallets /\ p \notin Range(staged_log) /\ pallet_state[p] = "UNLOADING"
  BY DEF HandoverInv, PcInv, PutsDue, PutPending, LogInv

\* A step that stages no pallet changes no rank.
LEMMA OrderKept ==
    ASSUME UNCHANGED staged_log, \A p \in PutsDue : p \notin Range(staged_log) => ev'[p] = ev[p]
    PROVE  SameOrder
  <1>1. \A x \in Range(staged_log) : RankIn(staged_log', ev', x) = Rank(x) BY DEF Rank, RankIn
  <1>2. \A x \in PutsDue : x \notin Range(staged_log) => RankIn(staged_log', ev', x) = Rank(x)
    BY DEF Rank, RankIn
  <1> QED BY <1>1, <1>2 DEF SameOrder, Coming

\* A pallet that is staged goes from the first place behind the log to its end.
LEMMA OrderStaged ==
    ASSUME TypeOK, TypeOK', HandoverInv, DueInv, LogInv, NEW p \in PutsDue, Fires(p, pc[p]),
           staged_log' = Append(staged_log, p), \A x \in PutsDue : x # p => ev'[x] = ev[x]
    PROVE  SameOrder /\ Distinct(staged_log') /\ Range(staged_log') = Range(staged_log) \cup {p}
  <1> DEFINE R(x) == Rank(x)
             N(x) == RankIn(staged_log', ev', x)
             L == Len(staged_log)
  <1>1. /\ staged_log \in Seq(Pallets) /\ Distinct(staged_log) /\ L \in Nat
        /\ ev \in [Procs -> [at : Nat, no : Nat]] /\ ev' \in [Procs -> [at : Nat, no : Nat]]
    <2>1. staged_log \in Seq(Pallets) /\ ev \in [Procs -> [at : Nat, no : Nat]] BY DEF TypeOK
    <2>2. ev' \in [Procs -> [at : Nat, no : Nat]] BY DEF TypeOK
    <2>3. L \in Nat BY <2>1
    <2> QED BY <2>1, <2>2, <2>3 DEF LogInv
  <1>2. p \in Pallets /\ p \notin Range(staged_log) BY PendingNotLogged
  <1>3. /\ Distinct(staged_log') /\ Range(staged_log') = Range(staged_log) \cup {p}
        /\ staged_log' \in Seq(Pallets) /\ Len(staged_log') = L + 1
        /\ staged_log'[L + 1] = p /\ DOMAIN staged_log' = 1..L+1
        /\ DOMAIN staged_log = 1..L
        /\ \A i \in 1..L : staged_log'[i] = staged_log[i]
    BY <1>1, <1>2, RangeAppend, AppendType
  <1>4. \A y \in PutsDue : y # p => ev[p].no < ev[y].no BY FiresOldest
  <1>5. \A x \in Range(staged_log) : R(x) \in 1..L /\ staged_log[R(x)] = x
    BY <1>1, <1>3, RankIs DEF Rank
  <1>6. \A x \in Range(staged_log) : N(x) = R(x)
    <2> SUFFICES ASSUME NEW x \in Range(staged_log) PROVE N(x) = R(x) OBVIOUS
    <2>1. R(x) \in DOMAIN staged_log' /\ staged_log'[R(x)] = x BY <1>1, <1>3, <1>5
    <2> QED BY <1>1, <1>3, <2>1, RankIs
  <1>7. N(p) = L + 1
    <2>1. L + 1 \in DOMAIN staged_log' BY <1>1, <1>3
    <2> QED BY <1>1, <1>3, <2>1, RankIs
  <1>8. \A y \in PutsDue : R(y) = L + 1 + ev[y].no /\ ev[y].no \in Nat
    <2>1. \A y \in PutsDue : y \notin Range(staged_log) /\ y \in Procs BY PendingNotLogged, ProcsSplit
    <2>2. \A y \in PutsDue : R(y) = L + 1 + ev[y].no BY <2>1 DEF Rank, RankIn
    <2> QED BY <1>1, <2>1, <2>2
  <1>9. \A y \in PutsDue : y # p => N(y) = L + 2 + ev[y].no
    <2>1. \A y \in PutsDue : y # p => y \notin Range(staged_log') BY <1>3, PendingNotLogged
    <2>2. \A y \in PutsDue : y # p => N(y) = Len(staged_log') + 1 + ev'[y].no BY <2>1 DEF RankIn
    <2> HIDE DEF N, L
    <2>3. L + 1 + 1 = L + 2 /\ Len(staged_log') + 1 = L + 2 BY <1>1, <1>3
    <2>4. \A y \in PutsDue : y # p => N(y) = L + 2 + ev'[y].no BY <2>2, <2>3
    <2> QED BY <2>4
  <1> HIDE DEF R, N, L
  <1>10. ASSUME NEW x \in Coming, NEW y \in Coming PROVE R(x) < R(y) <=> N(x) < N(y)
    <2>1. CASE x \in Range(staged_log) /\ y \in Range(staged_log) BY <1>6, <2>1
    <2>2. CASE x \in Range(staged_log) /\ y \in PutsDue
      <3>1. R(x) \in Nat /\ R(x) <= L /\ N(x) = R(x) BY <1>1, <1>5, <1>6, <2>2
      <3>2. R(y) > L /\ N(y) > L BY <1>1, <1>7, <1>8, <1>9, <2>2
      <3>3. R(y) \in Nat /\ N(y) \in Nat BY <1>1, <1>7, <1>8, <1>9, <2>2
      <3> QED BY <1>1, <3>1, <3>2, <3>3
    <2>3. CASE x \in PutsDue /\ y \in Range(staged_log)
      <3>1. R(y) \in Nat /\ R(y) <= L /\ N(y) = R(y) BY <1>1, <1>5, <1>6, <2>3
      <3>2. R(x) > L /\ N(x) > L BY <1>1, <1>7, <1>8, <1>9, <2>3
      <3>3. R(x) \in Nat /\ N(x) \in Nat BY <1>1, <1>7, <1>8, <1>9, <2>3
      <3> QED BY <1>1, <3>1, <3>2, <3>3
    <2>4. CASE x \in PutsDue /\ y \in PutsDue
      <3>1. R(x) = L + 1 + ev[x].no /\ ev[x].no \in Nat /\ R(y) = L + 1 + ev[y].no /\ ev[y].no \in Nat
        BY <1>8, <2>4
      <3>2. CASE x = p /\ y = p BY <1>1, <1>7, <3>1, <3>2
      <3>3. CASE x = p /\ y # p BY <1>1, <1>4, <1>7, <1>9, <2>4, <3>1, <3>3, SMTT(60)
      <3>4. CASE x # p /\ y = p BY <1>1, <1>4, <1>7, <1>9, <2>4, <3>1, <3>4, SMTT(60)
      <3>5. CASE x # p /\ y # p BY <1>1, <1>9, <2>4, <3>1, <3>5
      <3> QED BY <3>2, <3>3, <3>4, <3>5
    <2> QED BY <2>1, <2>2, <2>3, <2>4 DEF Coming
  <1>11. SameOrder BY <1>10 DEF SameOrder, R, N
  <1> QED BY <1>3, <1>11

\* A step that neither stages nor takes a pallet keeps the log as it is.
LEMMA LogKept ==
    ASSUME LogInv, UNCHANGED staged_log,
           \A x \in Pallets : /\ pallet_state'[x] = "STAGED" <=> pallet_state[x] = "STAGED"
                              /\ x \in Taken' <=> x \in Taken
    PROVE  LogInv' /\ Taken' = Taken
  <1>1. Taken' = Taken BY DEF Taken
  <1>2. \A x \in Pallets : pallet_state'[x] \in {"STAGED", "AWAITING_PUTAWAY", "STORED"}
                             <=> pallet_state[x] \in {"STAGED", "AWAITING_PUTAWAY", "STORED"}
    BY DEF Taken
  <1> QED BY <1>1, <1>2 DEF LogInv

\* A handover leaves the pallets that wait waiting.
LEMMA HandedWait ==
    ASSUME TypeOK, HandoverInv, NEW W \in SUBSET Servers, HandsOver(W)
    PROVE  Waiting' = Waiting
  <1>1. /\ \A s \in GetsDue : held'[s] = held[s] /\ s \in GetsDue'
        /\ \A s \in GetsDue' : s \in GetsDue \/ s \in W
        /\ \A w \in W : w \in GetsDue'
        /\ Range(items) = Range(items') \cup {held'[w] : w \in W}
    BY HandedFrom
  <1>2. {held'[s] : s \in GetsDue'} = {held[s] : s \in GetsDue} \cup {held'[w] : w \in W}
    BY <1>1
  <1>3. Waiting' = Range(items') \cup {held'[s] : s \in GetsDue'} BY DEF Waiting
  <1> QED BY <1>1, <1>2, <1>3 DEF Waiting

\* A step that leaves the store, its events and the pallets behind it alone.
Aside ==
    /\ UNCHANGED <<items, held, staged_log>>
    /\ \A x \in Pallets : x \in PutsDue' <=> x \in PutsDue
    /\ \A x \in PutsDue : ev'[x] = ev[x]
    /\ \A s \in Servers : pc'[s] = pc[s] /\ ev'[s] = ev[s]
    /\ \A x \in Pallets : \/ pallet_state'[x] = pallet_state[x]
                          \/ {pallet_state'[x], pallet_state[x]} \cap {"STAGED", "AWAITING_PUTAWAY", "STORED"} = {}

\* Such a step keeps the order.
LEMMA AsideKeeps ==
    ASSUME TypeOK, HandoverInv, OrderInv, Aside
    PROVE  OrderInv'
  <1>1. /\ items' = items /\ held' = held /\ staged_log' = staged_log
        /\ \A x \in Pallets : x \in PutsDue' <=> x \in PutsDue
        /\ \A x \in PutsDue : ev'[x] = ev[x]
        /\ \A s \in Servers : pc'[s] = pc[s] /\ ev'[s] = ev[s]
    BY DEF Aside
  <1>2. PutsDue' = PutsDue /\ GetsDue' = GetsDue
    <2>1. PutsDue \subseteq Pallets /\ PutsDue' \subseteq Pallets BY DEF PutsDue
    <2> QED BY <1>1, <2>1 DEF GetsDue
  <1>3. HandsOver({})
    <2>1. GetsDue \subseteq Servers BY DEF GetsDue
    <2> QED BY <1>1, <1>2, <2>1 DEF HandsOver, AtMostOne
  <1>4. SameOrder BY <1>1, OrderKept
  <1>5. FifoInv' /\ RoomInv' BY <1>3, <1>4, HandsOverKeeps DEF OrderInv
  <1>6. \A x \in Pallets : \A st \in {"STAGED", "AWAITING_PUTAWAY", "STORED"} :
            pallet_state'[x] = st <=> pallet_state[x] = st
    BY DEF Aside
  <1>7. LogInv' BY <1>1, <1>6, LogKept DEF OrderInv, Taken
  <1>8. Waiting' = Waiting BY <1>3, HandedWait
  <1>9. WaitingInv' BY <1>1, <1>2, <1>6, <1>8 DEF OrderInv, WaitingInv
  <1> QED BY <1>5, <1>7, <1>9 DEF OrderInv

\* An arrival, a release of an unload server, the start of unloading and the wait for a
\* release time leave the store alone.
LEMMA DockStepsAside ==
    ASSUME TypeOK, HandoverInv, HandoverInv', OrderInv, NEW p \in Pallets,
           Arrive(p) \/ Freed(p) \/ StartUnload(p) \/ AwaitRelease(p)
    PROVE  OrderInv'
  <1>0. pallet_state \in [Pallets -> PalletState] BY DEF TypeOK
  <1>1. CASE Arrive(p)
    <2>1. PICK W \in SUBSET Pallets : Arrives(p, W) BY <1>1, ArriveDoes
    <2>2. /\ \A w \in W : w = p \/ pc[w] = "requesting"
          /\ pc[p] \in {"init", "release"}
          /\ \A x \in Pallets : pc'[x] = IF x \in W THEN "request"
                                         ELSE IF x = p THEN "requesting" ELSE pc[x]
          /\ \A x \in Pallets : x \notin W /\ x # p => ev'[x] = ev[x]
          /\ \A x \in Servers : pc'[x] = pc[x] /\ ev'[x] = ev[x]
          /\ pallet_state[p] = "EXPECTED"
          /\ pallet_state' = [pallet_state EXCEPT ![p] = "ON_TRUCK"]
          /\ UNCHANGED <<items, held, staged_log>>
      BY <2>1 DEF Arrives
    <2>3. Aside
      <3>1. \A x \in Pallets : x \in PutsDue' <=> x \in PutsDue BY <2>2 DEF PutsDue, PutPending
      <3>2. \A x \in PutsDue : ev'[x] = ev[x] BY <2>2 DEF PutsDue, PutPending
      <3> QED BY <1>0, <2>2, <3>1, <3>2 DEF Aside
    <2> QED BY <2>3, AsideKeeps
  <1>2. CASE Freed(p)
    <2>1. PICK W \in SUBSET Pallets : Frees(p, W) BY <1>2, FreedDoes
    <2>2. /\ \A w \in W : pc[w] = "requesting"
          /\ pc[p] = "freed"
          /\ \A x \in Pallets : pc'[x] = IF x \in W THEN "request"
                                         ELSE IF x = p THEN "ended" ELSE pc[x]
          /\ \A x \in Pallets : x \notin W /\ x # p => ev'[x] = ev[x]
          /\ \A x \in Servers : pc'[x] = pc[x] /\ ev'[x] = ev[x]
          /\ UNCHANGED <<items, held, staged_log, pallet_state>>
      BY <2>1 DEF Frees
    <2>3. Aside
      <3>1. \A x \in Pallets : x \in PutsDue' <=> x \in PutsDue BY <2>2 DEF PutsDue, PutPending
      <3>2. \A x \in PutsDue : ev'[x] = ev[x] BY <2>2 DEF PutsDue, PutPending
      <3> QED BY <2>2, <3>1, <3>2 DEF Aside
    <2> QED BY <2>3, AsideKeeps
  <1>3. CASE StartUnload(p) \/ AwaitRelease(p)
    <2>1. /\ \A x \in Pallets : x # p => pc'[x] = pc[x] /\ ev'[x] = ev[x]
          /\ \A x \in Servers : pc'[x] = pc[x] /\ ev'[x] = ev[x]
          /\ UNCHANGED <<items, held, staged_log>>
          /\ pc[p] \in {"request", "init"} /\ pc'[p] \in {"service", "release"}
          /\ \/ /\ pallet_state[p] = "ON_TRUCK"
                /\ pallet_state' = [pallet_state EXCEPT ![p] = "UNLOADING"]
             \/ UNCHANGED pallet_state
      BY <1>3, OwnMoveDoes
    <2>2. Aside
      <3>1. \A x \in Pallets : x \in PutsDue' <=> x \in PutsDue BY <2>1 DEF PutsDue, PutPending
      <3>2. \A x \in PutsDue : ev'[x] = ev[x] BY <2>1 DEF PutsDue, PutPending
      <3> QED BY <1>0, <2>1, <3>1, <3>2 DEF Aside
    <2> QED BY <2>2, AsideKeeps
  <1> QED BY <1>1, <1>2, <1>3

\* A pallet that is offered to the store goes behind all others, or blocks.
LEMMA FinishUnloadOrder ==
    ASSUME TypeOK, TypeOK', HandoverInv, OrderInv, NEW p \in Pallets, FinishUnload(p)
    PROVE  OrderInv'
  <1>1. PICK W \in SUBSET Pallets : Offers(p, W) BY FinishUnloadDoes
  <1>2. /\ AtMostOne(W, Pallets) /\ \A w \in W : w = p \/ pc[w] = "putting"
        /\ pc[p] = "service"
        /\ \A x \in Pallets : pc'[x] = IF x \in W THEN IF p \in W THEN "put" ELSE "unblocked"
                                       ELSE IF x = p THEN "putting" ELSE pc[x]
        /\ \A x \in Pallets : /\ x \in W => ev'[x].no = counter + 1
                              /\ x \notin W /\ x # p => ev'[x] = ev[x]
        /\ \A x \in Servers : pc'[x] = pc[x] /\ ev'[x] = ev[x]
        /\ W = {} => items' = items
        /\ W # {} => Len(items) < StagingCapacity
        /\ \A w \in W : items' = Append(items, w)
        /\ UNCHANGED <<held, staged_log, pallet_state>>
    BY <1>1 DEF Offers
  <1>3. \A w \in W : w \in Pallets /\ w \notin Coming
    <2>1. \A w \in W : pc[w] \in {"service", "putting"} BY <1>2
    <2>2. \A w \in W : pallet_state[w] = "UNLOADING" /\ w \notin PutsDue
      BY <2>1 DEF HandoverInv, PcInv, PutsDue, PutPending
    <2> QED BY <2>2 DEF OrderInv, LogInv, Coming
  <1>4. PutsDue' = PutsDue \cup W /\ GetsDue' = GetsDue
    BY <1>2 DEF PutsDue, GetsDue, PutPending
  <1>5. LetsIn(W)
    <2>1. \A a \in GetsDue' \cup PutsDue : ev'[a] = ev[a]
      <3>1. \A x \in PutsDue : x \in Pallets /\ x \notin W /\ x # p
        BY <1>2 DEF PutsDue, PutPending
      <3> QED BY <1>2, <1>4, <3>1 DEF GetsDue
    <2>2. W \cap Coming = {} BY <1>3
    <2>3. /\ \A w \in W : ev'[w].no = counter + 1
          /\ \A w \in W : Len(items) < StagingCapacity /\ items' = Append(items, w)
      BY <1>2
    <2> QED BY <1>2, <1>4, <2>1, <2>2, <2>3 DEF LetsIn
  <1>6. FifoInv' /\ RoomInv' BY <1>5, LetsInKeeps DEF OrderInv
  <1>7. LogInv' BY <1>2, LogKept DEF OrderInv, Taken
  <1>8. Range(items) \cup W \subseteq Range(items')
    <2>1. items \in Seq(Pallets) BY DEF TypeOK
    <2>2. \A w \in Pallets : Range(Append(items, w)) = Range(items) \cup {w} BY <2>1, RangeAppend
    <2>3. \A w \in W : Range(items') = Range(items) \cup {w} BY <1>2, <2>2
    <2> QED BY <1>2, <2>3 DEF AtMostOne
  <1>9. Waiting \cup W \subseteq Waiting'
    <2>1. Waiting' = Range(items') \cup {held[s] : s \in GetsDue} BY <1>2, <1>4 DEF Waiting
    <2> QED BY <1>8, <2>1 DEF Waiting
  <1>10. WaitingInv' BY <1>2, <1>4, <1>9 DEF OrderInv, WaitingInv
  <1> QED BY <1>6, <1>7, <1>10 DEF OrderInv

\* A pallet that is staged joins the log as the order has it.
LEMMA StageOrder ==
    ASSUME TypeOK, TypeOK', HandoverInv, HandoverInv', DueInv, OrderInv, NEW p \in Pallets, Stage(p)
    PROVE  OrderInv'
  <1>1. PICK W \in SUBSET Servers : Stages(p, W) BY StageDoes
  <1>2. /\ AtMostOne(W, Servers) /\ \A w \in W : pc[w] = "getting"
        /\ pc[p] \in PutPending /\ Fires(p, pc[p])
        /\ \A x \in Servers : /\ pc'[x] = IF x \in W THEN "get" ELSE pc[x]
                              /\ x \in W => ev'[x].no = counter + 1
                              /\ x \notin W => ev'[x] = ev[x]
        /\ \A x \in Pallets : /\ pc'[x] = IF x = p THEN "freed" ELSE pc[x]
                              /\ x # p => ev'[x] = ev[x]
        /\ pallet_state[p] = "UNLOADING"
        /\ pallet_state' = [pallet_state EXCEPT ![p] = "STAGED"]
        /\ staged_log' = Append(staged_log, p)
        /\ W = {} => items' = items /\ held' = held
        /\ \A w \in W : /\ items # <<>>
                        /\ items' = Tail(items) /\ held' = [held EXCEPT ![w] = Head(items)]
    BY <1>1 DEF Stages
  <1>3. PutsDue' = PutsDue \ {p} /\ GetsDue' = GetsDue \cup W /\ p \in PutsDue
        /\ W \cap GetsDue = {}
    BY <1>2 DEF PutsDue, GetsDue, PutPending
  <1>4. HandsOver(W)
    <2>1. \A a \in GetsDue \cup PutsDue' : ev'[a] = ev[a]
      <3>1. \A s \in GetsDue : s \in Servers /\ s \notin W BY <1>3 DEF GetsDue
      <3>2. \A x \in PutsDue' : x \in Pallets /\ x # p BY <1>3 DEF PutsDue
      <3> QED BY <1>2, <3>1, <3>2
    <2>2. \A w \in W : ev'[w].no = counter + 1 BY <1>2
    <2> QED BY <1>2, <1>3, <2>1, <2>2 DEF HandsOver
  <1>5. SameOrder /\ Distinct(staged_log') /\ Range(staged_log') = Range(staged_log) \cup {p}
    <2>1. \A x \in PutsDue : x # p => ev'[x] = ev[x] BY <1>2 DEF PutsDue
    <2> QED BY <1>2, <1>3, <2>1, OrderStaged DEF OrderInv
  <1>6. FifoInv' /\ RoomInv' BY <1>4, <1>5, HandsOverKeeps DEF OrderInv
  <1>7. pallet_state \in [Pallets -> PalletState] /\ staged_log \in Seq(Pallets) BY DEF TypeOK
  <1>8. Taken' = Taken /\ p \notin Taken
    <2>1. \A x \in Pallets : pallet_state'[x] = IF x = p THEN "STAGED" ELSE pallet_state[x] BY <1>2, <1>7
    <2>2. \A x \in Pallets : pallet_state'[x] \in {"AWAITING_PUTAWAY", "STORED"}
                               <=> pallet_state[x] \in {"AWAITING_PUTAWAY", "STORED"}
      BY <1>2, <2>1
    <2> QED BY <1>2, <2>2 DEF Taken
  <1>9. LogInv'
    <2>1. Range(staged_log') = {x \in Pallets : pallet_state'[x] \in {"STAGED", "AWAITING_PUTAWAY", "STORED"}}
      <3>1. \A x \in Pallets : pallet_state'[x] = IF x = p THEN "STAGED" ELSE pallet_state[x] BY <1>2, <1>7
      <3> QED BY <1>5, <3>1 DEF OrderInv, LogInv
    <2>2. /\ DOMAIN staged_log' = 1..Len(staged_log)+1 /\ staged_log'[Len(staged_log)+1] = p
          /\ \A i \in 1..Len(staged_log) : staged_log'[i] = staged_log[i]
          /\ DOMAIN staged_log = 1..Len(staged_log) /\ Len(staged_log) \in Nat
      BY <1>2, <1>7, AppendType
    <2>3. Cardinality(Taken) <= Len(staged_log) /\ Cardinality(Taken) \in Nat
      <3>1. Taken \subseteq Range(staged_log) /\ Range(staged_log) \subseteq Pallets
        BY DEF OrderInv, LogInv, Taken
      <3>2. IsFiniteSet(Range(staged_log)) /\ Cardinality(Range(staged_log)) \in Nat
            /\ Cardinality(Taken) \in Nat
        BY <3>1, FiniteProcs
      <3>3. Cardinality(Taken) <= Cardinality(Range(staged_log)) BY <3>1, <3>2, FS_Subset
      <3>4. Cardinality(Range(staged_log)) <= Len(staged_log) BY <1>7, RangeCount
      <3> QED BY <2>2, <3>2, <3>3, <3>4
    <2>4. \A i \in DOMAIN staged_log : staged_log[i] \in Taken <=> i <= Cardinality(Taken)
      BY DEF OrderInv, LogInv
    <2>5. \A i \in DOMAIN staged_log' : staged_log'[i] \in Taken <=> i <= Cardinality(Taken)
      <3> SUFFICES ASSUME NEW i \in DOMAIN staged_log'
                   PROVE  staged_log'[i] \in Taken <=> i <= Cardinality(Taken)
        OBVIOUS
      <3>1. CASE i \in 1..Len(staged_log) BY <2>2, <2>4, <3>1
      <3>2. CASE i = Len(staged_log) + 1
        <4>1. ~(i <= Cardinality(Taken)) BY <2>2, <2>3, <3>2
        <4> QED BY <1>8, <2>2, <3>2, <4>1
      <3> QED BY <2>2, <3>1, <3>2
    <2> QED BY <1>5, <1>8, <2>1, <2>5 DEF LogInv
  <1>10. WaitingInv'
    <2>1. Waiting' = Waiting BY <1>4, HandedWait
    <2>2. \A x \in Pallets : pallet_state'[x] = IF x = p THEN "STAGED" ELSE pallet_state[x] BY <1>2, <1>7
    <2>3. \A x \in Pallets : pallet_state'[x] = "STAGED" \/ x \in PutsDue' => x \in Waiting
      BY <1>3, <2>2 DEF OrderInv, WaitingInv
    <2>4. \A s \in Servers : pc[s] = "service" => pc'[s] = "service" /\ held'[s] = held[s]
      <3>1. held \in [Servers -> Pallets \cup {0}] BY DEF TypeOK
      <3>2. \A s \in Servers : s \notin W => held'[s] = held[s] BY <1>2, <3>1 DEF AtMostOne
      <3> QED BY <1>2, <3>2
    <2>5. \A x \in Pallets : pallet_state'[x] = "AWAITING_PUTAWAY" =>
             \E s \in Servers : pc'[s] = "service" /\ held'[s] = x
      BY <2>2, <2>4 DEF OrderInv, WaitingInv
    <2> QED BY <2>1, <2>3, <2>5 DEF WaitingInv
  <1> QED BY <1>6, <1>9, <1>10 DEF OrderInv

\* A server that asks for its next pallet gets the oldest, having stored the one it had.
LEMMA AsksOrder ==
    ASSUME TypeOK, TypeOK', HandoverInv, HandoverInv', OrderInv, NEW s \in Servers,
           StartServer(s) \/ FinishPutaway(s)
    PROVE  OrderInv'
  <1>1. /\ \E W \in SUBSET Servers : AsksNext(s, W)
        /\ \/ pc[s] = "init" /\ UNCHANGED pallet_state
           \/ /\ pc[s] = "service" /\ held[s] \in Pallets /\ pallet_state[held[s]] = "AWAITING_PUTAWAY"
              /\ pallet_state' = [pallet_state EXCEPT ![held[s]] = "STORED"]
    BY StartServerDoes, FinishPutawayDoes
  <1>2. PICK W \in SUBSET Servers : AsksNext(s, W) BY <1>1
  <1>3. /\ AtMostOne(W, Servers) /\ \A w \in W : w = s \/ pc[w] = "getting"
        /\ \A x \in Servers : /\ pc'[x] = IF x \in W THEN "get" ELSE IF x = s THEN "getting" ELSE pc[x]
                              /\ x \in W => ev'[x].no = counter + 1
                              /\ x \notin W /\ x # s => ev'[x] = ev[x]
        /\ \A x \in Pallets : pc'[x] = pc[x] /\ ev'[x] = ev[x]
        /\ W = {} => items' = items /\ held' = held
        /\ \A w \in W : items # <<>> /\ items' = Tail(items) /\ held' = [held EXCEPT ![w] = Head(items)]
        /\ staged_log' = staged_log
    BY <1>2 DEF AsksNext
  <1>4. PutsDue' = PutsDue BY <1>3 DEF PutsDue
  <1>5. GetsDue' = GetsDue \cup W /\ W \cap GetsDue = {} /\ s \notin GetsDue
    BY <1>1, <1>3 DEF GetsDue
  <1>6. HandsOver(W)
    <2>1. \A a \in GetsDue \cup PutsDue' : ev'[a] = ev[a]
      <3>1. \A a \in GetsDue : a \in Servers /\ a \notin W /\ a # s BY <1>5 DEF GetsDue
      <3>2. \A x \in PutsDue' : x \in Pallets BY <1>4 DEF PutsDue
      <3> QED BY <1>3, <3>1, <3>2
    <2>2. \A w \in W : ev'[w].no = counter + 1 BY <1>3
    <2> QED BY <1>3, <1>4, <1>5, <2>1, <2>2 DEF HandsOver
  <1>7. SameOrder
    <2>1. \A x \in PutsDue : ev'[x] = ev[x] BY <1>3 DEF PutsDue
    <2> QED BY <1>3, <2>1, OrderKept
  <1>8. FifoInv' /\ RoomInv' BY <1>6, <1>7, HandsOverKeeps DEF OrderInv
  <1>9. pallet_state \in [Pallets -> PalletState] /\ held \in [Servers -> Pallets \cup {0}] BY DEF TypeOK
  <1>10. \A x \in Pallets : \/ pallet_state'[x] = pallet_state[x]
                            \/ /\ x = held[s] /\ pc[s] = "service"
                               /\ pallet_state[x] = "AWAITING_PUTAWAY" /\ pallet_state'[x] = "STORED"
    BY <1>1, <1>9
  <1>11. LogInv'
    <2>1. \A x \in Pallets : /\ pallet_state'[x] = "STAGED" <=> pallet_state[x] = "STAGED"
                             /\ x \in Taken' <=> x \in Taken
      BY <1>10 DEF Taken
    <2> QED BY <1>3, <2>1, LogKept DEF OrderInv
  <1>12. WaitingInv'
    <2>1. Waiting' = Waiting BY <1>6, HandedWait
    <2>2. \A x \in Pallets : pallet_state'[x] = "STAGED" \/ x \in PutsDue' => x \in Waiting
      BY <1>4, <1>10 DEF OrderInv, WaitingInv
    <2>3. \A t \in Servers : pc[t] = "service" /\ t # s => pc'[t] = "service" /\ held'[t] = held[t]
      <3>1. \A t \in Servers : t \notin W => held'[t] = held[t] BY <1>3, <1>9 DEF AtMostOne
      <3> QED BY <1>3, <3>1
    <2>4. ASSUME NEW x \in Pallets, pallet_state'[x] = "AWAITING_PUTAWAY"
          PROVE  \E t \in Servers : pc'[t] = "service" /\ held'[t] = x
      <3>1. pallet_state[x] = "AWAITING_PUTAWAY" /\ (pc[s] = "service" => x # held[s])
        <4>1. pallet_state[x] = "AWAITING_PUTAWAY" BY <1>10, <2>4
        <4>2. CASE pc[s] = "service" BY <1>1, <1>9, <2>4, <4>2
        <4> QED BY <4>1, <4>2
      <3>2. PICK t \in Servers : pc[t] = "service" /\ held[t] = x
        BY <3>1 DEF OrderInv, WaitingInv
      <3>3. t # s BY <3>1, <3>2
      <3> QED BY <2>3, <3>2, <3>3
    <2> QED BY <2>1, <2>2, <2>4 DEF WaitingInv
  <1> QED BY <1>8, <1>11, <1>12 DEF OrderInv

\* The pallet a server takes is the oldest that is staged.
LEMMA PulledIsOldest ==
    ASSUME TypeOK, HandoverInv, DueInv, OrderInv, NEW s \in GetsDue, Fires(s, "get"),
           pallet_state[held[s]] = "STAGED", held[s] \in Pallets
    PROVE  /\ Cardinality(Taken) + 1 \in DOMAIN staged_log /\ Cardinality(Taken) \in Nat
           /\ staged_log[Cardinality(Taken) + 1] = held[s]
  <1> DEFINE k == Cardinality(Taken)
             L == Len(staged_log)
  <1>1. /\ staged_log \in Seq(Pallets) /\ ev \in [Procs -> [at : Nat, no : Nat]]
        /\ DOMAIN staged_log = 1..L /\ L \in Nat
    BY DEF TypeOK
  <1>2. k \in Nat
    <2>1. Taken \subseteq Pallets BY DEF Taken
    <2> QED BY <2>1, FiniteProcs
  <1>3. \A i \in 1..L : staged_log[i] \in Taken <=> i <= k BY <1>1 DEF OrderInv, LogInv
  <1>4. held[s] \in Range(staged_log) /\ held[s] \notin Taken BY DEF OrderInv, LogInv, Taken
  <1>5. PICK i \in 1..L : staged_log[i] = held[s] BY <1>1, <1>4 DEF Range
  <1>6. \A j \in 1..L : Rank(staged_log[j]) = j
    <2>1. Distinct(staged_log) BY DEF OrderInv, LogInv
    <2> QED BY <1>1, <2>1, RankIs DEF Rank
  <1> HIDE DEF k, L
  <1>7. ~(i <= k) BY <1>3, <1>4, <1>5
  <1>8. k + 1 \in 1..L /\ (i # k + 1 => k + 1 < i) BY <1>1, <1>2, <1>5, <1>7
  <1>9. ASSUME i # k + 1 PROVE FALSE
    <2> DEFINE x == staged_log[k + 1]
    <2>1. x \notin Taken /\ x \in Pallets /\ x \in Range(staged_log)
      <3>1. ~(k + 1 <= k) BY <1>2
      <3> QED BY <1>1, <1>3, <1>8, <3>1 DEF Range
    <2>2. pallet_state[x] = "STAGED" BY <2>1 DEF OrderInv, LogInv, Taken
    <2>3. Rank(x) < Rank(held[s]) /\ Rank(x) \in Nat /\ Rank(held[s]) \in Nat
      <3>1. Rank(x) = k + 1 /\ Rank(held[s]) = i BY <1>5, <1>6, <1>8
      <3> QED BY <1>1, <1>2, <1>5, <1>8, <1>9, <3>1
    <2> HIDE DEF x
    <2>4. x \in Waiting BY <2>1, <2>2 DEF OrderInv, WaitingInv
    <2>5. x \notin Range(items)
      <3>1. ASSUME x \in Range(items) PROVE FALSE
        <4>1. Rank(held[s]) < Rank(x) BY <3>1 DEF OrderInv, FifoInv
        <4> QED BY <2>3, <4>1
      <3> QED BY <3>1
    <2>6. PICK t \in GetsDue : held[t] = x BY <2>4, <2>5 DEF Waiting
    <2>7. t # s BY <2>3, <2>6
    <2>8. ev[s].no < ev[t].no
      <3>1. Fires(s, pc[s]) BY DEF GetsDue
      <3> QED BY <2>7, <3>1, FiresOldest
    <2>9. Rank(held[s]) < Rank(x) BY <2>6, <2>8 DEF OrderInv, FifoInv
    <2> QED BY <2>3, <2>9
  <1>10. i = k + 1 BY <1>9
  <1>11. k + 1 \in 1..L /\ staged_log[k + 1] = held[s] BY <1>5, <1>8, <1>10
  <1> QED BY <1>1, <1>2, <1>11 DEF k

\* A server that takes its pallet moves the border of the log by one, and the place it
\* leaves goes to a pallet that is the last in the order.
LEMMA PullOrder ==
    ASSUME TypeOK, TypeOK', HandoverInv, HandoverInv', DueInv, OrderInv, NEW s \in Servers, StartPutaway(s)
    PROVE  OrderInv'
  <1>1. PICK W \in SUBSET Pallets : Pulls(s, W) BY StartPutawayDoes
  <1>2. /\ AtMostOne(W, Pallets) /\ \A w \in W : pc[w] = "putting" /\ w # held[s]
        /\ pc[s] = "get" /\ held[s] \in Pallets /\ Fires(s, "get")
        /\ \A x \in Pallets : /\ pc'[x] = IF x \in W THEN "unblocked" ELSE pc[x]
                              /\ x \in W => ev'[x].no = counter + 1
                              /\ x \notin W => ev'[x] = ev[x]
        /\ \A x \in Servers : /\ pc'[x] = IF x = s THEN "service" ELSE pc[x]
                              /\ x # s => ev'[x] = ev[x]
        /\ pallet_state[held[s]] = "STAGED"
        /\ pallet_state' = [pallet_state EXCEPT ![held[s]] = "AWAITING_PUTAWAY"]
        /\ W = {} => items' = items
        /\ \A w \in W : Len(items) < StagingCapacity /\ items' = Append(items, w)
        /\ held' = held /\ staged_log' = staged_log
    BY <1>1 DEF Pulls
  <1>3. \A w \in W : w \in Pallets /\ w \notin Coming
    <2>1. \A w \in W : pallet_state[w] = "UNLOADING" /\ w \notin PutsDue
      BY <1>2 DEF HandoverInv, PcInv, PutsDue, PutPending
    <2> QED BY <2>1 DEF OrderInv, LogInv, Coming
  <1>4. PutsDue' = PutsDue \cup W /\ GetsDue' = GetsDue \ {s} /\ s \in GetsDue
    BY <1>2 DEF PutsDue, GetsDue, PutPending
  <1>5. LetsIn(W)
    <2>1. \A a \in GetsDue' \cup PutsDue : ev'[a] = ev[a]
      <3>1. \A x \in PutsDue : x \in Pallets /\ x \notin W BY <1>2 DEF PutsDue, PutPending
      <3>2. \A t \in GetsDue' : t \in Servers /\ t # s BY <1>4 DEF GetsDue
      <3> QED BY <1>2, <3>1, <3>2
    <2>2. W \cap Coming = {} BY <1>3
    <2>3. \A w \in W : ev'[w].no = counter + 1 BY <1>2
    <2> QED BY <1>2, <1>4, <2>1, <2>2, <2>3 DEF LetsIn
  <1>6. FifoInv' /\ RoomInv' BY <1>5, LetsInKeeps DEF OrderInv
  <1>7. pallet_state \in [Pallets -> PalletState] /\ staged_log \in Seq(Pallets) /\ items \in Seq(Pallets)
    BY DEF TypeOK
  <1>8. \A x \in Pallets : pallet_state'[x] = IF x = held[s] THEN "AWAITING_PUTAWAY" ELSE pallet_state[x]
    BY <1>2, <1>7
  <1>9. LogInv'
    <2> DEFINE k == Cardinality(Taken)
    <2>1. k + 1 \in DOMAIN staged_log /\ k \in Nat /\ staged_log[k + 1] = held[s]
      BY <1>2, <1>4, PulledIsOldest
    <2>2. Taken' = Taken \cup {held[s]} /\ held[s] \notin Taken
      <3>1. Taken' = {x \in Pallets : pallet_state'[x] \in {"AWAITING_PUTAWAY", "STORED"}} BY DEF Taken
      <3> QED BY <1>2, <1>8, <3>1 DEF Taken
    <2>3. Cardinality(Taken') = k + 1
      <3>1. Taken \subseteq Pallets BY DEF Taken
      <3>2. IsFiniteSet(Taken) BY <3>1, FiniteProcs
      <3> QED BY <2>2, <3>2, CountOne
    <2> HIDE DEF k
    <2>4. \A i \in DOMAIN staged_log : staged_log[i] \in Taken <=> i <= k
      BY DEF OrderInv, LogInv, k
    <2>5. \A i \in DOMAIN staged_log : staged_log[i] = held[s] <=> i = k + 1
      BY <2>1 DEF OrderInv, LogInv, Distinct
    <2>6. DOMAIN staged_log \subseteq Nat BY <1>7
    <2>7. \A i \in DOMAIN staged_log : staged_log[i] \in Taken' <=> i <= k + 1
      BY <2>1, <2>2, <2>4, <2>5, <2>6
    <2>8. {x \in Pallets : pallet_state'[x] \in {"STAGED", "AWAITING_PUTAWAY", "STORED"}}
            = {x \in Pallets : pallet_state[x] \in {"STAGED", "AWAITING_PUTAWAY", "STORED"}}
      BY <1>2, <1>8
    <2> QED BY <1>2, <2>3, <2>7, <2>8 DEF OrderInv, LogInv
  <1>10. Range(items) \cup W \subseteq Range(items')
    <2>1. \A w \in Pallets : Range(Append(items, w)) = Range(items) \cup {w} BY <1>7, RangeAppend
    <2>2. \A w \in W : Range(items') = Range(items) \cup {w} BY <1>2, <2>1
    <2> QED BY <1>2, <2>2 DEF AtMostOne
  <1>11. \A x \in Waiting : x # held[s] => x \in Waiting'
    <2>1. Waiting' = Range(items') \cup {held[t] : t \in GetsDue \ {s}} BY <1>2, <1>4 DEF Waiting
    <2> QED BY <1>10, <2>1 DEF Waiting
  <1>12. WaitingInv'
    <2>1. ASSUME NEW x \in Pallets, pallet_state'[x] = "STAGED" \/ x \in PutsDue' PROVE x \in Waiting'
      <3>1. CASE x \in W BY <1>10, <3>1 DEF Waiting
      <3>2. CASE x \notin W
        <4>1. x # held[s]
          <5>1. held[s] \notin PutsDue BY <1>2 DEF HandoverInv, PcInv, PutsDue, PutPending
          <5> QED BY <1>4, <1>8, <2>1, <3>2, <5>1
        <4>2. pallet_state[x] = "STAGED" \/ x \in PutsDue BY <1>4, <1>8, <2>1, <3>2, <4>1
        <4> QED BY <1>11, <4>1, <4>2 DEF OrderInv, WaitingInv
      <3> QED BY <3>1, <3>2
    <2>2. ASSUME NEW x \in Pallets, pallet_state'[x] = "AWAITING_PUTAWAY"
          PROVE  \E t \in Servers : pc'[t] = "service" /\ held'[t] = x
      <3>1. CASE x = held[s] BY <1>2, <3>1
      <3>2. CASE x # held[s]
        <4>1. PICK t \in Servers : pc[t] = "service" /\ held[t] = x
          BY <1>8, <2>2, <3>2 DEF OrderInv, WaitingInv
        <4> QED BY <1>2, <4>1
      <3> QED BY <3>1, <3>2
    <2> QED BY <2>1, <2>2 DEF WaitingInv
  <1> QED BY <1>6, <1>9, <1>12 DEF OrderInv

\* Every step keeps the order.
LEMMA OrderStep ==
    ASSUME TypeOK, TypeOK', HandoverInv, HandoverInv', DueInv, OrderInv, [Next]_vars
    PROVE  OrderInv'
  <1>1. CASE UNCHANGED vars \/ Finish
    <2>1. UNCHANGED <<items, held, staged_log, pc, ev, pallet_state>>
      BY <1>1 DEF vars, queue_vars, store_vars, ledger_vars, Finish
    <2>2. Aside BY <2>1 DEF Aside, PutsDue
    <2> QED BY <2>2, AsideKeeps
  <1>2. ASSUME NEW p \in Pallets, PalletStep(p) PROVE OrderInv'
    BY <1>2, DockStepsAside, FinishUnloadOrder, StageOrder DEF PalletStep
  <1>3. ASSUME NEW s \in Servers, ServerStep(s) PROVE OrderInv'
    BY <1>3, AsksOrder, PullOrder DEF ServerStep
  <1> QED BY <1>1, <1>2, <1>3 DEF Next

\* The line starts empty.
LEMMA InitOrder == Init => OrderInv
  <1> SUFFICES ASSUME Init PROVE OrderInv OBVIOUS
  <1>1. /\ items = <<>> /\ staged_log = <<>> /\ pc = [a \in Procs |-> "init"]
        /\ pallet_state = [p \in Pallets |-> "EXPECTED"]
    BY DEF Init
  <1>2. PutsDue = {} /\ GetsDue = {}
    <2>1. \A a \in Procs : pc[a] = "init" BY <1>1
    <2> QED BY <2>1, ProcsSplit DEF PutsDue, GetsDue, PutPending
  <1>3. Range(items) = {} /\ Range(staged_log) = {} /\ DOMAIN items = {} /\ DOMAIN staged_log = {}
    BY <1>1 DEF Range
  <1>4. LogInv BY <1>1, <1>3 DEF LogInv, Distinct
  <1>5. WaitingInv BY <1>1, <1>2 DEF WaitingInv
  <1>6. FifoInv BY <1>2, <1>3 DEF FifoInv
  <1>7. RoomInv BY <1>2 DEF RoomInv
  <1> QED BY <1>4, <1>5, <1>6, <1>7 DEF OrderInv

\* The store, the putaway servers and the log of a station line have the pallets in
\* one order, and every pending pallet has a place in the buffer.
THEOREM OrderCorrect == Spec => [](IInv /\ DockInv /\ DueInv /\ OrderInv)
  <1>1. Init => OrderInv BY InitOrder
  <1>2. IInv /\ IInv' /\ DueInv /\ OrderInv /\ [Next]_vars => OrderInv'
    BY OrderStep DEF IInv
  <1> QED BY <1>1, <1>2, DockCorrect, PTL DEF Spec
-----------------------------------------------------------------------------
(* The steps of the line are steps of ReceivingLine.                       *)

\* Two sequences with the same elements are the same.
LEMMA SameSequence ==
    ASSUME NEW S, NEW q \in Seq(S), NEW r \in Seq(S), Len(q) = Len(r), \A i \in 1..Len(q) : q[i] = r[i]
    PROVE  q = r
  OBVIOUS

\* What a log has behind its first k, when it grows at its end and when k does.
LEMMA RestOfLog ==
    ASSUME NEW S, NEW log \in Seq(S), NEW k \in Nat, k <= Len(log)
    PROVE  /\ SubSeq(log, k + 1, Len(log)) \in Seq(S)
           /\ Len(SubSeq(log, k + 1, Len(log))) = Len(log) - k
           /\ \A i \in 1..Len(log)-k : SubSeq(log, k + 1, Len(log))[i] = log[k + i]
  <1> DEFINE r == SubSeq(log, k + 1, Len(log))
             n == Len(log)
  <1>1. k + 1 \in Int /\ n \in Int /\ \A i \in (k + 1)..n : log[i] \in S
    <2>1. \A i \in (k + 1)..Len(log) : i \in 1..Len(log) OBVIOUS
    <2> QED BY <2>1
  <1>2. /\ r \in Seq(S)
        /\ Len(r) = IF k + 1 <= n THEN n - (k + 1) + 1 ELSE 0
        /\ \A i \in 1 .. n - (k + 1) + 1 : r[i] = log[(k + 1) + i - 1]
    BY <1>1, SubSeqProperties
  <1>3. n \in Nat /\ k <= n OBVIOUS
  <1> HIDE DEF r, n
  <1>4. n - (k + 1) + 1 = n - k BY <1>1
  <1>5. Len(r) = n - k
    <2>1. CASE k + 1 <= n BY <1>2, <1>4, <2>1
    <2>2. CASE ~(k + 1 <= n) BY <1>2, <1>3, <2>2
    <2> QED BY <2>1, <2>2
  <1>6. \A i \in 1..n-k : r[i] = log[k + i]
    <2> SUFFICES ASSUME NEW i \in 1..n-k PROVE r[i] = log[k + i] OBVIOUS
    <2>1. i \in 1 .. n - (k + 1) + 1 /\ (k + 1) + i - 1 = k + i BY <1>1, <1>4
    <2> QED BY <1>2, <2>1
  <1> QED BY <1>2, <1>5, <1>6 DEF r, n

\* A log that grows has the new element last behind its first k.
LEMMA RestGrows ==
    ASSUME NEW S, NEW log \in Seq(S), NEW k \in Nat, k <= Len(log), NEW e \in S
    PROVE  SubSeq(Append(log, e), k + 1, Len(Append(log, e))) = Append(SubSeq(log, k + 1, Len(log)), e)
  <1> DEFINE n == Len(log) - k
             old == SubSeq(log, k + 1, Len(log))
             up == Append(log, e)
             new == SubSeq(up, k + 1, Len(up))
             q == Append(old, e)
  <1>1. Len(log) \in Nat /\ n \in Nat BY DEF n
  <1>2. old \in Seq(S) /\ Len(old) = n /\ \A i \in 1..n : old[i] = log[k + i] BY RestOfLog
  <1>3. /\ up \in Seq(S) /\ Len(up) = Len(log) + 1 /\ up[Len(log) + 1] = e
        /\ \A i \in 1..Len(log) : up[i] = log[i]
    BY AppendType
  <1> HIDE DEF old, up
  <1>4. k <= Len(up) /\ Len(up) - k = n + 1 BY <1>1, <1>3 DEF n
  <1>5. new \in Seq(S) /\ Len(new) = n + 1 /\ \A i \in 1..n+1 : new[i] = up[k + i]
    BY <1>3, <1>4, RestOfLog
  <1>6. /\ q \in Seq(S) /\ Len(q) = n + 1 /\ q[n + 1] = e /\ \A i \in 1..n : q[i] = old[i]
    BY <1>2, AppendType
  <1> HIDE DEF new, q
  <1>7. \A i \in 1..n+1 : new[i] = q[i]
    <2> SUFFICES ASSUME NEW i \in 1..n+1 PROVE new[i] = q[i] OBVIOUS
    <2>1. CASE i = n + 1
      <3>1. k + i = Len(log) + 1 BY <1>1, <2>1 DEF n
      <3> QED BY <1>3, <1>5, <1>6, <2>1, <3>1
    <2>2. CASE i # n + 1
      <3>1. i \in 1..n /\ k + i \in 1..Len(log) BY <1>1, <2>2 DEF n
      <3> QED BY <1>2, <1>3, <1>5, <1>6, <3>1
    <2> QED BY <2>1, <2>2
  <1>8. new = q BY <1>5, <1>6, <1>7, SameSequence
  <1> QED BY <1>8 DEF new, q, up, old

\* Taking one more off the front of a log.
LEMMA RestShrinks ==
    ASSUME NEW S, NEW log \in Seq(S), NEW k \in Nat, k + 1 <= Len(log)
    PROVE  /\ SubSeq(log, k + 1, Len(log)) # <<>>
           /\ Head(SubSeq(log, k + 1, Len(log))) = log[k + 1]
           /\ Tail(SubSeq(log, k + 1, Len(log))) = SubSeq(log, (k + 1) + 1, Len(log))
  <1>1. k + 1 \in 1..Len(log) /\ Len(log) \in (k + 1)..Len(log) /\ Len(log) \in Nat OBVIOUS
  <1>2. /\ Len(SubSeq(log, k + 1, Len(log))) = Len(log) - k /\ SubSeq(log, k + 1, Len(log)) \in Seq(S)
    BY <1>1, RestOfLog
  <1>3. SubSeq(log, k + 1, Len(log)) # <<>>
    <2> DEFINE r == SubSeq(log, k + 1, Len(log))
    <2>1. Len(r) > 0 /\ r \in Seq(S) BY <1>1, <1>2
    <2> HIDE DEF r
    <2>2. r # <<>> BY <2>1
    <2> QED BY <2>2 DEF r
  <1> QED BY <1>1, <1>3, HeadTailOfSubSeq

\* The taken pallets are in the log, and what it has behind them is staged.
LEMMA RestIsStaged ==
    ASSUME TypeOK, OrderInv
    PROVE  /\ Cardinality(Taken) \in Nat /\ Cardinality(Taken) <= Len(staged_log)
           /\ staged_log \in Seq(Pallets) /\ Len(staged_log) \in Nat
           /\ Len(staged_log) - Cardinality(Taken)
                 <= Cardinality({p \in Pallets : pallet_state[p] = "STAGED"})
  <1> DEFINE k == Cardinality(Taken)
             L == Len(staged_log)
             Staged == {p \in Pallets : pallet_state[p] = "STAGED"}
  <1>1. staged_log \in Seq(Pallets) /\ L \in Nat /\ DOMAIN staged_log = 1..L BY DEF TypeOK
  <1>2. k \in Nat /\ k <= L
    <2>1. Taken \subseteq Range(staged_log) /\ Range(staged_log) \subseteq Pallets
      BY DEF OrderInv, LogInv, Taken
    <2>2. IsFiniteSet(Range(staged_log)) /\ Cardinality(Range(staged_log)) \in Nat /\ k \in Nat
      BY <2>1, FiniteProcs
    <2>3. k <= Cardinality(Range(staged_log)) BY <2>1, <2>2, FS_Subset
    <2>4. Cardinality(Range(staged_log)) <= L BY <1>1, RangeCount
    <2> HIDE DEF k, L
    <2> QED BY <1>1, <2>2, <2>3, <2>4
  <1>3. /\ \A i \in 1..L : staged_log[i] \in Taken <=> i <= k
        /\ \A i, j \in 1..L : staged_log[i] = staged_log[j] => i = j
        /\ \A i \in 1..L : staged_log[i] \in Range(staged_log)
        /\ \A x \in Range(staged_log) : x \notin Taken => x \in Staged
    BY <1>1 DEF OrderInv, LogInv, Distinct, Range, Taken
  <1> HIDE DEF k, L, Staged
  <1>4. L - k <= Cardinality(Staged)
    <2> DEFINE f == [i \in 1..L-k |-> staged_log[k + i]]
    <2>1. \A i \in 1..L-k : k + i \in 1..L /\ ~(k + i <= k) BY <1>1, <1>2
    <2>2. f \in [1..L-k -> Staged] BY <1>3, <2>1
    <2>3. \A i, j \in 1..L-k : f[i] = f[j] => i = j
      <3> SUFFICES ASSUME NEW i \in 1..L-k, NEW j \in 1..L-k, f[i] = f[j] PROVE i = j OBVIOUS
      <3>1. staged_log[k + i] = staged_log[k + j] OBVIOUS
      <3>2. k + i \in 1..L /\ k + j \in 1..L BY <2>1
      <3>3. k + i = k + j BY <1>3, <3>1, <3>2
      <3>4. i \in Int /\ j \in Int BY <1>1, <1>2
      <3> QED BY <1>2, <3>3, <3>4
    <2>4. f \in Injection(1..L-k, Staged)
      <3> HIDE DEF f
      <3> QED BY <2>2, <2>3 DEF Injection, IsInjective
    <2>5. IsFiniteSet(Staged) BY FiniteProcs DEF Staged
    <2>6. Cardinality(1..L-k) <= Cardinality(Staged) BY <2>4, <2>5, FS_Injection
    <2>7. Cardinality(1..L-k) = L - k
      <3>1. 1 \in Int /\ L - k \in Int BY <1>1, <1>2
      <3>2. Cardinality(1..L-k) = IF 1 > L - k THEN 0 ELSE (L - k) - 1 + 1 BY <3>1, FS_Interval
      <3> QED BY <1>1, <1>2, <3>2
    <2> QED BY <2>6, <2>7
  <1> QED BY <1>1, <1>2, <1>4 DEF k, L, Staged

\* A pallet that is staged finds a place free in the buffer.
LEMMA StageHasRoom ==
    ASSUME TypeOK, HandoverInv, DueInv, OrderInv, NEW p \in PutsDue, Fires(p, pc[p])
    PROVE  Cardinality({x \in Pallets : pallet_state[x] = "STAGED"}) < StagingCapacity
  <1> DEFINE Staged == {x \in Pallets : pallet_state[x] = "STAGED"}
  <1>1. /\ staged_log \in Seq(Pallets) /\ ev \in [Procs -> [at : Nat, no : Nat]]
        /\ Distinct(staged_log) /\ Len(staged_log) \in Nat
    BY DEF TypeOK, OrderInv, LogInv
  <1>2. p \in Pallets /\ p \notin Range(staged_log) BY PendingNotLogged DEF OrderInv
  <1>3. Rank(p) \in Nat /\ Rank(p) > Len(staged_log) BY <1>1, <1>2, RankIs DEF Rank
  <1>4. \A x \in Staged : Rank(x) < Rank(p)
    <2>1. \A x \in Staged : x \in Range(staged_log) BY DEF OrderInv, LogInv
    <2>2. \A x \in Staged : Rank(x) \in Nat /\ Rank(x) <= Len(staged_log)
      BY <1>1, <2>1, RankIs DEF Rank
    <2> QED BY <1>1, <1>3, <2>2
  <1>5. ASSUME NEW x \in Staged PROVE x \in Ahead(p)
    <2>1. x \in Pallets /\ x \in Waiting BY <1>5 DEF OrderInv, WaitingInv
    <2>2. Rank(x) < Rank(p) BY <1>4, <1>5
    <2>3. CASE x \in Range(items) BY <2>1, <2>2, <2>3 DEF Ahead
    <2>4. ASSUME NEW s \in GetsDue, held[s] = x PROVE x \in Ahead(p)
      <3>1. p # s BY <1>2, Disjoint DEF GetsDue
      <3>2. ev[p].no < ev[s].no BY <3>1, FiresOldest
      <3> QED BY <2>1, <2>2, <2>4, <3>2 DEF Ahead
    <2> QED BY <2>1, <2>3, <2>4 DEF Waiting
  <1>6. Ahead(p) \subseteq Pallets /\ Staged \subseteq Ahead(p) BY <1>5 DEF Ahead
  <1>7. Cardinality(Ahead(p)) < StagingCapacity BY DEF OrderInv, RoomInv
  <1> HIDE DEF Staged
  <1>8. IsFiniteSet(Ahead(p)) /\ Cardinality(Ahead(p)) \in Nat /\ Cardinality(Staged) \in Nat
    BY <1>6, FiniteProcs
  <1>9. Cardinality(Staged) <= Cardinality(Ahead(p)) BY <1>6, <1>8, FS_Subset
  <1>10. Cardinality(Staged) < StagingCapacity BY <1>7, <1>8, <1>9, SpecAssumption
  <1> QED BY <1>10 DEF Staged

\* A pallet whose unloading starts had a server granted that no other unloads with.
LEMMA UnloadHasServer ==
    ASSUME TypeOK, HandoverInv, DockInv, NEW p \in Pallets, pc[p] = "request"
    PROVE  Cardinality({x \in Pallets : pallet_state[x] = "UNLOADING"}) < ReceivingCapacity
  <1> DEFINE U == {x \in Pallets : pallet_state[x] = "UNLOADING"}
  <1>1. p \in users /\ users \subseteq Pallets /\ Cardinality(users) <= ReceivingCapacity
    BY DEF DockInv, Holding
  <1>2. U \subseteq users \ {p}
    <2>1. pallet_state[p] = "ON_TRUCK" BY DEF HandoverInv, PcInv
    <2>2. \A x \in U : x \in users BY DEF DockInv
    <2> QED BY <2>1, <2>2
  <1> HIDE DEF U
  <1>3. IsFiniteSet(users) /\ Cardinality(users) \in Nat BY <1>1, FiniteProcs
  <1>4. users \ {p} \subseteq Pallets /\ U \subseteq Pallets BY <1>1, <1>2
  <1>5. IsFiniteSet(users \ {p}) /\ Cardinality(users \ {p}) \in Nat /\ Cardinality(U) \in Nat
    BY <1>4, FiniteProcs
  <1>6. Cardinality(users \ {p}) = Cardinality(users) - 1 BY <1>1, <1>3, CountOne
  <1>7. Cardinality(U) <= Cardinality(users \ {p}) BY <1>2, <1>5, FS_Subset
  <1>8. Cardinality(U) < ReceivingCapacity BY <1>1, <1>3, <1>5, <1>6, <1>7, SpecAssumption
  <1> QED BY <1>8 DEF U

\* The pallets in putaway are with other servers than the one that starts.
LEMMA PullHasServer ==
    ASSUME TypeOK, HandoverInv, OrderInv, NEW s \in Servers, pc[s] = "get"
    PROVE  Cardinality({x \in Pallets : pallet_state[x] = "AWAITING_PUTAWAY"}) < PutawayCapacity
  <1> DEFINE A == {x \in Pallets : pallet_state[x] = "AWAITING_PUTAWAY"}
             server(x) == CHOOSE t \in Servers : pc[t] = "service" /\ held[t] = x
             f == [x \in A |-> server(x)]
             T == Servers \ {s}
  <1>1. \A x \in A : server(x) \in Servers /\ pc[server(x)] = "service" /\ held[server(x)] = x
    BY DEF OrderInv, WaitingInv
  <1>2. \A x \in A : f[x] = server(x) OBVIOUS
  <1> HIDE DEF server
  <1>3. f \in [A -> T]
    <2>1. \A x \in A : server(x) \in T BY <1>1
    <2> QED BY <2>1
  <1>4. \A x, y \in A : f[x] = f[y] => x = y BY <1>1, <1>2
  <1> HIDE DEF f, A
  <1>5. f \in Injection(A, T) BY <1>3, <1>4 DEF Injection, IsInjective
  <1>6. /\ IsFiniteSet(Servers) /\ Cardinality(Servers) = PutawayCapacity /\ T \subseteq Servers
        /\ PutawayCapacity \in Nat
    BY FiniteProcs, SpecAssumption
  <1>7. IsFiniteSet(T) /\ Cardinality(T) = PutawayCapacity - 1
    <2>1. IsFiniteSet(T) BY <1>6, FiniteProcs
    <2>2. Cardinality(T) = Cardinality(Servers) - 1 BY <1>6, CountOne
    <2> QED BY <1>6, <2>1, <2>2
  <1>8. Cardinality(A) <= Cardinality(T) BY <1>5, <1>7, FS_Injection
  <1>9. Cardinality(A) \in Nat
    <2>1. A \subseteq Pallets BY DEF A
    <2> QED BY <2>1, FiniteProcs
  <1>10. Cardinality(A) < PutawayCapacity BY <1>6, <1>7, <1>8, <1>9
  <1> QED BY <1>10 DEF A

\* A step that neither stages nor takes a pallet leaves the buffer as it is.
LEMMA BufferKept ==
    ASSUME UNCHANGED staged_log, \A x \in Pallets : x \in Taken' <=> x \in Taken
    PROVE  StillStaged' = StillStaged
  <1>1. Taken' = Taken BY DEF Taken
  <1> QED BY <1>1 DEF StillStaged

\* A pallet moves along one edge of the state table.
LEMMA MoveIs ==
    ASSUME NEW p \in Pallets, NEW from, NEW to, pallet_state[p] = from,
           pallet_state' = [pallet_state EXCEPT ![p] = to]
    PROVE  Line!Move(p, from, to)
  BY DEF Line!Move

\* The abstract line counts the pallets at its servers the way the station's capacities do.
LEMMA LineCounts == \A S : Line!Cardinality(S) = Cardinality(S)
  BY DEF Line!Cardinality, Cardinality

\* Every step of a pallet's process is a step of the abstract line, or none.
LEMMA PalletRefines ==
    ASSUME TypeOK, TypeOK', HandoverInv, HandoverInv', DockInv, DueInv, OrderInv,
           NEW p \in Pallets, PalletStep(p)
    PROVE  Line!Next \/ UNCHANGED <<pallet_state, StillStaged>>
  <1>1. pallet_state \in [Pallets -> PalletState] /\ Line!Pallets = Pallets
    BY DEF TypeOK, Line!Pallets, Pallets
  <1>2. CASE FinishUnload(p) \/ Freed(p) \/ AwaitRelease(p)
    <2>1. UNCHANGED <<pallet_state, staged_log>>
      BY <1>2 DEF FinishUnload, Freed, AwaitRelease, ledger_vars
    <2> QED BY <2>1, BufferKept DEF Taken
  <1>3. CASE Arrive(p)
    <2>1. PICK W \in SUBSET Pallets : Arrives(p, W) BY <1>3, ArriveDoes
    <2>2. /\ pallet_state[p] = "EXPECTED" /\ staged_log' = staged_log
          /\ pallet_state' = [pallet_state EXCEPT ![p] = "ON_TRUCK"]
      BY <2>1 DEF Arrives
    <2>3. StillStaged' = StillStaged BY <1>1, <2>2, BufferKept DEF Taken
    <2>4. Line!Arrive(p) BY <2>2, <2>3, MoveIs DEF Line!Arrive
    <2> QED BY <1>1, <2>4 DEF Line!Next
  <1>4. CASE StartUnload(p)
    <2>1. /\ pc[p] = "request" /\ pallet_state[p] = "ON_TRUCK" /\ staged_log' = staged_log
          /\ pallet_state' = [pallet_state EXCEPT ![p] = "UNLOADING"]
      <3>1. pc[p] = "request" BY <1>4 DEF StartUnload, Fires
      <3> QED BY <1>4, <3>1, OwnMoveDoes
    <2>2. StillStaged' = StillStaged BY <1>1, <2>1, BufferKept DEF Taken
    <2>3. Cardinality(Line!In("UNLOADING")) < ReceivingCapacity
      BY <1>1, <2>1, UnloadHasServer DEF Line!In
    <2>4. Line!Move(p, "ON_TRUCK", "UNLOADING") BY <2>1, MoveIs
    <2>5. Line!Unload(p) BY <2>2, <2>3, <2>4, LineCounts DEF Line!Unload
    <2> QED BY <1>1, <2>5 DEF Line!Next
  <1>5. CASE Stage(p)
    <2>1. PICK W \in SUBSET Servers : Stages(p, W) BY <1>5, StageDoes
    <2>2. /\ pc[p] \in PutPending /\ Fires(p, pc[p]) /\ pallet_state[p] = "UNLOADING"
          /\ pallet_state' = [pallet_state EXCEPT ![p] = "STAGED"]
          /\ staged_log' = Append(staged_log, p)
      BY <2>1 DEF Stages
    <2>3. p \in PutsDue BY <2>2 DEF PutsDue
    <2> DEFINE k == Cardinality(Taken)
               n == Cardinality({x \in Pallets : pallet_state[x] = "STAGED"})
    <2>4. n < StagingCapacity BY <2>2, <2>3, StageHasRoom
    <2>5. /\ k \in Nat /\ k <= Len(staged_log) /\ staged_log \in Seq(Pallets)
          /\ Len(staged_log) - k <= n /\ Len(staged_log) \in Nat
      BY RestIsStaged
    <2>6. Taken' = Taken
      <3>1. Taken' = {x \in Pallets : pallet_state'[x] \in {"AWAITING_PUTAWAY", "STORED"}} BY DEF Taken
      <3>2. \A x \in Pallets : pallet_state'[x] = IF x = p THEN "STAGED" ELSE pallet_state[x] BY <1>1, <2>2
      <3> QED BY <2>2, <3>1, <3>2 DEF Taken
    <2>7. n \in Nat
      <3>1. {x \in Pallets : pallet_state[x] = "STAGED"} \in SUBSET Pallets OBVIOUS
      <3> QED BY <3>1, FiniteProcs
    <2>8. StillStaged' = SubSeq(staged_log', k + 1, Len(staged_log')) BY <2>6 DEF StillStaged
    <2>9. StillStaged = SubSeq(staged_log, k + 1, Len(staged_log)) BY DEF StillStaged
    <2> HIDE DEF k, n
    <2>10. StillStaged' = Append(StillStaged, p) BY <2>2, <2>5, <2>8, <2>9, RestGrows
    <2>11. Len(StillStaged) < StagingCapacity
      <3>1. Len(StillStaged) = Len(staged_log) - k BY <2>5, <2>9, RestOfLog
      <3> QED BY <2>4, <2>5, <2>7, <3>1, SpecAssumption
    <2>12. Line!Stage(p) BY <2>2, <2>10, <2>11, MoveIs DEF Line!Stage
    <2> QED BY <1>1, <2>12 DEF Line!Next
  <1> QED BY <1>2, <1>3, <1>4, <1>5 DEF PalletStep

\* Every step of a putaway server is a step of the abstract line, or none.
LEMMA ServerRefines ==
    ASSUME TypeOK, TypeOK', HandoverInv, HandoverInv', DueInv, OrderInv,
           NEW s \in Servers, ServerStep(s)
    PROVE  Line!Next \/ UNCHANGED <<pallet_state, StillStaged>>
  <1>1. pallet_state \in [Pallets -> PalletState] /\ Line!Pallets = Pallets
    BY DEF TypeOK, Line!Pallets, Pallets
  <1>2. CASE StartServer(s)
    <2>1. UNCHANGED <<pallet_state, staged_log>> BY <1>2 DEF StartServer, ledger_vars
    <2> QED BY <2>1, BufferKept DEF Taken
  <1>3. CASE FinishPutaway(s)
    <2>1. /\ held[s] \in Pallets /\ pallet_state[held[s]] = "AWAITING_PUTAWAY"
          /\ pallet_state' = [pallet_state EXCEPT ![held[s]] = "STORED"]
      BY <1>3, FinishPutawayDoes
    <2>2. staged_log' = staged_log BY <1>3 DEF FinishPutaway
    <2>3. StillStaged' = StillStaged
      <3>1. \A x \in Pallets : pallet_state'[x] = IF x = held[s] THEN "STORED" ELSE pallet_state[x]
        BY <1>1, <2>1
      <3>2. \A x \in Pallets : x \in Taken' <=> x \in Taken BY <2>1, <3>1 DEF Taken
      <3> QED BY <2>2, <3>2, BufferKept
    <2>4. Line!Store(held[s]) BY <2>1, <2>3, MoveIs DEF Line!Store
    <2> QED BY <1>1, <2>1, <2>4 DEF Line!Next
  <1>4. CASE StartPutaway(s)
    <2>1. PICK W \in SUBSET Pallets : Pulls(s, W) BY <1>4, StartPutawayDoes
    <2>2. /\ pc[s] = "get" /\ held[s] \in Pallets /\ Fires(s, "get")
          /\ pallet_state[held[s]] = "STAGED"
          /\ pallet_state' = [pallet_state EXCEPT ![held[s]] = "AWAITING_PUTAWAY"]
          /\ staged_log' = staged_log
      BY <2>1 DEF Pulls
    <2> DEFINE k == Cardinality(Taken)
    <2>3. k + 1 \in DOMAIN staged_log /\ k \in Nat /\ staged_log[k + 1] = held[s]
      <3>1. s \in GetsDue BY <2>2 DEF GetsDue
      <3> QED BY <2>2, <3>1, PulledIsOldest
    <2>4. Taken' = Taken \cup {held[s]} /\ held[s] \notin Taken
      <3>1. Taken' = {x \in Pallets : pallet_state'[x] \in {"AWAITING_PUTAWAY", "STORED"}} BY DEF Taken
      <3>2. \A x \in Pallets : pallet_state'[x] = IF x = held[s] THEN "AWAITING_PUTAWAY" ELSE pallet_state[x]
        BY <1>1, <2>2
      <3> QED BY <2>2, <3>1, <3>2 DEF Taken
    <2>5. Cardinality(Taken') = k + 1
      <3>1. Taken \subseteq Pallets BY DEF Taken
      <3>2. IsFiniteSet(Taken) BY <3>1, FiniteProcs
      <3> QED BY <2>4, <3>2, CountOne
    <2>6. StillStaged' = SubSeq(staged_log, (k + 1) + 1, Len(staged_log)) BY <2>2, <2>5 DEF StillStaged
    <2>7. StillStaged = SubSeq(staged_log, k + 1, Len(staged_log)) BY DEF StillStaged
    <2>8. staged_log \in Seq(Pallets) /\ k + 1 <= Len(staged_log)
      <3>1. staged_log \in Seq(Pallets) BY DEF TypeOK
      <3>2. DOMAIN staged_log = 1..Len(staged_log) BY <3>1
      <3> HIDE DEF k
      <3> QED BY <2>3, <3>1, <3>2
    <2> HIDE DEF k
    <2>9. StillStaged # <<>> /\ held[s] = Head(StillStaged) /\ StillStaged' = Tail(StillStaged)
      BY <2>3, <2>6, <2>7, <2>8, RestShrinks
    <2>10. Cardinality(Line!In("AWAITING_PUTAWAY")) < PutawayCapacity
      BY <1>1, <2>2, PullHasServer DEF Line!In
    <2>11. Line!Move(held[s], "STAGED", "AWAITING_PUTAWAY") BY <2>2, MoveIs
    <2>12. Line!Pull(held[s]) BY <2>9, <2>10, <2>11, LineCounts DEF Line!Pull
    <2> QED BY <1>1, <2>2, <2>12 DEF Line!Next
  <1> QED BY <1>2, <1>3, <1>4 DEF ServerStep

\* The station line of station.py is a bounded first in, first out line: every event of
\* its queue is a step of ReceivingLine or leaves the pallets and the buffer alone, for
\* every number of pallets, every capacity and every release and service time.
THEOREM LineImplemented == Spec => ImplementsLine
  <1>1. Init => Line!Init
    <2> SUFFICES ASSUME Init PROVE Line!Init OBVIOUS
    <2>1. /\ staged_log = <<>> /\ pallet_state = [p \in Pallets |-> "EXPECTED"] BY DEF Init
    <2>2. Taken = {}
      <3>1. \A p \in Pallets : pallet_state[p] = "EXPECTED" BY <2>1
      <3> QED BY <3>1 DEF Taken
    <2>3. StillStaged = <<>>
      <3>1. Cardinality(Taken) = 0 BY <2>2, FS_EmptySet
      <3>2. StillStaged = SubSeq(<<>>, 1, 0) BY <2>1, <3>1 DEF StillStaged
      <3> QED BY <3>2, SubSeqEmpty
    <2> QED BY <2>1, <2>3 DEF Line!Init, Line!Pallets, Pallets
  <1>2. ASSUME IInv, IInv', DockInv, DueInv, OrderInv, [Next]_vars
        PROVE  [Line!Next]_<<pallet_state, StillStaged>>
    <2>1. TypeOK /\ TypeOK' /\ HandoverInv /\ HandoverInv' BY <1>2 DEF IInv
    <2>2. CASE UNCHANGED vars \/ Finish
      <3>1. UNCHANGED <<pallet_state, staged_log>> BY <2>2 DEF vars, ledger_vars, Finish
      <3> QED BY <3>1, BufferKept DEF Taken
    <2>3. ASSUME NEW p \in Pallets, PalletStep(p)
          PROVE  Line!Next \/ UNCHANGED <<pallet_state, StillStaged>>
      BY <1>2, <2>1, <2>3, PalletRefines
    <2>4. ASSUME NEW s \in Servers, ServerStep(s)
          PROVE  Line!Next \/ UNCHANGED <<pallet_state, StillStaged>>
      BY <1>2, <2>1, <2>4, ServerRefines
    <2> QED BY <1>2, <2>2, <2>3, <2>4 DEF Next
  <1> QED BY <1>1, <1>2, OrderCorrect, PTL DEF Spec, ImplementsLine, Line!Spec
=============================================================================
