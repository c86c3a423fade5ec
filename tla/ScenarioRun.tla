------------------------------ MODULE ScenarioRun ------------------------------
(***************************************************************************)
(* The determinism scenario of twinflow.kernel: run_scenario               *)
(* (_impl/scenario.py) step by step, and what python -m twinflow.kernel    *)
(* simulate (__main__.py) makes of the log.                                *)
(*                                                                         *)
(* A service time is in ticks, its draw in half ticks, so that Python's    *)
(* round() meets a tie.  The generator is external: a station's stream is  *)
(* the tape its address names, each draw a half of the station's interval. *)
(***************************************************************************)
EXTENDS Integers, Sequences, SequencesExt, FiniteSetsExt

CONSTANTS
    StationLists,      \* the scenarios: sequences of [id, arrivals, mean, spread]
    StationIds,
    Epoch,             \* the fixed epoch of the scenario, in ticks
    MaxArrivals        \* arrivals of the busiest station

ASSUME ScenarioAssumption ==
    /\ Epoch \in Nat /\ MaxArrivals \in Nat
    /\ StationLists \subseteq Seq([id : StationIds, arrivals : 1..MaxArrivals,
                                  mean : Nat \ {0}, spread : Nat])

VARIABLES
    stations,          \* scenario.stations
    tapes,             \* what each address draws, in the order of the draws
    at, index,         \* the loops over stations and arrivals
    generator,         \* the address the station's generator was made for
    drawn,             \* draws taken from it
    service,           \* ticks of the service under way
    run_now,           \* SimClock._now
    sequence, run_log, \* nonlocal sequence and events
    at_step            \* the statement run_scenario is at

scenario_vars == <<stations, tapes, at, index, generator, drawn, service, run_now,
                   sequence, run_log, at_step>>

NoAddress == "none"
-----------------------------------------------------------------------------
(* Rounding, and one event.                                                *)

\* Python's round(): of two nearest the even one.
RoundHalfEven(halves) ==
    LET down == halves \div 2
    IN  IF halves % 2 = 0 \/ down % 2 = 0 THEN down ELSE down + 1

\* uniform(low, high) of this generator's next position, in half ticks.
Uniform(station, position) ==
    2 * (station.mean - station.spread) + position * station.spread

\* emit(): stamped with the clock as it is then.
Emit(type, subject, ticks) ==
    /\ run_log' = Append(run_log, [type |-> type, subject |-> subject, ticks |-> ticks,
                                   sim_ts |-> run_now', time |-> Epoch + run_now',
                                   seq |-> sequence])
    /\ sequence' = sequence + 1
-----------------------------------------------------------------------------
ScenarioInit ==
    /\ stations \in StationLists
    /\ tapes \in [StationIds -> [1..MaxArrivals -> 0..1]]
    /\ at = 1 /\ index = 0 /\ generator = NoAddress /\ drawn = 0 /\ service = 0
    /\ run_now = 0 /\ sequence = 0 /\ run_log = <<>> /\ at_step = "start"

Started ==
    /\ at_step = "start"
    /\ UNCHANGED <<run_now, stations, tapes, at, index, generator, drawn, service>>
    /\ Emit("started", <<>>, Len(stations))
    /\ at_step' = "station"

\* Mutant: one generator for the whole run instead of one per station.
StationKeepsGenerator ==
    /\ at_step = "station" /\ at <= Len(stations)
    /\ generator' = IF generator = NoAddress THEN stations[at].id ELSE generator
    /\ drawn' = 0 /\ index' = 0 /\ at_step' = "arrive"
    /\ UNCHANGED <<stations, tapes, at, service, run_now, sequence, run_log>>

\* streams.get: a fresh generator for the address of this station.
NextStation ==
    /\ at_step = "station" /\ at <= Len(stations)
    /\ generator' = stations[at].id /\ drawn' = 0
    /\ index' = 0 /\ at_step' = "arrive"
    /\ UNCHANGED <<stations, tapes, at, service, run_now, sequence, run_log>>

\* The arrival is emitted, then its service time is drawn.
Arrived ==
    /\ at_step = "arrive" /\ index < stations[at].arrivals
    /\ UNCHANGED <<run_now, stations, tapes, at, index, generator>>
    /\ Emit("arrived", <<stations[at].id, index>>, 0)
    /\ drawn' = drawn + 1
    /\ service' = RoundHalfEven(Uniform(stations[at], tapes[generator][drawn']))
    /\ at_step' = "serve"

\* The clock moves to the departure, and the departure is emitted.
Departed ==
    /\ at_step = "serve" /\ service >= 0
    /\ run_now' = run_now + service
    /\ Emit("departed", <<stations[at].id, index>>, service)
    /\ index' = index + 1 /\ at_step' = "arrive"
    /\ UNCHANGED <<stations, tapes, at, generator, drawn, service>>

\* A spread beyond the mean may draw a negative service: advance_to refuses,
\* and the run ends with no log at all.
ServiceRefused ==
    /\ at_step = "serve" /\ service < 0
    /\ at_step' = "raised"
    /\ UNCHANGED <<stations, tapes, at, index, generator, drawn, service, run_now,
                   sequence, run_log>>

StationDone ==
    /\ at_step = "arrive" /\ index = stations[at].arrivals
    /\ at' = at + 1 /\ at_step' = "station"
    /\ UNCHANGED <<stations, tapes, index, generator, drawn, service, run_now, sequence,
                   run_log>>

\* event_count counts this event too.
Finished ==
    /\ at_step = "station" /\ at > Len(stations)
    /\ UNCHANGED <<run_now, stations, tapes, at, index, generator, drawn, service>>
    /\ Emit("finished", <<>>, sequence + 1)
    /\ at_step' = "done"

ScenarioNext ==
    \/ Started \/ NextStation \/ Arrived \/ Departed \/ ServiceRefused
    \/ StationDone \/ Finished
-----------------------------------------------------------------------------
(* command_simulate: check the log, then print it in the total order.      *)

\* check_log_invariants of a log with one producer: no sequence number twice,
\* none missing, and so no tie of the ordering key.
LogHasNoViolation(log) == {log[i].seq : i \in DOMAIN log} = 0..(Len(log) - 1)

TotalOrder(a, b) == a.sim_ts < b.sim_ts \/ (a.sim_ts = b.sim_ts /\ a.seq < b.seq)

\* sorted() by that key: an event is printed behind those that are before it, and
\* of two that neither is, the one emitted first comes first.
Printed(log) ==
    LET Ahead(j, i) == \/ TotalOrder(log[j], log[i])
                       \/ j < i /\ ~TotalOrder(log[i], log[j])
        Place(i)    == Cardinality({j \in DOMAIN log : Ahead(j, i)}) + 1
    IN  [n \in DOMAIN log |-> log[CHOOSE i \in DOMAIN log : Place(i) = n]]

command_simulate == IF LogHasNoViolation(run_log) THEN 0 ELSE 1
-----------------------------------------------------------------------------
\* What the named address says the service of an arrival takes.
TapeTicks(i, k) == RoundHalfEven(Uniform(stations[i], tapes[stations[i].id][k + 1]))

Departures == {n \in DOMAIN run_log : run_log[n].type = "departed"}

\* The arrivals of the scenario, each by its station's place in the list.
Scheduled == {a \in (DOMAIN stations) \X (0..MaxArrivals - 1) : a[2] < stations[a[1]].arrivals}

\* run_scenario: a station's service times are its own stream's, whatever
\* stations come before it in the list.
DrawsDoNotMove ==
    \A n \in DOMAIN run_log : run_log[n].type = "departed" =>
        \E i \in DOMAIN stations :
            /\ stations[i].id = run_log[n].subject[1]
            /\ run_log[n].ticks = TapeTicks(i, run_log[n].subject[2])

\* run_scenario and simulate: a finished log is dense, is printed as it was
\* emitted, tells each arrival exactly its service time before its departure,
\* and counts itself.
LogTellsTheRun ==
    /\ \A n \in DOMAIN run_log : n > 1 => run_log[n - 1].sim_ts <= run_log[n].sim_ts
    /\ at_step = "done" =>
          /\ command_simulate = 0
          /\ Printed(run_log) = run_log
          /\ Last(run_log).ticks = Len(run_log)
          /\ Cardinality(Departures) = Cardinality(Scheduled)
          /\ \A n \in DOMAIN run_log : run_log[n].type = "departed" =>
                /\ run_log[n - 1].type = "arrived"
                /\ run_log[n - 1].subject = run_log[n].subject
                /\ run_log[n].sim_ts - run_log[n - 1].sim_ts = run_log[n].ticks
=============================================================================
