-------------------------------- MODULE SimTime --------------------------------
(***************************************************************************)
(* Sim time of twinflow.kernel: the conversion of a written duration to    *)
(* ticks and the clock's refusals (_impl/time.py), and the pacer that      *)
(* blocks between events so that sim time tracks wall time                 *)
(* (_impl/paced.py).                                                       *)
(*                                                                         *)
(* A written duration is the fraction <<numerator, denominator>> of a      *)
(* second, which is what Decimal keeps of it.  The speed is such a         *)
(* fraction too; the floor division by a float is modelled exactly.        *)
(***************************************************************************)
EXTENDS Integers, Sequences, SequencesExt, FiniteSetsExt

CONSTANTS
    TickResolution,    \* the tick rates a run may have
    TickHz,            \* this run's
    NanosPerSecond,    \* 10^9
    Speeds,            \* speeds a run may be started at, ASAP or a fraction
    MIN_SPEED, MAX_SPEED,
    MaxInstant, MaxWall, MaxEmitted

ASAP == <<0, 1>>

ASSUME TimeAssumption ==
    /\ TickResolution \subseteq Nat \ {0} /\ TickHz \in TickResolution
    /\ NanosPerSecond \in Nat \ {0}
    /\ Speeds \subseteq Int \X (Nat \ {0})
    /\ MIN_SPEED \in (Nat \ {0}) \X (Nat \ {0}) /\ MAX_SPEED \in (Nat \ {0}) \X (Nat \ {0})
    /\ MaxInstant \in Nat /\ MaxWall \in Nat

VARIABLES
    sim_now,           \* SimClock._now
    speed, run_start,  \* PacedClock
    pacer_start,       \* _pacer_start_monotonic_ns
    wall,              \* the monotonic clock
    waiting,           \* the instant advance_to is blocked on, Unasked if none
    emitted            \* history: [instant, wall], the advances that returned

time_vars == <<sim_now, speed, run_start, pacer_start, wall, waiting, emitted>>

Unasked == -1
Abs(n) == IF n < 0 THEN -n ELSE n
-----------------------------------------------------------------------------
\* ROUND_HALF_UP of Decimal: to the nearest, a tie away from zero.
RoundHalfUp(p, q) ==
    LET magnitude == (2 * Abs(p) + q) \div (2 * q)
    IN  IF p < 0 THEN -magnitude ELSE magnitude

duration_from_seconds(seconds, hz) == RoundHalfUp(seconds[1] * hz, seconds[2])

\* timeout() refuses an expiry before the epoch, -1 here.
timeout(now, duration) == IF now + duration < 0 THEN -1 ELSE now + duration

\* advance_to(): equal is allowed, backwards is refused.
MayAdvance(now, instant) == instant >= 0 /\ instant >= now
-----------------------------------------------------------------------------
(* PacedClock                                                              *)

SpeedAllowed(s) ==
    s = ASAP \/ (MIN_SPEED[1] * s[2] <= s[1] * MIN_SPEED[2]
                   /\ s[1] * MAX_SPEED[2] <= MAX_SPEED[1] * s[2])

target_wall_ns(instant) ==
    pacer_start + ((instant - run_start) * NanosPerSecond * speed[2]) \div (TickHz * speed[1])

\* The clock the pacer wraps may already have run when it is wrapped.
PacedInit ==
    /\ speed \in {s \in Speeds : SpeedAllowed(s)}
    /\ sim_now \in 0..1 /\ run_start = sim_now
    /\ wall \in 0..1 /\ pacer_start = wall
    /\ waiting = Unasked /\ emitted = <<>>

WallTick ==
    /\ wall < MaxWall /\ wall' = wall + 1
    /\ UNCHANGED <<sim_now, speed, run_start, pacer_start, waiting, emitted>>

\* advance_to() is called, with an instant of the past too.
AskAdvance(instant) ==
    /\ waiting = Unasked
    /\ waiting' = instant
    /\ UNCHANGED <<sim_now, speed, run_start, pacer_start, wall, emitted>>

\* The block is over: monotonic_ns has reached the target, or nothing paces.
MayEmit(instant) == speed # ASAP => wall >= target_wall_ns(instant)

Advance ==
    /\ waiting # Unasked /\ MayEmit(waiting)
    /\ MayAdvance(sim_now, waiting)
    /\ sim_now' = waiting
    /\ emitted' = Append(emitted, [instant |-> waiting, wall |-> wall])
    /\ waiting' = Unasked
    /\ UNCHANGED <<speed, run_start, pacer_start, wall>>

\* The wrapped clock refuses to run backwards; the caller gets the error.
AdvanceRefused ==
    /\ waiting # Unasked /\ MayEmit(waiting)
    /\ ~MayAdvance(sim_now, waiting)
    /\ waiting' = Unasked
    /\ UNCHANGED <<sim_now, speed, run_start, pacer_start, wall, emitted>>

PacedNext ==
    \/ WallTick \/ Advance \/ AdvanceRefused
    \/ \E instant \in 0..MaxInstant : Len(emitted) < MaxEmitted /\ AskAdvance(instant)
-----------------------------------------------------------------------------
\* PacedClock.advance_to: pacing delays and never reorders. The instants that
\* were emitted are in order, and none came before its share of wall time.
NeverEarly ==
    /\ \A i, j \in DOMAIN emitted :
          i < j => emitted[i].instant <= emitted[j].instant /\ emitted[i].wall <= emitted[j].wall
    /\ speed # ASAP => \A i \in DOMAIN emitted :
          (emitted[i].wall - pacer_start + 1) * TickHz * speed[1]
             > (emitted[i].instant - run_start) * NanosPerSecond * speed[2]
    /\ emitted # <<>> => sim_now = Last(emitted).instant

\* duration_from_seconds against its own definition: the nearest tick, and of
\* two nearest the one further from zero.
NearestTick(p, q) ==
    LET t == RoundHalfUp(p, q)
    IN  /\ 2 * Abs(t * q - p) <= q
        /\ 2 * Abs(t * q - p) = q => Abs(t * q) > Abs(p)
=============================================================================
