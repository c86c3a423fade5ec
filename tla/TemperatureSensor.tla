--------------------------- MODULE TemperatureSensor ---------------------------
(***************************************************************************)
(* The conveyor motor temperature sensor of twinflow.sensors               *)
(* (temperature.py): a reading outside the plausibility band is published  *)
(* raw, is marked bad, and never enters the filter.                        *)
(*                                                                         *)
(* Temperatures are integers and the smoothing constant is a fraction; the *)
(* filter's value is the exact rational <<numerator, denominator>>.        *)
(***************************************************************************)
EXTENDS Integers, Sequences, FiniteSetsExt

CONSTANTS
    ABSOLUTE_ZERO_C,
    Band,              \* PlausibilityBand: low_c, high_c
    EwmaAlpha,         \* ewma_alpha as <<numerator, denominator>>
    RawReadings,       \* the raw values the channel may deliver
    MaxReadings        \* readings in one behaviour

PlausibilityBand(b) == b.low_c < b.high_c /\ b.low_c >= ABSOLUTE_ZERO_C

TemperatureSensorConfig(alpha) ==
    alpha[2] > 0 /\ 0 < alpha[1] /\ alpha[1] <= alpha[2]

ASSUME TemperatureAssumption ==
    /\ PlausibilityBand(Band) /\ TemperatureSensorConfig(EwmaAlpha)
    /\ MaxReadings \in Nat

VARIABLES
    ewma,              \* _ewma, Unseeded before the first good reading
    readings           \* history: the TemperatureReadings handed back

temperature_vars == <<ewma, readings>>

Unseeded == <<>>

\* A reading exactly at a bound is plausible.
contains(raw) == Band.low_c <= raw /\ raw <= Band.high_c

violated_bound(raw) ==
    CASE raw < Band.low_c  -> "low_c"
      [] raw > Band.high_c -> "high_c"
      [] contains(raw)     -> "none"

\* The first good reading seeds the filter.
Smooth(raw) ==
    IF ewma = Unseeded THEN <<raw, 1>>
    ELSE <<EwmaAlpha[1] * raw * ewma[2] + (EwmaAlpha[2] - EwmaAlpha[1]) * ewma[1],
           EwmaAlpha[2] * ewma[2]>>

TemperatureReading(raw, derived) ==
    [raw_c |-> raw, plausible |-> derived # Unseeded, derived_c |-> derived,
     violation |-> violated_bound(raw)]

ReadTemperature(raw) ==
    /\ Len(readings) < MaxReadings
    /\ ewma' = IF violated_bound(raw) = "none" THEN Smooth(raw) ELSE ewma
    /\ readings' = Append(readings, TemperatureReading(raw,
                       IF violated_bound(raw) = "none" THEN ewma' ELSE Unseeded))

\* metric_values(): the raw value always, the derived one when there is one.
PublishedParameters(reading) ==
    {"motor_temp_c"} \cup {p \in {"motor_temp_ewma_c"} : reading.derived_c # Unseeded}

metric_parameters == {"motor_temp_ewma_c", "motor_temp_c"}

TemperatureInit == ewma = Unseeded /\ readings = <<>>

TemperatureNext == \E raw \in RawReadings : ReadTemperature(raw)
-----------------------------------------------------------------------------
Good(n) == SelectSeq(SubSeq(readings, 1, n), LAMBDA r : contains(r.raw_c))

\* The closed form of the filter over n good readings g: the newest weighs
\* alpha, each older one a factor 1 - alpha less, and the first what is left.
ClosedForm(g) ==
    LET n == Len(g)
        a == EwmaAlpha[1]
        b == EwmaAlpha[2]
        Weight(i) == (IF i = 1 THEN b ELSE a) * (b - a) ^ (n - i) * b ^ (i - 1)
    IN  <<MapThenSumSet(LAMBDA i : Weight(i) * g[i].raw_c, 1..n), b ^ n>>

\* read(): an implausible value is handed on unclamped and leaves no trace in
\* any later derived value; every other derived value is the filter over the
\* good readings alone.
DerivedFromGoodReadings ==
    \A n \in DOMAIN readings :
        LET r == readings[n]
            closed == ClosedForm(Good(n))
        IN  /\ (r.derived_c # Unseeded) <=> contains(r.raw_c)
            /\ r.plausible <=> r.violation = "none"
            /\ contains(r.raw_c) => r.derived_c[1] * closed[2] = closed[1] * r.derived_c[2]
            /\ PublishedParameters(r) \subseteq metric_parameters
=============================================================================
