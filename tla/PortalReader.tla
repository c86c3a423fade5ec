----------------------------- MODULE PortalReader -----------------------------
(***************************************************************************)
(* The UHF portal reader of twinflow.sensors (portal.py): the bounded      *)
(* accumulation of an inventory keyed by (EPC, antenna), the two portal    *)
(* faults, and the telemetry a window publishes.                           *)
(*                                                                         *)
(* An EPC is a sequence of EPC_LENGTH hexadecimal digits.  The running     *)
(* mean is an exact rational <<numerator, denominator>>: what the code     *)
(* does in floating point up to rounding.  A beta draw is external; what   *)
(* the code refuses before it draws is modelled, with its parameters in    *)
(* per mille.                                                              *)
(***************************************************************************)
EXTENDS Integers, Sequences, SequencesExt, FiniteSetsExt, Functions

CONSTANTS
    EPC_LENGTH,        \* digits of an EPC
    HexDigits,         \* the hexadecimal digits the instance uses
    Reader,            \* ReaderConfig: sensitivity_dbm, silence_threshold_ticks,
                       \* max_epcs, epc_prefix (<<FALSE>> for None, <<TRUE, digits>>)
    AirReads,          \* the read records the RF layer may produce
    PortalTicks,       \* the last instant of the window
    MaxReads           \* read records taken in one behaviour

VARIABLES
    aggregates,        \* _aggregates: (epc, port) -> ReadAggregate
    epcs,              \* _epcs, the tracked tags
    dropped_epcs,      \* _dropped_epcs
    dropped_reads, filtered_reads,
    last_read_ts,      \* _last_read_ts, Never before the first read
    portal_now,        \* the instant the caller is at
    stamped,           \* the caller passes now to observe
    read_log           \* history: the records observe() took, with the instant

portal_vars == <<aggregates, epcs, dropped_epcs, dropped_reads, filtered_reads,
                 last_read_ts, portal_now, stamped, read_log>>

Never == -1
Unread == <<>>            \* the None of a value nobody could read
-----------------------------------------------------------------------------
(* What the constructors refuse.                                           *)

Epcs == [1..EPC_LENGTH -> HexDigits]

TagRead(r) ==
    /\ r.epc \in Epcs
    /\ r.antenna_port >= 1
    /\ r.rssi_dbm < 0
    /\ 0 <= r.phase_deg /\ r.phase_deg < 360
    /\ r.read_count >= 1

EpcPrefixFilter(prefix) ==
    /\ prefix # <<>>
    /\ Len(prefix) <= EPC_LENGTH
    /\ ToSet(prefix) \subseteq HexDigits

ReaderConfig(c) ==
    /\ c.sensitivity_dbm < 0
    /\ c.silence_threshold_ticks >= 1
    /\ c.max_epcs >= 1
    /\ c.epc_prefix[1] => EpcPrefixFilter(c.epc_prefix[2])

\* epc_filter() and matches(): no prefix takes every tag on purpose.
Matches(epc) == Reader.epc_prefix[1] => IsPrefix(Reader.epc_prefix[2], epc)
-----------------------------------------------------------------------------
(* _accumulate                                                             *)

SameRatio(p, q) == p[1] * q[2] = q[1] * p[2]

FirstOf(r) ==
    [epc |-> r.epc, antenna_port |-> r.antenna_port, read_count |-> r.read_count,
     rssi_min_dbm |-> r.rssi_dbm, rssi_max_dbm |-> r.rssi_dbm,
     rssi_mean_dbm |-> <<r.rssi_dbm, 1>>,
     first_seen_ts |-> r.sim_ts, last_seen_ts |-> r.sim_ts]

\* Mutant: the incoming sample weighs one, whatever its read count.
MeanUnweighted(a, r) ==
    LET mean == a.rssi_mean_dbm
    IN  <<mean[1] * a.read_count + r.rssi_dbm * mean[2],
          mean[2] * (a.read_count + 1)>>

WeightedMean(a, r) ==
    LET mean == a.rssi_mean_dbm
    IN  <<mean[1] * a.read_count + r.rssi_dbm * r.read_count * mean[2],
          mean[2] * (a.read_count + r.read_count)>>

Accumulate(a, r) ==
    [a EXCEPT !.read_count = @ + r.read_count,
              !.rssi_min_dbm = Min({@, r.rssi_dbm}),
              !.rssi_max_dbm = Max({@, r.rssi_dbm}),
              !.rssi_mean_dbm = WeightedMean(a, r),
              !.first_seen_ts = Min({@, r.sim_ts}),
              !.last_seen_ts = Max({@, r.sim_ts})]
-----------------------------------------------------------------------------
(* offer(): a record is filtered, dropped or accumulated.                  *)

Key(r) == <<r.epc, r.antenna_port>>

\* At the cap only a tag that is not tracked yet is refused.
AtCap(r) == r.epc \notin epcs /\ Cardinality(epcs) >= Reader.max_epcs

Filtered(r) ==
    /\ ~Matches(r.epc)
    /\ filtered_reads' = filtered_reads + 1
    /\ UNCHANGED <<aggregates, epcs, dropped_epcs, dropped_reads, last_read_ts>>

Dropped(r) ==
    /\ Matches(r.epc) /\ AtCap(r)
    /\ dropped_epcs' = dropped_epcs \cup {r.epc}
    /\ dropped_reads' = dropped_reads + 1
    /\ UNCHANGED <<aggregates, epcs, filtered_reads, last_read_ts>>

Accumulated(r) ==
    /\ Matches(r.epc) /\ ~AtCap(r)
    /\ epcs' = epcs \cup {r.epc}
    /\ LET key == Key(r)
           folded == IF key \in DOMAIN aggregates THEN Accumulate(aggregates[key], r)
                                                  ELSE FirstOf(r)
       IN  aggregates' = [k \in DOMAIN aggregates \cup {key} |->
                             IF k = key THEN folded ELSE aggregates[k]]
    /\ last_read_ts' = IF stamped THEN portal_now ELSE r.sim_ts
    /\ UNCHANGED <<dropped_epcs, dropped_reads, filtered_reads>>

\* observe(): a record that is no TagRead, or is weaker than the sensitivity,
\* raises and changes nothing.  Records come in any order of their instants.
Observe(r) ==
    /\ TagRead(r) /\ r.rssi_dbm >= Reader.sensitivity_dbm
    /\ Len(read_log) < MaxReads
    /\ Filtered(r) \/ Dropped(r) \/ Accumulated(r)
    /\ read_log' = Append(read_log, [read |-> r, at |-> portal_now])
    /\ UNCHANGED <<portal_now, stamped>>

PortalTick ==
    /\ portal_now < PortalTicks
    /\ portal_now' = portal_now + 1
    /\ UNCHANGED <<aggregates, epcs, dropped_epcs, dropped_reads, filtered_reads,
                   last_read_ts, stamped, read_log>>

PortalInit ==
    /\ aggregates = <<>> /\ epcs = {} /\ dropped_epcs = {}
    /\ dropped_reads = 0 /\ filtered_reads = 0
    /\ last_read_ts = Never /\ portal_now = 0 /\ read_log = <<>>
    /\ stamped \in BOOLEAN

PortalNext == PortalTick \/ \E r \in AirReads : Observe(r)
-----------------------------------------------------------------------------
(* What a window says of the inventory.                                    *)

total_reads == MapThenSumSet(LAMBDA k : aggregates[k].read_count, DOMAIN aggregates)

\* The read-count-weighted mean of the aggregates' means, over one denominator.
mean_rssi_dbm ==
    LET keys == DOMAIN aggregates
        Denominator == MapThenFoldSet(LAMBDA m, n : m * n, 1,
                                      LAMBDA k : aggregates[k].rssi_mean_dbm[2],
                                      LAMBDA s : CHOOSE k \in s : TRUE, keys)
        Weighted(k) == aggregates[k].rssi_mean_dbm[1] * aggregates[k].read_count
                         * (Denominator \div aggregates[k].rssi_mean_dbm[2])
    IN  IF total_reads = 0 THEN Unread
        ELSE <<MapThenSumSet(Weighted, keys), Denominator * total_reads>>

diagnose_portal(reachable, since) ==
    CASE ~reachable                                        -> "unreachable"
      [] reachable /\ since > Reader.silence_threshold_ticks  -> "silent"
      [] reachable /\ since <= Reader.silence_threshold_ticks -> "none"

\* A reader that never read anything has been silent for no time at all.
Fault(now, reachable) ==
    diagnose_portal(reachable, IF last_read_ts = Never THEN 0 ELSE now - last_read_ts)

\* metric_values(): what is not known is omitted, never published as zero.
metric_values(read_rate, tags_expected) ==
    {"unique_epcs", "reads_total", "dropped_new_epcs"}
      \cup {p \in {"read_rate"} : read_rate # Unread}
      \cup {p \in {"tags_expected"} : tags_expected # Unread}
      \cup {p \in {"rssi_mean_dbm"} : mean_rssi_dbm # Unread}

metric_specs == {"dropped_new_epcs", "read_rate", "reads_total", "rssi_mean_dbm",
                 "tags_expected", "unique_epcs"}

\* beta_scaled refuses a support, a mean or a concentration it cannot scale.
READ_RATE_BETA == [lo |-> 0, hi |-> 1000, mean |-> 986, conc |-> 400000]

beta_scaled_defined(p) ==
    p.lo < p.hi /\ p.lo < p.mean /\ p.mean < p.hi /\ p.conc > 0

\* draw_read_rate: the caller's parameters over the documented ones.
draw_read_rate_defined(params) == beta_scaled_defined(params @@ READ_RATE_BETA)
ASSUME PortalAssumption ==
    /\ ReaderConfig(Reader)
    /\ draw_read_rate_defined(<<>>)
    /\ PortalTicks \in Nat /\ MaxReads \in Nat
-----------------------------------------------------------------------------
(* The reference: the inventory as a function of the records taken.        *)

InZone == SelectSeq(read_log, LAMBDA e : Matches(e.read.epc))

TagsUpTo(n) == {InZone[i].read.epc : i \in 1..n}

\* The first max_epcs distinct tags of the zone.
FirstTags == {InZone[i].read.epc : i \in {j \in DOMAIN InZone :
                 Cardinality(TagsUpTo(j)) <= Reader.max_epcs}}

Kept == {i \in DOMAIN InZone : InZone[i].read.epc \in FirstTags}

OfKey(k) == {i \in Kept : Key(InZone[i].read) = k}

CountOf(is) == MapThenSumSet(LAMBDA i : InZone[i].read.read_count, is)
WeightOf(is) ==
    MapThenSumSet(LAMBDA i : InZone[i].read.read_count * InZone[i].read.rssi_dbm, is)
Levels(is) == {InZone[i].read.rssi_dbm : i \in is}
Instants(is) == {InZone[i].read.sim_ts : i \in is}

\* Whatever order the records came in, late ones included, each (tag, antenna)
\* aggregate is the sum, the extremes and the weighted mean of its records.
AggregatesAreTheReads ==
    /\ DOMAIN aggregates = {Key(InZone[i].read) : i \in Kept}
    /\ \A k \in DOMAIN aggregates :
          LET is == OfKey(k)
              a == aggregates[k]
          IN  /\ <<a.epc, a.antenna_port>> = k
              /\ a.read_count = CountOf(is)
              /\ SameRatio(a.rssi_mean_dbm, <<WeightOf(is), CountOf(is)>>)
              /\ a.rssi_min_dbm = Min(Levels(is)) /\ a.rssi_max_dbm = Max(Levels(is))
              /\ a.first_seen_ts = Min(Instants(is)) /\ a.last_seen_ts = Max(Instants(is))

\* The cap loses no count: every record is filtered, dropped or accumulated,
\* and what was dropped is exactly what came after the first max_epcs tags.
EveryReadIsCounted ==
    /\ epcs = FirstTags
    /\ filtered_reads = Len(read_log) - Len(InZone)
    /\ dropped_reads = Len(InZone) - Cardinality(Kept)
    /\ dropped_epcs = TagsUpTo(Len(InZone)) \ FirstTags
    /\ total_reads = CountOf(Kept)
    /\ Kept # {} => SameRatio(mean_rssi_dbm, <<WeightOf(Kept), CountOf(Kept)>>)

\* Once the reader has kept a record, silence is never missed: SILENT is reported
\* when every record kept is older than the threshold.  It is reported of nothing
\* else while the caller passes its instant; without it a late record moves the
\* last read back, and a portal that has read since is SILENT too.  A reader that
\* never kept a record is never SILENT, an unreachable one neither.
SilenceIsReal ==
    LET Old(i) == portal_now - (IF stamped THEN InZone[i].at ELSE InZone[i].read.sim_ts)
                    > Reader.silence_threshold_ticks
    IN  /\ Fault(portal_now, FALSE) = "unreachable"
        /\ (Fault(portal_now, TRUE) = "silent")
             <=> /\ Kept # {}
                 /\ \/ \A i \in Kept : Old(i)
                    \/ ~stamped /\ Old(Max(Kept))

\* A window publishes only what the birth certificate declared.
PublishesWhatWasBorn ==
    \A rate, expected \in {Unread, <<1, 1>>} : metric_values(rate, expected) \subseteq metric_specs

\* InventoryAccumulator and PortalReader: the published inventory is a function
\* of the records taken, whatever the order, the cap and the filter did.
InventoryIsTheReads ==
    /\ AggregatesAreTheReads
    /\ EveryReadIsCounted
    /\ SilenceIsReal
    /\ PublishesWhatWasBorn
=============================================================================
