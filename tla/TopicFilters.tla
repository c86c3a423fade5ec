----------------------------- MODULE TopicFilters -----------------------------
(***************************************************************************)
(* Topics, topic filters and how they match: the pure part of              *)
(* twinflow.kernel's _impl/network.py, which the in-memory bus and the     *)
(* MQTT adapter share.                                                     *)
(*                                                                         *)
(* A topic or a filter is the sequence of its levels, <<>> the empty       *)
(* string.                                                                 *)
(***************************************************************************)
EXTENDS Integers, Sequences, SequencesExt, FiniteSetsExt

SINGLE_LEVEL == "+"
MULTI_LEVEL == "#"

\* Frame.__post_init__
FrameTopic(topic) ==
    topic # <<>> /\ SINGLE_LEVEL \notin ToSet(topic) /\ MULTI_LEVEL \notin ToSet(topic)

\* filter_levels accepts the filter.  Only the last level is looked at, so that
\* # may also stand earlier when the last level is # too.
FilterLevels(filter) ==
    filter # <<>> /\ (MULTI_LEVEL \in ToSet(filter) => Last(filter) = MULTI_LEVEL)

\* topic_matches: the first level that decides.
topic_matches(filter, topic) ==
    LET deciding == {i \in DOMAIN filter :
                        \/ filter[i] = MULTI_LEVEL
                        \/ i > Len(topic)
                        \/ filter[i] # SINGLE_LEVEL /\ filter[i] # topic[i]}
        i == Min(deciding)
    IN  IF deciding = {} THEN Len(filter) = Len(topic)
        ELSE filter[i] = MULTI_LEVEL /\ i - 1 <= Len(topic)
-----------------------------------------------------------------------------
(* MQTT's rule for a filter: a trailing # stands for any number of levels, *)
(* none included.                                                          *)

LevelsFit(levels, topic) ==
    Len(levels) = Len(topic) /\
    \A i \in DOMAIN levels : levels[i] = SINGLE_LEVEL \/ levels[i] = topic[i]

Selects(filter, topic) ==
    IF Last(filter) = MULTI_LEVEL
    THEN Len(Front(filter)) <= Len(topic) /\
         LevelsFit(Front(filter), SubSeq(topic, 1, Len(filter) - 1))
    ELSE LevelsFit(filter, topic)
=============================================================================
