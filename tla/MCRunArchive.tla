---------------------------- MODULE MCRunArchive ----------------------------
(* Three recordings of one run id.  The second has another configuration and *)
(* later arrivals, with the same log; the third another log.                 *)
EXTENDS RunArchive

Ev(i, t) == [id |-> i, ts |-> t]

MCRecordings == {
    [snapshot |-> "config-1", events |-> <<Ev("a", 0), Ev("b", 1)>>, arrivals |-> <<0, 1>>],
    [snapshot |-> "config-2", events |-> <<Ev("a", 0), Ev("b", 1)>>, arrivals |-> <<2, 2>>],
    [snapshot |-> "config-1", events |-> <<Ev("a", 1), Ev("b", 2)>>, arrivals |-> <<1, 3>>]}
=============================================================================
