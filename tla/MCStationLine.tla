--------------------------- MODULE MCStationLine ---------------------------
(* Small instances of StationLine. *)
EXTENDS StationLine

\* Distinct quantities, so that a wrong pallet shows in the units.
MCQty == [p \in Pallets |-> p]
MCReleaseTicks == {0, 1}
MCServiceTicks == {0, 2}
MCHorizons == {NoHorizon, 3}
=============================================================================
