---------------------------- MODULE ReceivingLine ----------------------------
(***************************************************************************)
(* What the receiving and putaway line of twinflow.twin promises, with no  *)
(* event queue and no clock: every pallet walks the declared state table   *)
(* one edge at a time, at most ReceivingCapacity pallets are being         *)
(* unloaded, at most StagingCapacity stand in the staging buffer, at most  *)
(* PutawayCapacity are being put away, and the buffer is first in, first   *)
(* out.  StationLine, the model of station.py, implements it.              *)
(***************************************************************************)
EXTENDS Naturals, Sequences, FiniteSets

CONSTANTS NumPallets, ReceivingCapacity, PutawayCapacity, StagingCapacity

VARIABLES pallet_state, \* where each pallet is in the declared table
          buffer        \* the staged pallets, oldest first

Pallets == 1..NumPallets

In(st) == {p \in Pallets : pallet_state[p] = st}

Move(p, from, to) ==
    /\ pallet_state[p] = from
    /\ pallet_state' = [pallet_state EXCEPT ![p] = to]

Init ==
    /\ pallet_state = [p \in Pallets |-> "EXPECTED"]
    /\ buffer = <<>>

Arrive(p) ==
    /\ Move(p, "EXPECTED", "ON_TRUCK")
    /\ UNCHANGED buffer

Unload(p) ==
    /\ Cardinality(In("UNLOADING")) < ReceivingCapacity
    /\ Move(p, "ON_TRUCK", "UNLOADING")
    /\ UNCHANGED buffer

Stage(p) ==
    /\ Len(buffer) < StagingCapacity
    /\ Move(p, "UNLOADING", "STAGED")
    /\ buffer' = Append(buffer, p)

Pull(p) ==
    /\ buffer # <<>> /\ p = Head(buffer)
    /\ Cardinality(In("AWAITING_PUTAWAY")) < PutawayCapacity
    /\ Move(p, "STAGED", "AWAITING_PUTAWAY")
    /\ buffer' = Tail(buffer)

Store(p) ==
    /\ Move(p, "AWAITING_PUTAWAY", "STORED")
    /\ UNCHANGED buffer

Next == \E p \in Pallets : Arrive(p) \/ Unload(p) \/ Stage(p) \/ Pull(p) \/ Store(p)

Spec == Init /\ [][Next]_<<pallet_state, buffer>>
=============================================================================
