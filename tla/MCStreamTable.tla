---------------------------- MODULE MCStreamTable ----------------------------
(* StreamTable with two ids that share a cache slot, each used again.      *)
EXTENDS StreamTable

MCIds == {1, 2}
MCSlots == {"slot"}
MCSlot == [i \in MCIds |-> "slot"]
=============================================================================
