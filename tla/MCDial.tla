------------------------------- MODULE MCDial -------------------------------
(* A name whose addresses differ in family and in reachability.            *)
EXTENDS Dial, TLC

MCClass == [pub4 |-> "public", pub6 |-> "public", priv4 |-> "private"]
MCV4 == {"pub4", "priv4"}
MCZones == {<<"pub6", "priv4", "pub4">>, <<"priv4">>}
MCConfigs ==
    {[private |-> FALSE, loopback |-> FALSE, direct |-> FALSE, order |-> "ipv4first"],
     [private |-> TRUE, loopback |-> FALSE, direct |-> TRUE, order |-> "verbatim"]}
StreamSymmetry == Permutations(Streams)
=============================================================================
