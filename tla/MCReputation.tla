---------------------------- MODULE MCReputation ----------------------------
(* Instances of Reputation for TLC.                                        *)
EXTENDS Reputation

\* One weight that raises a score by more than a tier, one that lowers it.
MCWeights == {50, -50}
=============================================================================
