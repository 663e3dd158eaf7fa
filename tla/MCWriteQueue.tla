---------------------------- MODULE MCWriteQueue ----------------------------
(* Instances of WriteQueue for TLC.                                        *)
EXTENDS WriteQueue

CONSTANTS r1, r2, r3

MCRequests == {r1, r2, r3}

\* One frame twice as long, so that both one and two of the others fit with it
\* or overflow MaxPending = 3.
MCSize == [r \in MCRequests |-> IF r = r1 THEN 2 ELSE 1]
=============================================================================
