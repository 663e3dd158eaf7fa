------------------------------ MODULE MCLimits ------------------------------
(***************************************************************************)
(* A request is resolved to the address it is counted under (ClientIP);   *)
(* then the goroutines of that source run against its limiters (Limits).   *)
(* The limiters see nothing of a request but the address, so one request   *)
(* without headers stands for all the others there. Callers are alike.     *)
(***************************************************************************)
EXTENDS Limits, ClientIP

MCInit == Init /\ ClientIPInit

Resolving == ClientIPNext /\ UNCHANGED vars

Plain == hops = 0 /\ \A i \in Names : headers[i] = Absent
Limiting == counted # Nobody /\ Plain /\ Next /\ UNCHANGED clientIPVars

MCSpec == MCInit /\ [][Resolving \/ Limiting]_<<vars, clientIPVars>>

Symmetry == Permutations(Callers)

=============================================================================
