--------------------------- MODULE OrderedChannel ---------------------------
(***************************************************************************)
(* What the outgoing side of a Wisp connection promises to the goroutines  *)
(* that send on it: frames are accepted in one order, they reach the       *)
(* socket in exactly that order with no gap and no duplicate, and once the *)
(* socket is down nothing more is delivered.  How frames are queued, who   *)
(* writes them and how callers are answered is left to WriteQueue, which   *)
(* is shown to implement this specification.                               *)
(***************************************************************************)
EXTENDS Sequences, Naturals

CONSTANT Frames

VARIABLES accepted,   \* frames in the order the channel took them
          wire,       \* frames in the order the socket took them
          up          \* the socket still takes frames

vars == <<accepted, wire, up>>

Init == accepted = <<>> /\ wire = <<>> /\ up = TRUE

\* A frame the channel has not taken before joins the end of the order.
Accept(f) ==
    /\ \A i \in 1..Len(accepted) : accepted[i] # f
    /\ accepted' = Append(accepted, f)
    /\ UNCHANGED <<wire, up>>

\* The oldest undelivered frame is delivered.
Deliver ==
    /\ up
    /\ Len(wire) < Len(accepted)
    /\ wire' = Append(wire, accepted[Len(wire) + 1])
    /\ UNCHANGED <<accepted, up>>

\* The socket is closed or breaks, for good.
Down == up /\ up' = FALSE /\ UNCHANGED <<accepted, wire>>

Next == (\E f \in Frames : Accept(f)) \/ Deliver \/ Down

Spec == Init /\ [][Next]_vars
=============================================================================
