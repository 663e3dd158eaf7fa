--------------------------- MODULE MCFrameReader ---------------------------
(* Two frames that the reader may go on from, and any third one.           *)
EXTENDS FrameReader

MCFrame(op, fin, ext, len) ==
    [op |-> op, fin |-> fin, bad |-> FALSE, ext |-> ext, len |-> len, top |-> FALSE]

MCGoing == { MCFrame(2, TRUE, 0, 2), MCFrame(2, FALSE, 0, 1), MCFrame(0, FALSE, 8, 1),
             MCFrame(0, TRUE, 2, 2), MCFrame(9, TRUE, 0, 1) }
MCLast == MCGoing \cup
           { MCFrame(2, TRUE, 8, 4), MCFrame(0, TRUE, 0, 0), MCFrame(1, TRUE, 0, 1),
             MCFrame(8, TRUE, 0, 0), MCFrame(8, TRUE, 0, 1), MCFrame(8, TRUE, 0, 2),
             MCFrame(9, TRUE, 0, 3), MCFrame(10, TRUE, 0, 0), MCFrame(3, TRUE, 0, 0),
             [MCFrame(2, TRUE, 0, 1) EXCEPT !.bad = TRUE],
             [MCFrame(2, TRUE, 8, 1) EXCEPT !.top = TRUE] }
MCInputs == {<<a, b, c>> : a, b \in MCGoing, c \in MCLast}
=============================================================================
