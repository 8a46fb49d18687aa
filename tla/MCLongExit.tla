----------------------------- MODULE MCLongExit -----------------------------
(* Constants of the model-checking runs of LongExit: the entry is 20 ticks,  *)
(* so 15 is the hard stop, 22 and 24 the theta window, 24 arms the gap       *)
(* trail, 30 the 50% trail, and 40 is the target.                            *)
EXTENDS LongExit

AllMarks == {14, 15, 16, 20, 22, 24, 29, 30, 33, 39, 40, 44}
Underlying == {-1, 0, 2, 4}

\* One gap behind a move of 2, one behind a move of 4, one from before the entry.
Chart == {[near |-> 1, far |-> 0], [near |-> 3, far |-> 2], [near |-> -3, far |-> -5]}

=============================================================================
