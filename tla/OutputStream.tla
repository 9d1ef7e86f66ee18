---------------------------- MODULE OutputStream ----------------------------
(***************************************************************************)
(* What a terminal view promises while one invocation runs, without        *)
(* buffers, connections or acknowledgments: the screen shows the output    *)
(* byte by byte, in order and once; it may skip ahead over output that is  *)
(* no longer kept, but then starts over; and it never goes back.           *)
(***************************************************************************)
EXTENDS Naturals, Sequences

CONSTANT Total    \* bytes of output, at most

VARIABLES produced,  \* bytes the harness has written
          next,      \* the next byte to show
          shown      \* offsets of the bytes on the screen

vars == <<produced, next, shown>>

Init == produced = 0 /\ next = 0 /\ shown = <<>>

Produce ==
    /\ produced' \in (produced + 1)..Total
    /\ UNCHANGED <<next, shown>>

\* The bytes from next up to n, without n, appear.
Show ==
    \E n \in (next + 1)..produced :
        /\ shown' = shown \o [i \in 1..(n - next) |-> next + i - 1]
        /\ next' = n
        /\ UNCHANGED produced

Skip ==
    /\ next' \in next..produced
    /\ shown' = <<>>
    /\ UNCHANGED produced

Next == Produce \/ Show \/ Skip

Spec == Init /\ [][Next]_vars
=============================================================================
