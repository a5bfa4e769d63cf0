-------------------------- MODULE MCInputExchange --------------------------
(* Small instances of InputExchange for TLC. *)
EXTENDS InputExchange, TLC

CONSTANTS p1, p2, idle, act

\* Scripted players: p1 presses a button every third frame and p2 holds one
\* down, so that both kinds of misprediction happen.
MCScript ==
    (p1 :> [f \in 0 .. (MaxFrame + 2) |-> IF f % 3 = 2 THEN {act} ELSE {idle}])
    @@ (p2 :> [f \in 0 .. (MaxFrame + 2) |-> {act}])

MCDelay == (p1 :> 1) @@ (p2 :> 1)
MCDelayUneven == (p1 :> 2) @@ (p2 :> 1)

\* Packets to p1 may overtake each other; those to p2 only get lost.
MCReorder == (p1 :> 2) @@ (p2 :> 1)
MCOne == (p1 :> 1) @@ (p2 :> 1)
=============================================================================
