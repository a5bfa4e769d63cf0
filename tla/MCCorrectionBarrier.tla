------------------------- MODULE MCCorrectionBarrier -------------------------
(* Small instances of CorrectionBarrier for TLC. *)
EXTENDS CorrectionBarrier, TLC

\* Nothing fails, but packets to the host, or those to the joiner, may overtake
\* each other; or replays may come out different and phases may pass their
\* deadline.
MCSettings ==
    {[timeout |-> 0, faithful |-> {TRUE}, inFlight |-> (Host :> 2) @@ (Join :> 1)],
     [timeout |-> 0, faithful |-> {TRUE}, inFlight |-> (Host :> 1) @@ (Join :> 2)],
     [timeout |-> 2, faithful |-> BOOLEAN, inFlight |-> (Host :> 1) @@ (Join :> 1)]}
=============================================================================
