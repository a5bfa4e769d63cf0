---------------------------- MODULE CorrectionRound ----------------------------
(***************************************************************************)
(* What the correction barrier promises: the players leave the game, all   *)
(* of them are out before the first one rebuilds its timeline, and all of  *)
(* them have rebuilt it before the first one plays on.  The messages that  *)
(* bring this about are CorrectionBarrier's, which implements this.        *)
(***************************************************************************)
EXTENDS Naturals

CONSTANT Player

VARIABLES
    state,      \* state[p]: playing, frozen, or replayed and still waiting
    round       \* round[p]: the corrections p has replayed

roundVars == <<state, round>>

RoundInit ==
    /\ state = [p \in Player |-> "playing"]
    /\ round = [p \in Player |-> 0]

Freeze(p) ==
    /\ state[p] = "playing"
    /\ state' = [state EXCEPT ![p] = "frozen"]
    /\ UNCHANGED round

Replay(p) ==
    /\ state[p] = "frozen"
    /\ \A q \in Player : state[q] # "playing"
    /\ state' = [state EXCEPT ![p] = "replayed"]
    /\ round' = [round EXCEPT ![p] = @ + 1]

Resume(p) ==
    /\ state[p] = "replayed"
    /\ \A q \in Player : round[q] = round[p]
    /\ state' = [state EXCEPT ![p] = "playing"]
    /\ UNCHANGED round

RoundNext == \E p \in Player : Freeze(p) \/ Replay(p) \/ Resume(p)

RoundSpec == RoundInit /\ [][RoundNext]_roundVars

-----------------------------------------------------------------------------
RoundTypeOK ==
    /\ state \in [Player -> {"playing", "frozen", "replayed"}]
    /\ round \in [Player -> Nat]

\* Nobody plays on a timeline that another player has not rebuilt yet, or has
\* already replaced.
OneTimeline ==
    \A p, q \in Player : state[p] = "playing" => round[q] = round[p]
=============================================================================
