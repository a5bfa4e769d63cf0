---------------------------- MODULE MCMatchClient -----------------------------
(* Small instances of MatchClient for TLC. *)
EXTENDS MatchClient

CONSTANTS c1, c2

Calm == [matches |-> 1, faults |-> 0, drops |-> 0, corrections |-> 0,
         leave |-> FALSE, hands |-> {}, toast |-> {"hub", "main"}]
Again(hands) == [Calm EXCEPT !.matches = 2, !.hands = hands]

\* One thing goes wrong in a run, or the players meet again in one of the ways
\* they may, asking from the hub.
MCCourses ==
    {[Calm EXCEPT !.faults = 1], [Calm EXCEPT !.drops = 1], [Calm EXCEPT !.corrections = 1],
     [Calm EXCEPT !.leave = TRUE], Again({"rematch"}),
     Again({"queue"}), Again({"decline"})}

\* Nothing goes wrong, and players use the toast where it appears.
MCToast == {[Again({"rematch"}) EXCEPT !.toast = {"hub", "main", "game"}]}
=============================================================================
