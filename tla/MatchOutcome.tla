----------------------------- MODULE MatchOutcome -----------------------------
(***************************************************************************)
(* What the match server promises about matches: two free players are put  *)
(* together, the match is played once both have started, and it ends once, *)
(* without a winner or with one the other player has conceded to.          *)
(* MatchServer implements it.                                              *)
(***************************************************************************)
EXTENDS Naturals, FiniteSets

CONSTANTS
    User,               \* the accounts
    Nobody,             \* the winner of a match without one
    MatchId             \* match numbers, each used once

VARIABLE match          \* match[m]: players, phase, winner, who conceded

Phase == {"none", "setup", "playing", "ended"}
Open == {"setup", "playing"}

NoMatch == [players |-> {}, phase |-> "none", winner |-> Nobody, conceded |-> {}]

OutcomeInit == match = [m \in MatchId |-> NoMatch]

Keeps(m) == match'[m] = match[m]

\* Two players who are in no other open match meet in match m.
Start(m) ==
    /\ match[m].phase = "none"
    /\ \E a, b \in User :
        /\ a # b
        /\ match'[m] = [NoMatch EXCEPT !.players = {a, b}, !.phase = "setup"]
    /\ \A n \in MatchId \ {m} :
        match'[n].phase \in Open => match'[n].players \cap match'[m].players = {}

\* Both players have reported that they play.
Begin(m) ==
    /\ match[m].phase = "setup"
    /\ match'[m] = [match[m] EXCEPT !.phase = "playing"]

\* A player of a match in play gives it up.
Concede(m) ==
    /\ match[m].phase = "playing"
    /\ \E C \in SUBSET match[m].players :
        match'[m] = [match[m] EXCEPT !.conceded = match[m].conceded \cup C]

\* The match ends for one player: the other has conceded, at the latest now.
Win(m) ==
    /\ match[m].phase = "playing"
    /\ \E w, l \in match[m].players, C \in SUBSET match[m].players :
        /\ w # l
        /\ l \in match[m].conceded \cup C
        /\ match'[m] = [match[m] EXCEPT !.phase = "ended", !.winner = w,
                                        !.conceded = match[m].conceded \cup C]

\* The match ends without a winner.
Void(m) ==
    /\ match[m].phase \in Open
    /\ \E C \in SUBSET match[m].players :
        match'[m] = [match[m] EXCEPT !.phase = "ended",
                                     !.conceded = match[m].conceded \cup C]

Step(m) == Start(m) \/ Begin(m) \/ Concede(m) \/ Win(m) \/ Void(m)

\* One event of the server may concern several matches: its sweep does.
OutcomeNext ==
    /\ match' \in [MatchId -> {match'[m] : m \in MatchId}]
    /\ \A m \in MatchId : Keeps(m) \/ Step(m)

OutcomeSpec == OutcomeInit /\ [][OutcomeNext]_match

-----------------------------------------------------------------------------
TypeOK ==
    match \in [MatchId -> [players : SUBSET User, phase : Phase,
                           winner : User \cup {Nobody}, conceded : SUBSET User]]

\* No player is in two open matches: makeMatch binds both clients to the new
\* match, and whatever ends a match frees them.
OneMatchPerPlayer ==
    \A m, n \in MatchId :
        /\ match[m].phase \in Open /\ match[n].phase \in Open
        /\ match[m].players \cap match[n].players # {}
        => m = n

\* Whoever wins, the other player conceded: by naming the winner, by
\* forfeiting or by leaving.  A player's own word is never enough.
WinnerWasConceded ==
    \A m \in MatchId :
        match[m].winner # Nobody =>
            /\ match[m].phase = "ended"
            /\ match[m].winner \in match[m].players
            /\ \E l \in match[m].conceded : l # match[m].winner

\* An ended match stays as it is, winner included.
OutcomeIsFinal ==
    [][\A m \in MatchId : match[m].phase = "ended" => match'[m] = match[m]]_match
=============================================================================
