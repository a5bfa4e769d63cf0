----------------------------- MODULE LockstepLog -----------------------------
(***************************************************************************)
(* What the rollback session promises the game: two players write one log  *)
(* of inputs each, and every peer settles the frames of a single timeline  *)
(* in order, a frame only once both inputs for it are written.  How inputs *)
(* travel, how a peer guesses ahead and when it rolls back are invisible   *)
(* here; InputExchange implements this specification.                      *)
(***************************************************************************)
EXTENDS Integers, Sequences

CONSTANTS
    Peer,       \* the players
    Cmd,        \* input words
    Neutral,    \* the word that pads a log
    Padding     \* Padding[p]: frames p's log is padded with before the match

\* What the theorems assume of the constants.
PaddingAssumption == Padding \in [Peer -> Nat] /\ Neutral \in Cmd

VARIABLES
    log,        \* log[p]: the words p's player committed, in frame order
    timeline    \* timeline[p]: the frames p has settled

logVars == <<log, timeline>>

\* The settled frame i, as the two logs write it.
JointInput(i) == [q \in Peer |-> log'[q][i]]

LogInit ==
    /\ log = [p \in Peer |-> [i \in 1 .. Padding[p] |-> Neutral]]
    /\ timeline = [p \in Peer |-> <<>>]

CommitInput(p) == \E c \in Cmd : log' = [log EXCEPT ![p] = Append(@, c)]

\* Settle frames up to n, all of them written by both players.
Settle(p) ==
    \E n \in Len(timeline[p]) .. Len(log'[p]) :
        /\ \A q \in Peer : n <= Len(log'[q])
        /\ timeline' = [timeline EXCEPT ![p] =
                          @ \o [i \in 1 .. (n - Len(@)) |-> JointInput(Len(@) + i)]]

LogStep(p) == (CommitInput(p) \/ UNCHANGED log) /\ Settle(p)

LogNext == \E p \in Peer : LogStep(p)

LogSpec == LogInit /\ [][LogNext]_logVars

-----------------------------------------------------------------------------
LogTypeOK ==
    /\ log \in [Peer -> Seq(Cmd)]
    /\ timeline \in [Peer -> Seq([Peer -> Cmd])]

\* A settled frame carries the inputs both players committed for it, so two
\* peers never disagree on a frame they have both settled.
Agreement ==
    /\ \A p \in Peer : \A i \in 1 .. Len(timeline[p]) :
          \A q \in Peer : i <= Len(log[q]) /\ timeline[p][i][q] = log[q][i]
    /\ \A p, q \in Peer : \A i \in 1 .. Len(timeline[p]) :
          i <= Len(timeline[q]) => timeline[p][i] = timeline[q][i]
=============================================================================
