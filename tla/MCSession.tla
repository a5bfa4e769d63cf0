------------------------------ MODULE MCSession --------------------------------
(* FrameSerial, Prematch and ReplayWindow, independent parts of a session,     *)
(* each checked on a small instance: a behaviour is one of one of them, and    *)
(* the others stay as they started.                                            *)
EXTENDS FrameSerial, ReplayWindow, Prematch

Plain == [restarts |-> 0, when |-> "linked", faults |-> 0, ports |-> "same"]

\* A start state that fails to apply once; a session replaced once, after it was
\* seen or at any time.
MCSettings ==
    {[Plain EXCEPT !.faults = 1]}
    \cup {[Plain EXCEPT !.restarts = 1, !.ports = p, !.when = w] :
             p \in {"same", "fresh"}, w \in {"linked", "any"}}

VARIABLE part

sessionVars == <<vars, startVars, windowVars, part>>

\* While another part moves, the two peers of Prematch say nothing.
SessionInit ==
    /\ Init /\ WindowInit
    /\ \/ part = "start" /\ StartInit
       \/ /\ part \in {"words", "window"}
          /\ peer = [c \in Peer |-> Fresh(c, 1)]
          /\ sent = [c \in Peer |-> {}] /\ setting = [Plain EXCEPT !.when = "any"]

SessionNext ==
    \/ part = "words" /\ Next /\ UNCHANGED <<startVars, windowVars, part>>
    \/ part = "start" /\ StartNext /\ UNCHANGED <<vars, windowVars, part>>
    \/ part = "window" /\ WindowNext /\ UNCHANGED <<vars, startVars, part>>

SessionSpec == SessionInit /\ [][SessionNext]_sessionVars /\ Fairness
=============================================================================
