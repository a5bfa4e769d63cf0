------------------------------ MODULE MCFramework ------------------------------
(* UpdateTransaction, ModHttp and PcmStream: three independent parts of the    *)
(* framework around the game, each checked on a small instance.  A behaviour   *)
(* is one of one of them, and the others stay as they started.                 *)
EXTENDS MCUpdateTransaction, ModHttp, PcmStream

VARIABLE part

frameworkVars == <<vars, httpVars, soundVars, part>>

FrameworkInit ==
    /\ part \in {"update", "http", "sound"}
    /\ Init /\ (part = "update" \/ base = [f \in File |-> "old"])
    /\ HttpInit /\ SoundInit

FrameworkNext ==
    \/ part = "update" /\ Next /\ UNCHANGED <<httpVars, soundVars, part>>
    \/ part = "http" /\ HttpNext /\ UNCHANGED <<vars, soundVars, part>>
    \/ part = "sound" /\ SoundNext /\ UNCHANGED <<vars, httpVars, part>>

FrameworkSpec == FrameworkInit /\ [][FrameworkNext]_frameworkVars /\ Fairness
=============================================================================
