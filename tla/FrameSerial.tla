------------------------------ MODULE FrameSerial ------------------------------
(***************************************************************************)
(* Frame numbers in ggpo_net.c are 32-bit words that wrap.  This module    *)
(* models their serial ordering, the admission window around the local     *)
(* frame, the receive ring indexed by frame modulo its size, the           *)
(* contiguous horizon and the prediction gate, and follows beside each     *)
(* word the actual frame that it stands for, so that the properties can say  *)
(* that the wrap is never noticed.  The other modules use actual frames.     *)
(***************************************************************************)
EXTENDS Integers, FiniteSets, FiniteSetsExt

CONSTANTS
    Modulus,            \* frame words: 2^32 in the code
    HistoryFrames,      \* ring size
    FutureFrames,       \* admission window ahead of the local frame
    MaxPrediction,      \* frames simulated past the oldest missing input
    Delay,              \* how late a packet may be, in frames
    MaxFrame            \* bound: frames a run simulates

\* The window is narrow against the half range, a late packet too (the replay
\* window of the authentication bounds it), and the ring size divides the
\* range: a word has the slot of its frame.
ASSUME SerialAssumption ==
    /\ HistoryFrames \in Nat \ {0}
    /\ Modulus \in Nat \ {0}
    /\ \E n \in 1 .. Modulus : Modulus = HistoryFrames * n
    /\ Modulus % 2 = 0
    /\ FutureFrames \in 0 .. (HistoryFrames - 1)
    /\ MaxPrediction \in 1 .. (HistoryFrames - FutureFrames - 1)
    /\ Delay \in Nat
    /\ 2 * (Delay + 2 * HistoryFrames) < Modulus
    /\ MaxFrame \in Nat

VARIABLES
    frame,      \* the local frame, a word
    wrapped,    \* the local frame has passed the last word once
    ring,       \* the remote inputs held: in each slot a word, or None
    contiguous, \* the last word of the unbroken run of inputs, or None
    actual        \* the frames the words stand for

vars == <<frame, wrapped, ring, contiguous, actual>>

None == -1

RetentionFrames == HistoryFrames - FutureFrames - 1

Slots == 0 .. (HistoryFrames - 1)
Slot(w) == w % HistoryFrames

Word(f) == f % Modulus

\* Mutant: words in their plain order.
BeforePlain(v, w) == v < w

\* ggpo_net_frame_before: w is less than half the range ahead of v.
Before(v, w) == LET d == (w - v) % Modulus IN d # 0 /\ d < Modulus \div 2

Admissible(w) ==
    \/ w = frame
    \/ Before(w, frame) /\ (frame - w) % Modulus <= RetentionFrames
    \/ Before(frame, w) /\ (w - frame) % Modulus <= FutureFrames

Holds(r, w) == r[Slot(w)] = w

MayReplace(e, w) == e \in {None, w} \/ Before(e, w)

Successor(w) == (w + 1) % Modulus

First(c) == IF c = None THEN 0 ELSE Successor(c)

\* Inputs in the unbroken run behind c, at most a ring of them.
RunLength(r, c) ==
    LET held == {i \in 0 .. (HistoryFrames - 1) : Holds(r, (First(c) + i) % Modulus)}
    IN  Max({n \in 0 .. HistoryFrames : \A i \in 0 .. (n - 1) : i \in held})

\* How far behind word w the prediction gate looks.
Lookback(w) == IF wrapped \/ w >= MaxPrediction THEN MaxPrediction ELSE w

PredictionStalled ==
    \E back \in MaxPrediction .. Lookback(frame) :
        ~Holds(ring, (frame - back) % Modulus)

-----------------------------------------------------------------------------
Init ==
    /\ frame = 0 /\ wrapped = FALSE
    /\ ring = [k \in Slots |-> None] /\ contiguous = None
    /\ actual = [frame |-> 0, ring |-> [k \in Slots |-> None], contiguous |-> None]

\* ggpo_net_advance: the frame moves on unless the prediction gate is closed.
Advance ==
    /\ actual.frame < MaxFrame
    /\ ~PredictionStalled
    /\ frame' = Successor(frame)
    /\ wrapped' = (wrapped \/ frame = Modulus - 1)
    /\ actual' = [actual EXCEPT !.frame = @ + 1]
    /\ UNCHANGED <<ring, contiguous>>

\* Frames a packet may bring: late ones, and those of a peer that is ahead,
\* some of them further than the window admits.
Reach == Max({0, actual.frame - Delay}) .. (actual.frame + HistoryFrames)

\* ggpo_net_note_remote_input for the input of actual frame f.
Receive(f) ==
    /\ f \in Reach
    /\ LET w == Word(f)
           stored == Admissible(w) /\ MayReplace(ring[Slot(w)], w)
           held == IF stored THEN [ring EXCEPT ![Slot(w)] = w] ELSE ring
           run == RunLength(held, contiguous)
       IN  /\ ring' = held
           /\ contiguous' = IF run = 0 THEN contiguous
                            ELSE (First(contiguous) + run - 1) % Modulus
           /\ actual' = [actual EXCEPT
                         !.ring = IF stored THEN [@ EXCEPT ![Slot(f)] = f] ELSE @,
                         !.contiguous = @ + run]
    /\ UNCHANGED <<frame, wrapped>>

Next == Advance \/ \E f \in Reach : Receive(f)

Spec == Init /\ [][Next]_vars

-----------------------------------------------------------------------------
\* The gate holds across the wrap, where small words are no longer the first
\* frames of a session: the game is never further ahead of a
\* missing input than MaxPrediction.
PredictionBounded == actual.frame <= actual.contiguous + 1 + MaxPrediction

\* The window admits exactly the frames that are near enough to the local
\* one, wherever in the range of words both are: no word is mistaken for a
\* frame of another turn of the counter.
AdmissionFollowsFrames ==
    \A f \in Reach : Admissible(Word(f)) <=>
        f \in (actual.frame - RetentionFrames) .. (actual.frame + FutureFrames)
=============================================================================
