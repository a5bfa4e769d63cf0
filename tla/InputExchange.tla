---------------------------- MODULE InputExchange ----------------------------
(***************************************************************************)
(* The input half of the rollback session in ggpo_net.c: two peers commit  *)
(* local inputs to a ring, exchange them over a lossy, reordering link     *)
(* with cumulative and selective acknowledgements, simulate ahead on       *)
(* predicted remote inputs, and roll back when a prediction was wrong.     *)
(*                                                                         *)
(* The session record of peer p stands for g_net in p's process.  Frames   *)
(* are naturals here; FrameSerial models the 32-bit serial arithmetic that *)
(* orders them in the code and shows the ring window is narrow enough for  *)
(* the two to agree.  The authentication layer drops every replayed        *)
(* datagram, so the network loses and reorders but never duplicates.  The  *)
(* checksum stream and the correction barrier are modelled apart, and the  *)
(* session is past its handshake: both peers hold the synchronised start   *)
(* state.                                                                  *)
(***************************************************************************)
EXTENDS Integers, Sequences, FiniteSets, FiniteSetsExt

CONSTANTS
    Peer,               \* the two players
    Cmd,                \* input words
    Neutral,            \* the word 0: delay padding and default prediction
    Samples,            \* Samples[p][f]: words p's player may choose for f
    HistoryFrames,      \* ring size
    FutureFrames,       \* admission window ahead of the local frame
    PacketInputs,       \* inputs one packet carries
    MaxPrediction,      \* frames simulated past the oldest missing input
    InputDelay,         \* InputDelay[p]: frames between sampling and use
    MaxFrameAdvantage,  \* lead over the peer's frame before throttling
    MaxBlockTicks,      \* longest throttle
    MaxFrame,           \* bound: frames a run simulates
    MaxInFlight         \* bound: MaxInFlight[p] packets on the way to p

ASSUME PeerAssumption == \E a, b \in Peer : a # b /\ Peer = {a, b}
ASSUME CmdAssumption ==
    /\ Neutral \in Cmd
    /\ \A p \in Peer : \A f \in 0 .. (MaxFrame + InputDelay[p]) :
          Samples[p][f] \subseteq Cmd
ASSUME RingAssumption ==
    /\ HistoryFrames \in Nat \ {0}
    /\ FutureFrames \in 0 .. (HistoryFrames - 1)
    /\ PacketInputs \in Nat \ {0}
    /\ MaxPrediction \in Nat \ {0}
    /\ InputDelay \in [Peer -> 0 .. HistoryFrames]
    /\ MaxFrameAdvantage \in Nat
    /\ MaxBlockTicks \in Nat
    /\ MaxFrame \in Nat
    /\ MaxInFlight \in [Peer -> Nat]

VARIABLES
    session,            \* session[p]: p's g_net
    net                 \* packets in flight

vars == <<session, net>>

None == -1              \* an absent frame

Other(p) == CHOOSE q \in Peer : q # p

RetentionFrames == HistoryFrames - FutureFrames - 1

\* A rollback stays within what is retained, and the ring holds the frames of
\* both peers' predictions and delays.
ASSUME HistoryAssumption ==
    /\ MaxPrediction <= RetentionFrames
    /\ \A p, q \in Peer : p # q =>
          2 * MaxPrediction + InputDelay[p] + InputDelay[q] < HistoryFrames

Slots == 0 .. (HistoryFrames - 1)
Slot(f) == f % HistoryFrames

\* An invalid input slot, and an invalid history slot.
NoInput == [frame |-> None, cmd |-> Neutral, acked |-> FALSE]
NoHistory == [frame |-> None, state |-> <<>>, remoteCmd |-> Neutral,
              predicted |-> FALSE]

(***************************************************************************)
(* Rings.                                                                  *)
(***************************************************************************)
Holds(ring, f) == ring[Slot(f)].frame = f

\* A slot is refilled only by its own frame or a newer generation.
MayReplace(e, f) == e.frame <= f

Put(ring, f, c) ==
    [ring EXCEPT ![Slot(f)] =
        [frame |-> f, cmd |-> c,
         acked |-> Holds(ring, f) /\ ring[Slot(f)].acked]]

\* Mutant: a later frame counts although one before it is missing.
RunEndSkipsHole(S, c) == Max({c} \cup {f \in S : f > c})

\* The last frame of the unbroken run of frames in S that follows frame c.
RunEnd(S, c) ==
    Max({m \in c .. (c + HistoryFrames) : \A f \in (c + 1) .. m : f \in S})

Admissible(s, f) ==
    s.frame - RetentionFrames <= f /\ f <= s.frame + FutureFrames

(***************************************************************************)
(* Acknowledgements.  A selective acknowledgement stops an input from      *)
(* being resent; only the cumulative one lets the ring forget it.          *)
(***************************************************************************)
\* Mutant: a sent input is taken for delivered once a newer one follows.
LocalAcknowledgedOnSend(s, e) == e.acked \/ e.frame < s.highestLocal

LocalAcknowledged(s, e) == e.acked \/ e.frame <= s.peerAcked

LocalRetirable(s, e) == e.frame <= s.peerAcked

\* Mutant: an acknowledgement older than the last one is malformed.
ValidAckInOrder(s, m) ==
    /\ m.base \in s.peerAcked .. s.highestLocal
    /\ \A f \in m.sacks : Holds(s.local, f)

\* What a packet may claim to have received from s, given s's own ring.
ValidAck(s, m) ==
    /\ m.base <= s.highestLocal
    /\ \A f \in (s.peerAcked + 1) .. m.base : Holds(s.local, f)
    /\ \A f \in m.sacks : Holds(s.local, f) \/ f <= s.peerAcked

\* ggpo_net_validate_input_packet_envelope, the input half.
ValidEnvelope(s, m) ==
    /\ ValidAck(s, m)
    /\ \A i \in m.inputs :
          Holds(s.remote, i.frame) => s.remote[Slot(i.frame)].cmd = i.cmd

AckedBase(s, m) == Max({s.peerAcked, m.base})

NotePeerAck(s, m) ==
    LET local == [k \in Slots |->
                    [s.local[k] EXCEPT !.acked =
                        @ \/ (s.local[k].frame # None
                              /\ s.local[k].frame \in m.sacks)]]
        base == AckedBase(s, m)
        sacked == {f \in base .. (base + HistoryFrames) :
                      Holds(local, f) /\ local[Slot(f)].acked}
    IN  [s EXCEPT !.local = local,
                  !.hasPeerAck = TRUE,
                  !.peerAcked = IF base = None THEN None
                                               ELSE RunEnd(sacked, base)]

(***************************************************************************)
(* Remote inputs: admission, storage, and the rollback a mispredicted      *)
(* frame asks for.                                                         *)
(***************************************************************************)
NoteRemoteFrame(s, f) ==
    IF Admissible(s, f) THEN [s EXCEPT !.remoteFrame = Max({@, f})] ELSE s

\* Mutant: the newest simulated frame is not looked at.
LateMissesLast(s, i) ==
    /\ i.frame < s.frame - 1
    /\ s.history[Slot(i.frame)].frame = i.frame
    /\ s.history[Slot(i.frame)].predicted

\* Input i is for a frame that was simulated on a prediction.
Late(s, i) ==
    /\ i.frame < s.frame
    /\ s.history[Slot(i.frame)].frame = i.frame
    /\ s.history[Slot(i.frame)].predicted

NoteRemoteInputs(s, inputs) ==
    LET stored == {i \in inputs :
                     /\ Admissible(s, i.frame)
                     /\ MayReplace(s.remote[Slot(i.frame)], i.frame)}
        new == {i \in stored : ~Holds(s.remote, i.frame)}
        remote == [k \in Slots |->
                     IF \E i \in new : Slot(i.frame) = k
                     THEN LET i == CHOOSE i \in new : Slot(i.frame) = k
                          IN  [frame |-> i.frame, cmd |-> i.cmd,
                               acked |-> FALSE]
                     ELSE s.remote[k]]
        late == {i \in new : Late(s, i)}
        wrong == {i \in late : s.history[Slot(i.frame)].remoteCmd # i.cmd}
        right == {i.frame : i \in late \ wrong}
        pending == {i.frame : i \in wrong} \cup ({s.rollbackTo} \ {None})
        known == {f \in s.contiguous .. (s.contiguous + HistoryFrames) :
                     Holds(remote, f)}
    IN  [s EXCEPT
           !.remote = remote,
           !.contiguous = RunEnd(known, s.contiguous),
           !.history = [k \in Slots |->
                          [s.history[k] EXCEPT !.predicted =
                              @ /\ s.history[k].frame \notin right]],
           !.rollbackTo = IF pending = {} THEN None ELSE Min(pending),
           !.received = s.received
                          \cup {[frame |-> i.frame, cmd |-> i.cmd] : i \in new}]

\* The nearest known input at or before frame f, else the neutral word.
PredictRemote(s, f) ==
    LET known == {g \in Max({0, f - RetentionFrames}) .. f : Holds(s.remote, g)}
    IN  IF known = {} THEN Neutral ELSE s.remote[Slot(Max(known))].cmd

(***************************************************************************)
(* Simulation.  The game's state after a frame is a function of the inputs *)
(* applied so far, so the sequence of those inputs stands for it.          *)
(***************************************************************************)
\* ggpo_net_build_inputs: the words both players feed into frame f.
FrameInputs(p, s, f) ==
    [q \in Peer |-> IF q # p THEN PredictRemote(s, f)
                    ELSE IF Holds(s.local, f) THEN s.local[Slot(f)].cmd
                    ELSE Neutral]

MutualInputHorizon(s) == Min({s.contiguous, s.peerAcked})

\* Mutant: every simulated frame counts as settled.
ChecksumHorizonEager(s) == s.frame - 1

\* The newest frame whose result both peers' inputs have settled, or None.
ChecksumHorizon(s) ==
    LET settled == {f \in 0 .. Min({MutualInputHorizon(s), s.frame - 1}) :
                      /\ s.history[Slot(f)].frame = f
                      /\ ~s.history[Slot(f)].predicted}
    IN  IF s.rollbackTo # None \/ settled = {} THEN None ELSE Max(settled)

\* ggpo_net_frame_boundary: keep the state at frame f as a rollback point.
FrameBoundary(s, f, state) ==
    LET h == s.history[Slot(f)]
    IN  IF h.frame > f \/ (h.frame \notin {None, f}
                           /\ h.frame > ChecksumHorizon(s))
        THEN [s EXCEPT !.failed = TRUE]
        ELSE [s EXCEPT !.history[Slot(f)] =
                [frame |-> f, state |-> state, remoteCmd |-> Neutral,
                 predicted |-> FALSE]]

\* ggpo_net_save_pre_state: reuse the boundary the previous tick captured.
SavePreState(s) ==
    IF s.history[Slot(s.frame)].frame = s.frame THEN s
    ELSE FrameBoundary(s, s.frame, s.game)

\* Apply the inputs of frame f to the game and record what was used.
Tick(p, s, f) ==
    LET inputs == FrameInputs(p, s, f)
        game == Append(s.game, inputs)
    IN  [FrameBoundary(s, f + 1, game) EXCEPT
           !.game = game,
           !.history[Slot(f)].remoteCmd = inputs[Other(p)],
           !.history[Slot(f)].predicted = ~Holds(s.remote, f)]

\* Mutant: the replay leaves the boundaries it passes as they were.
ReplayedStale(s, game, h) ==
    [h EXCEPT
       !.remoteCmd = IF h.frame = s.frame THEN Neutral
                     ELSE PredictRemote(s, h.frame),
       !.predicted = h.frame < s.frame /\ ~Holds(s.remote, h.frame)]

\* History entry h after a replay that ends in state game.
Replayed(s, game, h) ==
    [h EXCEPT
       !.state = SubSeq(game, 1, h.frame),
       !.remoteCmd = IF h.frame = s.frame THEN Neutral
                     ELSE PredictRemote(s, h.frame),
       !.predicted = h.frame < s.frame /\ ~Holds(s.remote, h.frame)]

\* ggpo_net_apply_rollback_if_needed: reload the boundary of the first
\* mispredicted frame and replay up to the present.
Rollback(p, s) ==
    LET start == s.rollbackTo
        boundary == s.history[Slot(start)]
        game == boundary.state \o
                [i \in 1 .. (s.frame - start) |-> FrameInputs(p, s, start + i - 1)]
    IN  IF start = None THEN s
        ELSE IF \/ start >= s.frame
                \/ s.frame - start >= HistoryFrames
                \/ boundary.frame # start
        THEN [s EXCEPT !.rollbackTo = None]
        ELSE [s EXCEPT
                !.rollbackTo = None,
                !.game = game,
                !.history = [k \in Slots |->
                               IF s.history[k].frame \in start .. s.frame
                               THEN Replayed(s, game, s.history[k])
                               ELSE s.history[k]]]

(***************************************************************************)
(* Local input, and the gates in front of a simulation step.               *)
(***************************************************************************)
\* ggpo_net_queue_local_input: a frame keeps the first word committed to it.
QueueLocal(s, f, c) ==
    LET old == s.local[Slot(f)]
    IN  IF old.frame = f THEN s
        ELSE IF MayReplace(old, f) /\ LocalRetirable(s, old)
        THEN [s EXCEPT !.local = Put(@, f, c),
                       !.highestLocal = Max({@, f}),
                       !.committed = @ \cup {[frame |-> f, cmd |-> c]}]
        ELSE [s EXCEPT !.failed = TRUE]

TooFarAhead(s) ==
    /\ s.remoteFrame # None
    /\ s.frame - s.remoteFrame > MaxFrameAdvantage

\* Mutant: prediction has no limit.
PredictionNeverStalls(s) == FALSE

\* Some input within the prediction window is still missing, and it is
\* MaxPrediction frames old.
PredictionStalled(s) ==
    LET missing == {f \in Max({0, s.frame - MaxPrediction}) .. s.frame :
                       ~Holds(s.remote, f)}
    IN  missing # {} /\ s.frame - Min(missing) >= MaxPrediction

(***************************************************************************)
(* The network.                                                            *)
(***************************************************************************)
Oldest(S, n) == {f \in S : Cardinality({g \in S : g < f}) < n}
Newest(S, n) == {f \in S : Cardinality({g \in S : g > f}) < n}

\* ggpo_net_fill_packet: the live edge first, then the oldest holes once the
\* peer has acknowledged anything, the newest inputs until then.
Packet(p, s) ==
    LET unacked == {f \in 0 .. s.highestLocal :
                      /\ Holds(s.local, f)
                      /\ ~LocalAcknowledged(s, s.local[Slot(f)])}
        live == unacked \cap {s.highestLocal}
        room == PacketInputs - Cardinality(live)
        rest == unacked \ live
        sent == live \cup (IF s.hasPeerAck THEN Oldest(rest, room)
                                           ELSE Newest(rest, room))
    IN  [to |-> Other(p),
         frame |-> s.frame,
         inputs |-> {[frame |-> f, cmd |-> s.local[Slot(f)].cmd] : f \in sent},
         base |-> s.contiguous,
         sacks |-> {f \in (s.contiguous + 1) .. (s.contiguous + HistoryFrames) :
                       Holds(s.remote, f)}]

\* The network after m is sent into links: a full link loses one packet, the
\* new one or an older one.
Sent(links, m) ==
    LET queued == {n \in links : n.to = m.to} \cup {m}
    IN  IF Cardinality(queued) <= MaxInFlight[m.to] THEN {links \cup {m}}
        ELSE {(links \cup {m}) \ {lost} : lost \in queued}

(***************************************************************************)
(* The session's steps.                                                    *)
(***************************************************************************)
Running(p) == ~session[p].disconnected /\ ~session[p].failed

\* ggpo_net_seed_local_input_delay and the synchronised start state.
InitialSession(p) ==
    LET seeded == 0 .. (InputDelay[p] - 1)
    IN  [frame |-> 0,
         local |-> [k \in Slots |->
                      IF k \in seeded
                      THEN [frame |-> k, cmd |-> Neutral, acked |-> FALSE]
                      ELSE NoInput],
         highestLocal |-> InputDelay[p] - 1,
         peerAcked |-> None,
         hasPeerAck |-> FALSE,
         remote |-> [k \in Slots |-> NoInput],
         contiguous |-> None,
         remoteFrame |-> None,
         rollbackTo |-> None,
         game |-> <<>>,
         history |-> [k \in Slots |->
                        IF k = 0 THEN [NoHistory EXCEPT !.frame = 0]
                        ELSE NoHistory],
         throttled |-> 0,
         disconnected |-> FALSE,
         failed |-> FALSE,
         committed |-> {[frame |-> f, cmd |-> Neutral] : f \in seeded},
         received |-> {}]

Init ==
    /\ session = [p \in Peer |-> InitialSession(p)]
    /\ net = {}

\* ggpo_net_handle_packet for one authenticated INPUT packet.
HandlePacket(s, m) ==
    IF ValidEnvelope(s, m)
    THEN NoteRemoteInputs(NoteRemoteFrame(NotePeerAck(s, m), m.frame), m.inputs)
    ELSE [s EXCEPT !.disconnected = TRUE]

Receive(p) ==
    /\ Running(p)
    /\ \E m \in net :
         /\ m.to = p
         /\ session' = [session EXCEPT ![p] = HandlePacket(@, m)]
         /\ net' = net \ {m}

(***************************************************************************)
(* One ggpo_net_advance: a heartbeat from the transport service, then the  *)
(* pending rollback, then the gates.  s is the session after the rollback  *)
(* and links the network after the heartbeat; a gate that holds the frame  *)
(* back keeps both.                                                        *)
(***************************************************************************)
Throttle(p, s, links) ==
    /\ TooFarAhead(s)
    /\ s.throttled < MaxBlockTicks
    /\ session' = [session EXCEPT ![p] = [s EXCEPT !.throttled = @ + 1]]
    /\ net' = links

Unthrottled(s) == TooFarAhead(s) => s.throttled >= MaxBlockTicks

\* The throttle timer once the frame-advantage gate has let the tick pass.
PastThrottle(s) == [s EXCEPT !.throttled = IF TooFarAhead(s) THEN @ ELSE 0]

Stall(p, s, links) ==
    /\ Unthrottled(s)
    /\ PredictionStalled(s) \/ s.frame >= MaxFrame
    /\ session' = [session EXCEPT ![p] = PastThrottle(s)]
    /\ net' = links

\* Keep the frame's boundary, apply its inputs and move on; a tick that fails
\* gets the state before it back.
SimulateFrame(p, s) ==
    LET saved == SavePreState(s)
        ticked == Tick(p, saved, s.frame)
    IN  IF ticked.failed THEN [saved EXCEPT !.failed = TRUE]
                         ELSE [ticked EXCEPT !.frame = s.frame + 1]

Simulate(p, s, links) ==
    /\ Unthrottled(s)
    /\ ~PredictionStalled(s)
    /\ s.frame < MaxFrame
    /\ \E c \in Samples[p][s.frame + InputDelay[p]] :
         \E queued \in {QueueLocal(PastThrottle(s), s.frame + InputDelay[p], c)} :
             IF queued.failed
             THEN /\ session' = [session EXCEPT ![p] = queued]
                  /\ net' = links
             ELSE /\ session' = [session EXCEPT ![p] = SimulateFrame(p, queued)]
                  /\ net' \in Sent(links, Packet(p, queued))

\* Frame zero is not simulated before the peer's input for it is here.
Started(s) == s.frame = 0 => Holds(s.remote, 0)

Advance(p) ==
    /\ Running(p)
    /\ \E links \in Sent(net, Packet(p, session[p])) :
         IF Started(session[p])
         THEN \E s \in {Rollback(p, session[p])} :
                \/ Throttle(p, s, links)
                \/ Stall(p, s, links)
                \/ Simulate(p, s, links)
         ELSE net' = links /\ UNCHANGED session

Next == \E p \in Peer : Receive(p) \/ Advance(p)

(***************************************************************************)
(* The game loop calls advance on every tick, and a link that is not dead  *)
(* delivers some packet out of infinitely many.  Deliver(p) is what a      *)
(* Receive(p) step does to the network, and no other step does it: a send  *)
(* never leaves a link with fewer packets.                                 *)
(***************************************************************************)
Deliver(p) == Running(p) /\ \E m \in net : m.to = p /\ net' = net \ {m}

Fairness == \A p \in Peer : WF_vars(Advance(p)) /\ SF_net(Deliver(p))

Spec == Init /\ [][Next]_vars /\ Fairness

-----------------------------------------------------------------------------
(***************************************************************************)
(* Properties.                                                             *)
(***************************************************************************)
InputSet == [frame : Nat, cmd : Cmd]
InputSlot == [frame : Nat \cup {None}, cmd : Cmd, acked : BOOLEAN]
HistorySlot == [frame : Nat \cup {None}, state : Seq([Peer -> Cmd]),
                remoteCmd : Cmd, predicted : BOOLEAN]
Message == [to : Peer, frame : Nat, inputs : SUBSET InputSet,
            base : Nat \cup {None}, sacks : SUBSET Nat]
Session == [frame : Nat, local : [Slots -> InputSlot],
            highestLocal : Nat \cup {None}, peerAcked : Nat \cup {None},
            hasPeerAck : BOOLEAN, remote : [Slots -> InputSlot],
            contiguous : Nat \cup {None}, remoteFrame : Nat \cup {None},
            rollbackTo : Nat \cup {None}, game : Seq([Peer -> Cmd]),
            history : [Slots -> HistorySlot], throttled : Nat,
            disconnected : BOOLEAN, failed : BOOLEAN,
            committed : SUBSET InputSet, received : SUBSET InputSet]

\* The type of the two session records and of the packets in flight.
TypeOK == session \in [Peer -> Session] /\ net \subseteq Message

\* Every input ever committed is with the peer, or still in the sender's ring
\* and still being resent: neither the cumulative horizon nor a selective
\* acknowledgement ever claims more than the peer has stored, so no hole in
\* the peer's timeline can become permanent.
HoleRecoverable ==
    \A p \in Peer : \A i \in session[p].committed :
        \/ i \in session[Other(p)].received
        \/ LET e == session[p].local[Slot(i.frame)]
           IN  /\ e.frame = i.frame
               /\ e.cmd = i.cmd
               /\ ~LocalAcknowledged(session[p], e)

\* Two correct peers never take each other for malformed: reordered, stale
\* and overlapping acknowledgements all pass the envelope check.
NoFalseDisconnect == \A p \in Peer : ~session[p].disconnected

\* Neither ring reaches its boundary: the prediction and delay limits keep
\* every slot that is reused acknowledged and settled, so advance never fails.
RingNeverBlocks == \A p \in Peer : ~session[p].failed

\* Simulation never runs more than MaxPrediction frames past the first
\* missing remote input, and its rollback point is still in the ring.
PredictionBounded ==
    \A p \in Peer : LET s == session[p] IN
        /\ s.frame <= s.contiguous + 1 + MaxPrediction
        /\ \A f \in (s.contiguous + 1) .. s.frame :
              f >= 0 /\ s.frame > 0 => s.history[Slot(f)].frame = f

\* The states kept for rollback and the live state belong to one timeline:
\* each boundary is the live timeline cut at its frame.
BoundariesOnTimeline ==
    \A p \in Peer : LET s == session[p] IN
        /\ Len(s.game) = s.frame
        /\ \A k \in Slots : s.history[k].frame # None
              => s.history[k].state = SubSeq(s.game, 1, s.history[k].frame)

\* A rollback can always be made: the frames it may have to replay are in the
\* ring, and on the timeline the game is on.
RollbackPossible == PredictionBounded /\ BoundariesOnTimeline

\* The word player q committed for frame f.
Committed(q, f) == (CHOOSE i \in session[q].committed : i.frame = f).cmd

\* The frames of the game that session s has from inputs alone, not guesses.
Settled(s) ==
    LET stale == IF s.rollbackTo = None THEN s.frame ELSE s.rollbackTo
    IN  Min({s.contiguous + 1, stale, s.frame})

\* The session as LockstepLog sees it: what was committed, and what each
\* peer has simulated of the settled frames.
Log == INSTANCE LockstepLog WITH
    Padding <- InputDelay,
    log <- [p \in Peer |-> [i \in 1 .. Cardinality(session[p].committed) |->
                              Committed(p, i - 1)]],
    timeline <- [p \in Peer |-> SubSeq(session[p].game, 1, Settled(session[p]))]

\* Both peers simulate one timeline of committed inputs: what a peer holds
\* for settled is written by both players, never changes and is the same on
\* both sides, and no player's log has a hole.
ImplementsLockstep == Log!LogSpec

\* A checksum published for a frame stays true: it is of a settled frame, and
\* no late input or rollback ever unsettles a frame or changes its result.
PublishedFramesAreFinal ==
    [][\A p \in Peer :
         LET s == session[p]
             t == session'[p]
         IN  /\ ChecksumHorizon(t) < Settled(t)
             /\ Settled(s) <= Settled(t)
             /\ \A i \in 1 .. Settled(s) : s.game[i] = t.game[i]]_vars

\* What the session knows only grows: horizons never move back and a
\* committed input is never replaced.
HorizonsAdvance ==
    [][\A p \in Peer :
         /\ session[p].contiguous <= session'[p].contiguous
         /\ session[p].peerAcked <= session'[p].peerAcked
         /\ session[p].frame <= session'[p].frame
         /\ \A i \in session'[p].committed, j \in session[p].committed :
               i.frame = j.frame => i = j]_vars

\* Under a link that keeps delivering, both games reach the last frame and
\* end in the same state.
GamesConverge ==
    <>[](/\ \A p \in Peer : session[p].frame = MaxFrame
         /\ \A p, q \in Peer : session[p].game = session[q].game)
=============================================================================
