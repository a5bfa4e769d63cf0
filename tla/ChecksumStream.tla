---------------------------- MODULE ChecksumStream ----------------------------
(***************************************************************************)
(* Desynchronisation detection in ggpo_net.c: each peer publishes the      *)
(* checksum of every frame whose inputs both sides have settled, compares  *)
(* the peer's checksums with its own, oldest first, acknowledges them      *)
(* cumulatively, and lets no rollback state leave the history ring before  *)
(* both directions have verified it.                                       *)
(*                                                                         *)
(* InputExchange models how inputs get across and which rollback states    *)
(* they need; here a packet that arrives carries all of its sender's       *)
(* inputs.  The module ends where a mismatch is found: what the correction *)
(* barrier then does is CorrectionBarrier's subject.                       *)
(***************************************************************************)
EXTENDS Integers, FiniteSets, FiniteSetsExt

CONSTANTS
    Peer,               \* the two players
    HistoryFrames,      \* ring size
    PacketChecksums,    \* checksums one packet carries
    MaxPrediction,      \* frames simulated past the oldest missing input
    InputDelay,         \* frames between sampling and use
    StallTimeout,       \* ticks a retirement stall may last; 0: no deadline in sight
    Divergences,        \* frames at which the two games may come apart
    MaxFrame,           \* bound: frames a run simulates
    MaxInFlight         \* bound: MaxInFlight[p] packets on the way to p

ASSUME StreamAssumption ==
    /\ \E a, b \in Peer : a # b /\ Peer = {a, b}
    /\ HistoryFrames \in Nat \ {0}
    /\ PacketChecksums \in Nat \ {0}
    /\ MaxPrediction \in Nat \ {0}
    /\ InputDelay \in Nat \ {0}
    /\ StallTimeout \in Nat
    /\ Divergences \subseteq Nat
    /\ MaxFrame \in Nat
    /\ MaxInFlight \in [Peer -> Nat]

VARIABLES
    peer,               \* peer[p]: p's g_net
    net,                \* packets in flight
    divergence          \* the first frame the two games compute differently

vars == <<peer, net, divergence>>

None == -1
Other(p) == CHOOSE q \in Peer : q # p

Slots == 0 .. (HistoryFrames - 1)
Slot(f) == f % HistoryFrames

(***************************************************************************)
(* The checksum of a frame: the same on both sides up to the divergence,   *)
(* each peer's own from there, and wrong after a wrong guess at an input.  *)
(***************************************************************************)
Agreed == "agreed"
Guessed == "guessed"
Checksum == {Agreed, Guessed} \cup Peer

Result(p, f) == IF f < divergence THEN Agreed ELSE p

\* An invalid history slot, and an invalid remote-checksum slot.
NoHistory == [frame |-> None, guess |-> "none", sum |-> Agreed,
              published |-> FALSE]
NoRemote == [frame |-> None, sum |-> Agreed, verified |-> FALSE]

Boundary(f) == [NoHistory EXCEPT !.frame = f]

Holds(ring, f) == ring[Slot(f)].frame = f

\* Frame f is simulated, retained, and not on a predicted input.
Settled(s, f) ==
    /\ f \in 0 .. (s.frame - 1)
    /\ Holds(s.history, f)
    /\ s.history[Slot(f)].guess = "none"

\* Mutant: the frame behind the run is counted in.
RunEndPast(S, c) ==
    1 + Max({m \in c .. (c + HistoryFrames) : \A f \in (c + 1) .. m : f \in S})

\* The last frame of the unbroken run of frames in S that follows frame c.
RunEnd(S, c) ==
    Max({m \in c .. (c + HistoryFrames) : \A f \in (c + 1) .. m : f \in S})

(***************************************************************************)
(* Horizons.                                                               *)
(***************************************************************************)
\* The simulated frames whose remote input turned out other than guessed.
Mispredicted(s) ==
    {f \in 0 .. Min({s.contiguous, s.frame - 1}) :
        Holds(s.history, f) /\ s.history[Slot(f)].guess = "wrong"}

RollbackPending(s) == Mispredicted(s) # {}

MutualInputHorizon(s) == Min({s.contiguous, s.peerAcked})

\* Mutant: the pending rollback is ignored.
ChecksumHorizonInRollback(s) ==
    LET settled == {f \in 0 .. MutualInputHorizon(s) :
                      f < s.frame /\ Holds(s.history, f)}
    IN  IF settled = {} THEN None ELSE Max(settled)

ChecksumHorizon(s) ==
    LET settled == {f \in 0 .. MutualInputHorizon(s) : Settled(s, f)}
    IN  IF RollbackPending(s) \/ settled = {} THEN None ELSE Max(settled)

\* Mutant: a settled state is not kept until it is verified.
RetirableUnverified(s, h) == TRUE

\* ggpo_net_history_checksum_retirable
Retirable(s, h) == h.frame < s.peerNext /\ h.frame < s.remoteNext

(***************************************************************************)
(* Publishing.                                                             *)
(***************************************************************************)
\* Mutant: only the live edge is ever sent.
PublishedLiveOnly(s, live) == IF live < s.peerNext THEN {} ELSE {live}

\* ggpo_net_fill_packet: the live edge, then the oldest frames the peer has
\* not acknowledged, without a gap, while there is room.
Published(s, live) ==
    LET last == IF live - s.peerNext < HistoryFrames
                THEN Min({live - 1, s.peerNext + PacketChecksums - 2}) ELSE None
    IN  IF live < s.peerNext THEN {}
        ELSE {live} \cup {f \in s.peerNext .. last :
                            \A g \in s.peerNext .. f : Settled(s, g)}

\* What s publishes now, the one set of frames.  A state that is computed
\* from another one is bound this way throughout.
Publications(s) == {Published(s, live) : live \in {ChecksumHorizon(s)}}

MarkPublished(s, frames) ==
    [s EXCEPT !.history =
        [k \in Slots |->
           [s.history[k] EXCEPT !.published = @ \/ s.history[k].frame \in frames]]]

\* An INPUT packet from p, whose inputs are committed up to frame queued.
Packet(p, s, queued, frames) ==
    [to |-> Other(p),
     queued |-> queued,
     base |-> s.contiguous,
     checksumNext |-> s.remoteNext,
     sums |-> {[frame |-> f, sum |-> s.history[Slot(f)].sum] : f \in frames}]

\* The network after m is sent into links: a full link loses one packet, the
\* new one or an older one.
Sent(links, m) ==
    LET waiting == {n \in links : n.to = m.to} \cup {m}
    IN  IF Cardinality(waiting) <= MaxInFlight[m.to] THEN {links \cup {m}}
        ELSE {(links \cup {m}) \ {lost} : lost \in waiting}

(***************************************************************************)
(* Comparing.                                                              *)
(***************************************************************************)
\* ggpo_net_note_checksum_progress: the stall timer restarts.
Progress(s) == [s EXCEPT !.waited = 0, !.blocked = None]

\* Mutant: an acknowledgement older than the last one is malformed.
ValidEnvelopeInOrder(s, m) == m.checksumNext >= s.peerNext

\* ggpo_net_validate_peer_checksum_ack and the checksum half of the envelope
\* check: only published frames are acknowledged, and a checksum never changes.
ValidEnvelope(s, m) ==
    /\ \A f \in s.peerNext .. (m.checksumNext - 1) :
          Settled(s, f) /\ s.history[Slot(f)].published
    /\ \A c \in m.sums :
          Holds(s.remote, c.frame) => s.remote[Slot(c.frame)].sum = c.sum

NoteChecksumAck(s, m) ==
    IF m.checksumNext > s.peerNext
    THEN [Progress(s) EXCEPT !.peerNext = m.checksumNext] ELSE s

\* The inputs and the input acknowledgement a packet brings.  A guess that
\* was right becomes an input; one that was wrong waits for the rollback.
NoteInputs(s, m) ==
    LET known == Max({s.contiguous, m.queued})
    IN  [s EXCEPT
           !.contiguous = known,
           !.peerAcked = Max({@, m.base}),
           !.history = [k \in Slots |->
                          IF @[k].guess = "right" /\ @[k].frame <= known
                          THEN [@[k] EXCEPT !.guess = "none"] ELSE @[k]]]

\* ggpo_net_store_remote_checksum for each checksum of a packet.
StoreChecksums(s, m) ==
    LET new == {c \in m.sums :
                  /\ c.frame >= s.remoteNext
                  /\ s.remote[Slot(c.frame)].frame < c.frame}
    IN  [s EXCEPT !.remote =
           [k \in Slots |->
              IF \E c \in new : Slot(c.frame) = k
              THEN LET c == CHOOSE c \in new : Slot(c.frame) = k
                   IN  [frame |-> c.frame, sum |-> c.sum, verified |-> FALSE]
              ELSE @[k]]]

Stored(s, f) == Holds(s.remote, f) /\ ~s.remote[Slot(f)].verified

Outlived(s, f) == s.frame - f >= HistoryFrames

Differs(s, f) ==
    Settled(s, f) /\ s.history[Slot(f)].sum # s.remote[Slot(f)].sum

\* The oldest frame up to horizon whose comparison fails; s.frame if none.
Mismatch(s, horizon) ==
    Min({s.frame} \cup {f \in s.remoteNext .. horizon :
                          Stored(s, f) /\ (Outlived(s, f) \/ Differs(s, f))})

\* s once every stored checksum below frame stop is compared.
Compared(s, horizon, stop) ==
    LET Verified(f) ==
            /\ Holds(s.remote, f)
            /\ \/ s.remote[Slot(f)].verified
               \/ f \in s.remoteNext .. Min({horizon, stop - 1}) /\ Settled(s, f)
        verified == {f \in s.remoteNext .. (s.remoteNext + HistoryFrames) : Verified(f)}
        next == 1 + RunEnd(verified, s.remoteNext - 1)
        t == IF next = s.remoteNext THEN s ELSE Progress(s)
    IN  [t EXCEPT
           !.remote = [k \in Slots |->
                         [@[k] EXCEPT !.verified = s.remote[k].frame # None
                                                   /\ Verified(s.remote[k].frame)]],
           !.remoteNext = next,
           !.desync = IF stop < s.frame /\ ~Outlived(s, stop) THEN stop ELSE @,
           !.disconnected = @ \/ (stop < s.frame /\ Outlived(s, stop))]

\* ggpo_net_process_deferred_checksums: compare what is stored, oldest first,
\* up to the local horizon; a missing checksum is passed over.  The first
\* mismatch ends the comparison, as does a frame no longer in the history.
ProcessDeferred(s) ==
    {IF horizon - s.remoteNext >= HistoryFrames
     THEN [s EXCEPT !.disconnected = TRUE]
     ELSE Compared(s, horizon, Mismatch(s, horizon)) :
        horizon \in {ChecksumHorizon(s)}}

(***************************************************************************)
(* Simulation.                                                             *)
(***************************************************************************)
\* The entry of frame f when the inputs of frames in wrong are misjudged.
\* Everything a wrong guess feeds into is wrong too.
Simulated(p, s, f, wrong) ==
    [frame |-> f,
     guess |-> IF f <= s.contiguous THEN "none"
               ELSE IF f \in wrong THEN "wrong" ELSE "right",
     sum |-> IF \E g \in wrong : g <= f THEN Guessed ELSE Result(p, f),
     published |-> FALSE]

\* ggpo_net_apply_rollback_if_needed: replay from the first mispredicted
\* frame; frames whose input is still missing are guessed again.
Rollback(p, s, wrong) ==
    LET start == Min(Mispredicted(s))
    IN  IF ~RollbackPending(s) THEN s
        ELSE [s EXCEPT !.history =
                [k \in Slots |->
                   IF @[k].frame \in start .. (s.frame - 1)
                   THEN Simulated(p, s, @[k].frame, wrong) ELSE @[k]]]

\* The frames simulated before s.frame on a guess that was wrong.
Misjudged(s) ==
    {s.history[k].frame : k \in {k \in Slots : s.history[k].guess = "wrong"}}

\* The next boundary's slot is free: its old frame is settled and verified.
BoundaryFree(s) ==
    LET h == s.history[Slot(s.frame + 1)]
    IN  \/ h.frame \in {None, s.frame + 1}
        \/ h.frame <= ChecksumHorizon(s) /\ Retirable(s, h)

\* Simulate frame s.frame and capture the boundary behind it.
Tick(p, s, wrong) ==
    IF BoundaryFree(s)
    THEN [s EXCEPT
            !.frame = @ + 1,
            !.history[Slot(s.frame)] = Simulated(p, s, s.frame, wrong),
            !.history[Slot(s.frame + 1)] = Boundary(s.frame + 1)]
    ELSE [s EXCEPT !.failed = TRUE]

PredictionStalled(s) == s.frame - (s.contiguous + 1) >= MaxPrediction

\* ggpo_net_checksum_retirement_gate for frame s.frame + 1.
RetirementClear(s) ==
    LET h == s.history[Slot(s.frame + 1)]
    IN  h.frame = None \/ Retirable(s, h)

(***************************************************************************)
(* The session's steps.                                                    *)
(***************************************************************************)
Running(p) ==
    /\ peer[p].desync = None
    /\ ~peer[p].disconnected
    /\ ~peer[p].timedOut
    /\ ~peer[p].failed

InitialPeer ==
    [frame |-> 0, contiguous |-> None, peerAcked |-> None,
     history |-> [k \in Slots |-> IF k = 0 THEN Boundary(0) ELSE NoHistory],
     remote |-> [k \in Slots |-> NoRemote],
     remoteNext |-> 0, peerNext |-> 0,
     waited |-> 0, blocked |-> None,
     desync |-> None, disconnected |-> FALSE, timedOut |-> FALSE, failed |-> FALSE]

Init ==
    /\ peer = [p \in Peer |-> InitialPeer]
    /\ net = {}
    /\ divergence \in Divergences

Malformed(p, m) ==
    /\ ~ValidEnvelope(peer[p], m)
    /\ peer' = [peer EXCEPT ![p].disconnected = TRUE]

\* ggpo_net_handle_packet, past the envelope check: everything a packet
\* carries is stored before anything is compared.
Accept(p, m) ==
    /\ ValidEnvelope(peer[p], m)
    /\ \E noted \in {NoteChecksumAck(NoteInputs(peer[p], m), m)} :
       \E stored \in {StoreChecksums(noted, m)} :
       \E s \in ProcessDeferred(stored) :
          peer' = [peer EXCEPT ![p] = s]

Receive(p) ==
    /\ Running(p)
    /\ \E m \in net :
         /\ m.to = p
         /\ Malformed(p, m) \/ Accept(p, m)
         /\ net' = net \ {m}
    /\ UNCHANGED divergence

(***************************************************************************)
(* One ggpo_net_advance: a heartbeat, the pending rollback, the comparison *)
(* of stored checksums, then the gates.                                    *)
(***************************************************************************)
\* The session once its rollback is done: any frame that is replayed on a
\* guess may be misjudged again.
Replays(p, s) ==
    {Rollback(p, s, wrong) :
        wrong \in IF RollbackPending(s)
                  THEN SUBSET ((s.contiguous + 1) .. (s.frame - 1)) ELSE {{}}}

\* A mismatch hands over to the correction; an outlived frame disconnects.
EndStream(p, s, links) ==
    /\ s.desync # None \/ s.disconnected
    /\ peer' = [peer EXCEPT ![p] = s]
    /\ net' = links

Goes(s) == s.desync = None /\ ~s.disconnected

Stall(p, s, links) ==
    /\ Goes(s)
    /\ \/ s.frame = 0 /\ s.contiguous < 0
       \/ PredictionStalled(s)
       \/ s.frame >= MaxFrame
    /\ peer' = [peer EXCEPT ![p] = s]
    /\ net' = links

Ready(s) ==
    /\ Goes(s)
    /\ s.frame = 0 => s.contiguous >= 0
    /\ ~PredictionStalled(s)
    /\ s.frame < MaxFrame

\* The retirement gate is closed: wait, and give the peer up after
\* StallTimeout ticks without progress on the same frame.
AwaitChecksums(p, s, links) ==
    LET blocked == s.history[Slot(s.frame + 1)].frame
        waited == IF s.blocked = blocked
                  THEN Min({s.waited + 1, StallTimeout}) ELSE 0
    IN  /\ Ready(s)
        /\ ~RetirementClear(s)
        /\ peer' = [peer EXCEPT ![p] =
                      [s EXCEPT !.blocked = blocked, !.waited = waited,
                                !.timedOut = StallTimeout > 0 /\ waited = StallTimeout]]
        /\ net' = links

Simulate(p, s, links) ==
    /\ Ready(s)
    /\ RetirementClear(s)
    /\ \E miss \in IF s.frame <= s.contiguous THEN {{}} ELSE {{}, {s.frame}} :
       \E frames \in Publications(s) :
       \E published \in {MarkPublished(Progress(s), frames)} :
          /\ peer' = [peer EXCEPT ![p] =
                        Tick(p, published, Misjudged(s) \cup miss)]
          /\ \E fresh \in {Packet(p, s, s.frame + InputDelay, frames)} :
                net' \in Sent(links, fresh)

Advance(p) ==
    /\ Running(p)
    /\ \E frames \in Publications(peer[p]) :
       \E heartbeat \in
            {Packet(p, peer[p], peer[p].frame - 1 + InputDelay, frames)} :
       \E links \in Sent(net, heartbeat) :
       \E replayed \in Replays(p, MarkPublished(peer[p], frames)) :
       \E s \in ProcessDeferred(replayed) :
          \/ EndStream(p, s, links)
          \/ Stall(p, s, links)
          \/ AwaitChecksums(p, s, links)
          \/ Simulate(p, s, links)
    /\ UNCHANGED divergence

Next == \E p \in Peer : Receive(p) \/ Advance(p)

\* As in InputExchange: the loop keeps ticking, and a link that is not dead
\* delivers some packet out of infinitely many.
Deliver(p) == Running(p) /\ \E m \in net : m.to = p /\ net' = net \ {m}

Fairness == \A p \in Peer : WF_vars(Advance(p)) /\ SF_net(Deliver(p))

Spec == Init /\ [][Next]_vars /\ Fairness

-----------------------------------------------------------------------------
(***************************************************************************)
(* Properties.                                                             *)
(***************************************************************************)
\* No peer is dropped for a checksum stream that only the link disturbed: a
\* late or overtaken acknowledgement, a repeated checksum and a checksum of a
\* frame not yet settled here are all legal.
NoFalseDisconnect == \A p \in Peer : ~peer[p].disconnected

\* A desync is reported only for a frame the games really computed
\* differently: no checksum taken on a wrong guess, or about to be rolled
\* back, is ever compared.
NoFalseDesync ==
    \A p \in Peer : peer[p].desync # None => peer[p].desync >= divergence

\* A frame counts as verified only if both games agree on it.
VerifiedMeansEqual == \A p \in Peer : peer[p].remoteNext <= divergence

\* When a mismatch is found, the frame it was found at can still be restored
\* on both sides, on settled inputs, so the correction can be built from it.
CorrectionPossible ==
    \A p \in Peer : peer[p].desync # None =>
        \A q \in Peer : Settled(peer[q], peer[p].desync)

\* Under a link that keeps delivering, and with no deadline in sight, the
\* stream gets to its end: games that come apart are found out, and games that
\* do not have every frame verified on both sides.
StreamSettles ==
    <>[](IF divergence < MaxFrame
         THEN \E p \in Peer : peer[p].desync # None
         ELSE \A p \in Peer : peer[p].remoteNext = MaxFrame)
=============================================================================
