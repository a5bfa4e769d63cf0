--------------------------- MODULE CorrectionBarrier ---------------------------
(***************************************************************************)
(* The coordinated correction in ggpo_net.c.  A checksum mismatch freezes  *)
(* both games; the host offers its own state at the diverged frame first   *)
(* and a resume frame behind it, both peers replay the same exact inputs   *)
(* in between, compare a transcript of the replay, and release each other  *)
(* through REQUEST, OFFER, RECEIVING, READY, COMMIT, APPLIED, RELEASE and  *)
(* RELEASE_ACK.  Every packet repeats its sender's phase, so that losses   *)
(* and reordering are the handshake's problem and not the transport's.     *)
(*                                                                         *)
(* Frame counters here are exclusive: a peer whose `known` is 3 has the    *)
(* inputs of frames 0, 1 and 2.  A packet brings the oldest inputs that it *)
(* has no acknowledgement for (InputExchange models the holes), and a      *)
(* checksum that arrives is compared at once (ChecksumStream models the    *)
(* stream): the mismatch found is the first frame the games disagree on.   *)
(***************************************************************************)
EXTENDS Integers, Sequences, FiniteSets, FiniteSetsExt

CONSTANTS
    Host, Join,         \* the two players by their role
    MaxPrediction,      \* frames simulated past the oldest missing input
    InputDelay,         \* frames between sampling and use
    PacketInputs,       \* inputs a packet repeats behind the oldest unacked
    Settings,           \* the circumstances of a session, see setting
    MaxFrame,           \* bound: frames a run simulates
    MaxCorrections      \* bound: corrections a run needs

Peer == {Host, Join}

ASSUME BarrierAssumption ==
    /\ Host # Join
    /\ MaxPrediction \in Nat \ {0}
    /\ InputDelay \in Nat \ {0}
    /\ PacketInputs \in Nat \ {0}
    /\ Settings \subseteq
        [timeout : Nat, faithful : SUBSET BOOLEAN, inFlight : [Peer -> Nat]]
    /\ MaxFrame \in Nat
    /\ MaxCorrections \in Nat

VARIABLES
    peer,               \* peer[p]: p's g_net
    net,                \* packets in flight
    divergence,         \* where the timeline now played comes apart
    setting             \* timeout: ticks a phase may last, 0: no deadline in sight
                        \* faithful: may a replay of equal inputs differ? {TRUE}: no
                        \* inFlight: bound, packets of a kind on the way to a peer

vars == <<peer, net, divergence, setting>>

Other(p) == IF p = Host THEN Join ELSE Host

Phase == {"none", "request", "offer", "receiving", "ready", "commit",
          "applied", "release", "releaseAck"}

NoTranscript == <<>>

\* The newest settled frame and the ones before it, as a count.
Horizon(s) == Min({s.known, s.acked, s.frame})

Frozen(s) == s.phase # "none"

(***************************************************************************)
(* Packets.                                                                *)
(***************************************************************************)
\* The checksum that goes with the phase: the last applied transcript, the
\* snapshot's (named here by its frame), or the running transcript.
AckChecksum(s) ==
    IF s.phase = "none" THEN s.lastTranscript
    ELSE IF s.phase = "request" THEN NoTranscript
    ELSE IF s.phase \in {"offer", "receiving", "ready"} THEN <<s.snapshot>>
    ELSE s.transcript

\* ggpo_net_fill_packet.  Checksums are published only outside a correction.
Packet(p, s) ==
    [to |-> Other(p), kind |-> "control",
     phase |-> s.phase, id |-> s.id,
     ackId |-> IF Frozen(s) THEN s.id ELSE s.applied,
     first |-> IF Frozen(s) THEN s.first ELSE 0,
     resume |-> IF Frozen(s) THEN s.resume ELSE 0,
     sum |-> AckChecksum(s),
     inputs |-> Min({s.committed, s.acked + PacketInputs}),
     known |-> s.known, verified |-> s.verified,
     sums |-> IF Frozen(s) THEN 0 ELSE Horizon(s)]

\* One chunk stands for the whole snapshot transfer.
Chunk(s) ==
    [to |-> Join, kind |-> "chunk", id |-> s.id, first |-> s.first,
     snapshot |-> s.snapshot]

\* The network after m is sent into links: a link full of m's kind loses one
\* packet of it, the new one or an older one.
Sent(links, m) ==
    LET waiting == {n \in links : n.to = m.to /\ n.kind = m.kind} \cup {m}
    IN  IF Cardinality(waiting) <= setting.inFlight[m.to] THEN {links \cup {m}}
        ELSE {(links \cup {m}) \ {lost} : lost \in waiting}

(***************************************************************************)
(* Entering a correction.                                                  *)
(***************************************************************************)
Disconnect(s, why) == [s EXCEPT !.lost = why]

\* ggpo_net_note_correction_progress: the deadline starts over.
Progress(s) == [s EXCEPT !.waited = 0]

\* ggpo_net_begin_awaiting_correction, for a joiner that plays.
BeginAwaiting(s, f) ==
    [Progress(s) EXCEPT
       !.phase = "request", !.peerPhase = "none", !.request = f,
       !.first = f, !.resume = f, !.staged = FALSE]

\* ggpo_net_begin_host_correction_request
BeginHostRequest(s, f) ==
    [BeginAwaiting(s, f) EXCEPT
       !.peerPhase = "request",
       !.transcript = NoTranscript, !.expected = NoTranscript]

\* Mutant: the host resumes behind what it holds, acknowledged or not.
ResumeUnacked(s) == Min({s.known, s.frame})

\* The frame behind the newest one whose inputs both peers hold.
ResumeFrame(s) == Horizon(s)

\* ggpo_net_prepare_host_correction.  Nothing happens until the diverged
\* frame is settled; a boundary that is gone or predicted ends the session.
PrepareOffer(s) ==
    IF s.frame = 0 THEN s
    ELSE IF s.first > s.frame \/ (s.first < s.frame /\ s.first >= s.known)
    THEN Disconnect(s, "boundary")
    ELSE IF s.first >= ResumeFrame(s) THEN s
    ELSE [Progress(s) EXCEPT
            !.phase = "offer", !.peerPhase = "none", !.id = @ + 1,
            !.resume = ResumeFrame(s), !.snapshot = s.first, !.staged = TRUE,
            !.transcript = NoTranscript, !.expected = NoTranscript]

\* ggpo_net_recoverable_desync at frame f.
Desync(p, s, f) ==
    IF Frozen(s) THEN s
    ELSE IF p = Host THEN PrepareOffer(BeginHostRequest(s, f))
    ELSE BeginAwaiting(s, f)

\* ggpo_net_process_deferred_checksums: verify what both sides have settled,
\* up to the first frame that differs.
CompareChecksums(p, s) ==
    LET due == Min({s.peerSums, Horizon(s)})
    IN  IF due > divergence
        THEN Desync(p, [s EXCEPT !.verified = Max({@, divergence})], divergence)
        ELSE [s EXCEPT !.verified = Max({@, due})]

(***************************************************************************)
(* ggpo_net_handle_correction_control, by role and phase of the packet.    *)
(***************************************************************************)
TupleMatches(s, m) ==
    m.id = s.id /\ m.ackId = s.id /\ m.first = s.first /\ m.resume = s.resume

\* A correction is over: ggpo_net_finish_host_correction and its JOIN twin.
Finish(s) ==
    [s EXCEPT !.phase = "none", !.peerPhase = "none", !.applied = s.id,
              !.lastTranscript = s.transcript, !.waited = 0]

\* The joiner holds on until the host is seen to play again.
JoinOnNone(s, m) ==
    IF /\ s.phase = "releaseAck"
       /\ m.id = s.id /\ m.ackId = s.id /\ m.sum = s.transcript
    THEN Finish(s) ELSE s

HostOnRequest(s, m) ==
    IF \/ m.id # s.id \/ m.ackId # m.id
       \/ Frozen(s)
       \/ s.applied # 0 /\ m.first <= s.first
    THEN s
    ELSE BeginHostRequest(s, m.first)

JoinOnOffer(s, m) ==
    IF m.id = s.id /\ s.phase \in {"receiving", "ready", "applied", "releaseAck"}
    THEN IF TupleMatches(s, m) /\ m.sum = <<s.snapshot>> THEN s
         ELSE Disconnect(s, "protocol")
    ELSE IF s.phase \notin {"none", "request"} THEN s
    ELSE IF m.id # s.id + 1
    THEN IF m.id = s.applied THEN s ELSE Disconnect(s, "protocol")
    ELSE IF s.phase = "request" /\ m.first # s.request
    THEN Disconnect(s, "protocol")
    ELSE [Progress(s) EXCEPT
            !.phase = "receiving", !.peerPhase = "offer", !.id = m.id,
            !.request = m.first, !.first = m.first, !.resume = m.resume,
            !.snapshot = m.sum[1], !.staged = FALSE,
            !.transcript = NoTranscript, !.expected = NoTranscript]

\* Mutant: the host takes the joiner's first reply only.
HostOnReplyOnce(s, m) ==
    IF m.phase \in {"receiving", "ready"} /\ s.phase = "offer"
    THEN IF s.peerPhase = "none" THEN [Progress(s) EXCEPT !.peerPhase = m.phase] ELSE s
    ELSE IF m.phase = "applied" /\ s.phase = "commit"
    THEN [Progress(s) EXCEPT !.phase = "release", !.peerPhase = "applied"]
    ELSE IF m.phase = "releaseAck" /\ s.phase = "release"
    THEN Finish(s) ELSE s

\* Mutant: the host releases as soon as the joiner is ready.
HostOnReplyEager(s, m) ==
    IF m.phase = "ready" /\ s.phase = "commit"
    THEN [Progress(s) EXCEPT !.phase = "release"]
    ELSE IF m.phase \in {"receiving", "ready"} /\ s.phase = "offer"
    THEN [Progress(s) EXCEPT !.peerPhase = m.phase]
    ELSE IF s.phase = "release" THEN Finish(s) ELSE s

HostOnReply(s, m) ==
    IF m.phase \in {"receiving", "ready"}
    THEN IF m.sum # <<s.snapshot>> THEN Disconnect(s, "protocol")
         ELSE IF s.phase = "offer" /\ s.peerPhase # m.phase
         THEN [Progress(s) EXCEPT !.peerPhase = m.phase] ELSE s
    ELSE IF m.phase \notin {"applied", "releaseAck"} THEN s
    ELSE IF m.sum # s.transcript THEN Disconnect(s, "protocol")
    ELSE IF m.phase = "applied" /\ s.phase = "commit"
    THEN [Progress(s) EXCEPT !.phase = "release", !.peerPhase = "applied"]
    ELSE IF m.phase = "releaseAck" /\ s.phase = "release"
    THEN Finish(s) ELSE s

JoinOnReply(s, m) ==
    IF m.phase = "commit"
    THEN IF s.phase = "ready"
         THEN [Progress(s) EXCEPT !.expected = m.sum, !.peerPhase = "commit"]
         ELSE IF s.phase \in {"applied", "releaseAck"} /\ m.sum # s.transcript
         THEN Disconnect(s, "protocol") ELSE s
    ELSE IF m.phase # "release" THEN s
    ELSE IF m.sum # s.transcript THEN Disconnect(s, "protocol")
    ELSE IF s.phase = "applied"
    THEN [Progress(s) EXCEPT !.phase = "releaseAck", !.peerPhase = "release"]
    ELSE s

HandleControl(p, s, m) ==
    CASE m.phase = "none"    -> IF p = Join THEN JoinOnNone(s, m) ELSE s
      [] m.phase = "request" -> IF p = Host THEN HostOnRequest(s, m) ELSE s
      [] m.phase = "offer"   -> IF p = Join THEN JoinOnOffer(s, m) ELSE s
      [] OTHER ->
           IF TupleMatches(s, m)
           THEN IF p = Host THEN HostOnReply(s, m) ELSE JoinOnReply(s, m)
           ELSE IF m.id = s.applied \/ m.id # s.id THEN s
           ELSE Disconnect(s, "protocol")

\* ggpo_net_handle_state_chunk: the staged snapshot is complete.
JoinOnChunk(s, m) ==
    IF /\ s.phase \in {"receiving", "ready"} /\ ~s.staged
       /\ m.id = s.id /\ m.first = s.first /\ m.snapshot = s.snapshot
    THEN [Progress(s) EXCEPT !.staged = TRUE] ELSE s

(***************************************************************************)
(* ggpo_net_handle_packet.                                                 *)
(***************************************************************************)
\* Mutant: the acknowledgements of the stream before the correction count on.
SameStreamAny(s, m) == ~Frozen(s)

\* Checksums and their acknowledgements count only within one correction
\* generation, and only while it is not being replaced.
SameStream(s, m) == m.id = s.id /\ ~Frozen(s)

ValidEnvelope(s, m) ==
    /\ m.known <= s.committed
    /\ SameStream(s, m) => m.verified <= s.published

NoteInputs(s, m) ==
    [s EXCEPT !.known = Max({@, m.inputs}), !.acked = Max({@, m.known})]

\* The checksums of the packet, once its control tuple is handled.
NoteChecksums(p, s, m) ==
    IF SameStream(s, m) /\ m.phase = "none" /\ s.lost = ""
    THEN CompareChecksums(p, [s EXCEPT !.peerSums = Max({@, m.sums})])
    ELSE s

HandlePacket(p, s, m) ==
    IF m.kind = "chunk" THEN JoinOnChunk(s, m)
    ELSE IF ValidEnvelope(s, m)
    THEN NoteChecksums(p, HandleControl(p, NoteInputs(s, m), m), m)
    ELSE Disconnect(s, "envelope")

Running(p) == peer[p].lost = ""

\* A joiner that finds a mismatch asks the host at once.
Receive(p) ==
    /\ Running(p)
    /\ \E m \in net :
         /\ m.to = p
         /\ \E s \in {HandlePacket(p, peer[p], m)} :
              /\ peer' = [peer EXCEPT ![p] = s]
              /\ IF s.phase = "request" /\ p = Join /\ ~Frozen(peer[p])
                 THEN net' \in Sent(net \ {m}, Packet(p, s))
                 ELSE net' = net \ {m}
    /\ UNCHANGED <<divergence, setting>>

(***************************************************************************)
(* ggpo_net_progress_correction.                                           *)
(***************************************************************************)
\* Mutant: the commit frontier jumps with the frame, back over inputs the
\* other player may already hold.
ReplayRecommits(s, exact) ==
    [s EXCEPT
       !.frame = s.resume, !.committed = s.resume + InputDelay,
       !.verified = s.first, !.published = s.first, !.peerSums = 0,
       !.transcript = <<s.id, s.first, s.resume, exact>>,
       !.replayed = <<s.id, exact>>]

\* Mutant: the transcript names the frames and not what became of them.
ReplayBlind(s, exact) ==
    [s EXCEPT
       !.frame = s.resume,
       !.committed = Max({@, s.resume + InputDelay}),
       !.verified = s.first, !.published = s.first, !.peerSums = 0,
       !.transcript = <<s.id, s.first, s.resume>>,
       !.replayed = <<s.id, exact>>]

\* Reload the snapshot, replay the pinned inputs up to the resume frame and
\* start the checksum stream over.  The delay's inputs that are not committed
\* yet become neutral.  The transcript hashes the tuple and the states replayed.
Replay(s, exact) ==
    [s EXCEPT
       !.frame = s.resume,
       !.committed = Max({@, s.resume + InputDelay}),
       !.verified = s.first, !.published = s.first, !.peerSums = 0,
       !.transcript = <<s.id, s.first, s.resume, exact>>,
       !.replayed = <<s.id, exact>>]

\* The snapshot is complete and every input of the replay is here.
MayBeReady(s) ==
    s.phase = "receiving" /\ s.staged /\ s.resume <= Min({s.known, s.committed})

MayCommit(s) == s.phase = "offer" /\ s.peerPhase = "ready"

MayApply(s) == s.phase = "ready" /\ s.peerPhase = "commit"

Applied(s) ==
    IF s.transcript = s.expected
    THEN [Progress(s) EXCEPT !.phase = "applied"]
    ELSE Disconnect(s, "transcript")

\* The host's replay opens a new timeline, which may come apart later.
Commit(s, links) ==
    \E t \in {[Progress(Replay(s, TRUE)) EXCEPT !.phase = "commit"]} :
        /\ peer' = [peer EXCEPT ![Host] = t]
        /\ net' \in Sent(links, Packet(Host, t))
        /\ divergence' \in {MaxFrame} \cup
             (IF s.id < MaxCorrections THEN s.resume .. (MaxFrame - 1) ELSE {})

Become(p, s, links) ==
    /\ peer' = [peer EXCEPT ![p] = s]
    /\ net' \in (IF s.phase # peer[p].phase /\ s.lost = ""
                 THEN Sent(links, Packet(p, s)) ELSE {links})
    /\ UNCHANGED divergence

Correct(p, s, links) ==
    /\ Frozen(s)
    /\ IF p = Host
       THEN IF MayCommit(s) THEN Commit(s, links)
            ELSE Become(p, IF s.phase = "request" THEN PrepareOffer(s) ELSE s, links)
       ELSE IF MayApply(s)
       THEN \E exact \in setting.faithful : Become(p, Applied(Replay(s, exact)), links)
       ELSE IF MayBeReady(s)
       THEN Become(p, [Progress(s) EXCEPT !.phase = "ready"], links)
       ELSE Become(p, s, links)

(***************************************************************************)
(* ggpo_net_advance outside a correction.                                  *)
(***************************************************************************)
Held(s) ==
    \/ s.frame = 0 /\ s.known = 0
    \/ s.frame - s.known >= MaxPrediction
    \/ s.frame >= MaxFrame

Publish(s) == [s EXCEPT !.published = IF Frozen(s) THEN @ ELSE Max({@, Horizon(s)})]

Simulate(p, s, links) ==
    \E queued \in {Publish([s EXCEPT !.committed = Max({@, s.frame + InputDelay + 1})])} :
        /\ peer' = [peer EXCEPT ![p] = [queued EXCEPT !.frame = @ + 1]]
        /\ net' \in Sent(links, Packet(p, queued))
        /\ UNCHANGED divergence

\* A mismatch found here freezes the game before it moves.
Play(p, s, links) ==
    /\ ~Frozen(s)
    /\ \E t \in {CompareChecksums(p, s)} :
          IF Frozen(t) \/ t.lost # "" \/ Held(t)
          THEN Become(p, t, links)
          ELSE Simulate(p, t, links)

\* The next step of the barrier is this peer's own.
Actionable(p, s) ==
    IF p = Host THEN s.phase = "request" \/ MayCommit(s)
    ELSE (s.phase = "receiving" /\ s.staged) \/ MayApply(s)

Expired(p, s) ==
    /\ setting.timeout > 0 /\ Frozen(s)
    /\ ~Actionable(p, s)
    /\ s.waited >= setting.timeout

\* The clock of the current phase.
Ticked(s) ==
    [s EXCEPT !.waited = IF Frozen(s) /\ @ < setting.timeout THEN @ + 1 ELSE @]

\* ggpo_net_service_transport: a heartbeat, and the snapshot once the joiner
\* is known to wait for it.
Serviced(p, s) ==
    IF p = Host /\ s.phase = "offer" /\ s.peerPhase = "receiving"
    THEN UNION {Sent(links, Chunk(s)) : links \in Sent(net, Packet(p, s))}
    ELSE Sent(net, Packet(p, s))

Advance(p) ==
    /\ Running(p)
    /\ UNCHANGED setting
    /\ \E s \in {Publish(Ticked(peer[p]))} :
         IF Expired(p, s)
         THEN Become(p, Disconnect(s, "timeout"), net)
         ELSE \E links \in Serviced(p, s) : Correct(p, s, links) \/ Play(p, s, links)

InitialPeer ==
    [frame |-> 0, committed |-> InputDelay, known |-> 0, acked |-> 0,
     verified |-> 0, published |-> 0, peerSums |-> 0,
     phase |-> "none", peerPhase |-> "none", id |-> 0, applied |-> 0,
     request |-> 0, first |-> 0, resume |-> 0, snapshot |-> 0, staged |-> FALSE,
     transcript |-> NoTranscript, expected |-> NoTranscript,
     lastTranscript |-> NoTranscript, replayed |-> <<>>, waited |-> 0, lost |-> ""]

Init ==
    /\ peer = [p \in Peer |-> InitialPeer]
    /\ net = {}
    /\ divergence \in IF MaxCorrections = 0 THEN {MaxFrame} ELSE 0 .. MaxFrame
    /\ setting \in Settings

Next == \E p \in Peer : Receive(p) \/ Advance(p)

\* As in InputExchange: the loop keeps ticking, and a link that is not dead
\* delivers some packet of either kind out of infinitely many.
Deliver(p, kind) ==
    Running(p) /\ \E m \in net : m.to = p /\ m.kind = kind /\ net' = net \ {m}

Fairness ==
    /\ \A p \in Peer : WF_vars(Advance(p)) /\ SF_net(Deliver(p, "control"))
    /\ SF_net(Deliver(Join, "chunk"))

Spec == Init /\ [][Next]_vars /\ Fairness

-----------------------------------------------------------------------------
(***************************************************************************)
(* Properties.                                                             *)
(***************************************************************************)
Frame == 0 .. (MaxFrame + InputDelay)

\* A peer between its replay and its release.
HasReplayed(s) == s.phase \in {"commit", "release", "applied", "releaseAck"}

Barrier == INSTANCE CorrectionRound WITH
    Player <- Peer,
    state <- [p \in Peer |->
                IF ~Frozen(peer[p]) THEN "playing"
                ELSE IF HasReplayed(peer[p]) THEN "replayed" ELSE "frozen"],
    round <- [p \in Peer |->
                IF HasReplayed(peer[p]) THEN peer[p].id ELSE peer[p].applied]

\* Freeze, replay and release happen in that order on both sides together:
\* no loss or reordering of control packets lets one peer play on while the
\* other has still to replay, or replay while the other still plays.
ImplementsRound == Barrier!RoundSpec

\* A peer that plays does so on the very replay the other peer made, also
\* when a replay of the same inputs can come out differently.
PlayedTimelineIsShared ==
    \A p \in Peer : ~Frozen(peer[p]) /\ peer[p].lost = "" =>
        peer[Other(p)].replayed = peer[p].replayed

\* An offer of a correction before the last one the joiner has come through.
\* Only an offer of the last one counts as late (ggpo_net.c:5530).
Outdated(m) ==
    /\ m.to = Join /\ m.kind = "control" /\ m.phase = "offer"
    /\ m.id < peer[Join].applied

\* Two correct peers finish every correction they begin: no late, repeated or
\* overtaken packet of this or an earlier generation, and no acknowledgement
\* of the checksum stream a correction replaced, is taken for a violation, but
\* for an offer two corrections old.  Otherwise a session ends by its deadline,
\* or by a replay that really came out different.
NoFalseDisconnect ==
    [][\A p \in Peer : peer[p].lost = "" /\ peer'[p].lost # "" =>
         \/ peer'[p].lost = "timeout"
         \/ peer'[p].lost = "transcript" /\ peer'[p].replayed = <<peer'[p].id, FALSE>>
         \/ /\ p = Join /\ peer'[p].lost = "protocol"
            /\ \E m \in net \ net' : Outdated(m)]_vars

\* From the first offer on, both players hold every input of the replay, so
\* that no correction waits for an input that a frozen game will never make.
ReplayIsSettled ==
    \A p \in Peer : LET s == peer[p] IN s.phase \notin {"none", "request"} =>
        /\ s.first < s.resume
        /\ s.resume <= s.known
        /\ s.resume <= peer[Other(p)].known

\* What a player has committed, what arrived and what was acknowledged never
\* moves back, although the frame counter may.
InputsSurviveCorrection ==
    [][\A p \in Peer :
         /\ peer[p].committed <= peer'[p].committed
         /\ peer[p].known <= peer'[p].known
         /\ peer[p].acked <= peer'[p].acked
         /\ peer[p].id <= peer'[p].id]_vars

\* With faithful replays and no deadline, every correction comes to an end
\* and both games reach the last frame on one timeline.
GameRecovers ==
    setting.timeout = 0 /\ setting.faithful = {TRUE} =>
    <>[](/\ \A p \in Peer : ~Frozen(peer[p]) /\ peer[p].frame = MaxFrame
         /\ peer[Host].replayed = peer[Join].replayed
         /\ divergence = MaxFrame)
=============================================================================
