-------------------------------- MODULE Prematch -------------------------------
(***************************************************************************)
(* The pre-match phase of ggpo_net.c: two peers find each other, confirm   *)
(* the link in both directions, freeze their state layouts behind a hold,  *)
(* release it, move the host's start state to the join in chunks, exchange *)
(* a neutral input for frame zero and load the start.                      *)
(*                                                                         *)
(* Until it has loaded, a peer whose transport fails starts over in a      *)
(* fresh session, on a fresh port (native UDP) or under the same socket    *)
(* name (EOS); the other migrates to the new session and keeps its own.    *)
(* A datagram may be lost, repeated, or delayed past any number of such    *)
(* restarts: sent[c] holds every one that c has ever had to send.          *)
(*                                                                         *)
(* Epochs follow from the rest and are not kept: a host is in epoch 1      *)
(* while it holds and in 2 afterwards, a join in that of the state it has  *)
(* applied.  The layouts of the two installations agree.                   *)
(***************************************************************************)
EXTENDS Integers, FiniteSets

CONSTANTS
    Host, Join,         \* the two modes
    Chunks,             \* chunks of a start state
    Settings            \* what may go wrong in a run

Peer == {Host, Join}
Chunk == 1 .. Chunks

ASSUME PrematchAssumption ==
    /\ Host # Join
    /\ Chunks \in Nat \ {0}
    /\ Settings \subseteq [restarts : Nat, when : {"any", "linked"},
                           faults : Nat, ports : {"same", "fresh"}]

VARIABLES
    peer,               \* peer[c]: g_net of c's current session
    sent,               \* sent[c]: every datagram of c's sessions so far
    setting             \* what may still go wrong

startVars == <<peer, sent, setting>>

Other(c) == IF c = Host THEN Join ELSE Host

\* Generations of a peer's hold, as the other learns them: hold_epoch.
Unknown == 0
Held == 1
Released == 2

NoState == [start |-> 0, parts |-> {}]

\* ggpo_net_start_common with start_held: session n of c.
Fresh(c, n) ==
    [sid |-> n,                 \* session_id
     remote |-> 0,              \* remote_session_id, 0 before there is one
     retired |-> {},            \* retired_remote_session_ids
     confirmed |-> FALSE,       \* the peer has echoed this session
     peerConfirmed |-> FALSE,   \* and knows that it has been echoed itself
     held |-> TRUE, final |-> FALSE,
     other |-> Unknown, otherFinal |-> FALSE,
     start |-> 0,               \* the start state: the session it was captured in
     synced |-> c = Host, remoteSynced |-> c = Join,
     recv |-> NoState,
     in0 |-> FALSE, remoteIn0 |-> FALSE,
     loaded |-> FALSE]

\* ggpo_net_link_confirmed
Linked(s) == s.confirmed /\ s.peerConfirmed

\* ggpo_net_state_layout_ready
LayoutReady(s) == Linked(s) /\ s.final /\ s.otherFinal

Synced(s) ==
    ~s.held /\ s.other # Held /\ LayoutReady(s) /\ s.synced /\ s.remoteSynced

-----------------------------------------------------------------------------
(* What a session in state s has to send (ggpo_net_service_transport). *)

\* ggpo_net_fill_packet
Packet(s, kind, n) ==
    [kind |-> kind, sid |-> s.sid, echo |-> s.remote, acked |-> s.confirmed,
     hold |-> IF s.held THEN Held ELSE Released, final |-> s.final,
     start |-> s.start, chunk |-> n]

\* ggpo_net_send_state_sync_burst
SendsState(c, s) ==
    /\ c = Host /\ ~s.held /\ s.other # Held
    /\ Linked(s) /\ ~s.remoteSynced

Emits(c, s) ==
    {Packet(s, "hello", 0)}
    \cup {Packet(s, "input", 0) : i \in IF Synced(s) /\ s.in0 THEN {1} ELSE {}}
    \cup {Packet(s, "ack", 0) : i \in IF c = Join /\ s.synced THEN {1} ELSE {}}
    \cup {Packet(s, "state", n) : n \in IF SendsState(c, s) THEN Chunk ELSE {}}

Becomes(c, s) ==
    /\ peer' = [peer EXCEPT ![c] = s]
    /\ sent' = [sent EXCEPT ![c] = @ \cup Emits(c, s)]

StartInit ==
    /\ peer = [c \in Peer |-> Fresh(c, 1)]
    /\ sent = [c \in Peer |-> Emits(c, Fresh(c, 1))]
    /\ setting \in Settings

-----------------------------------------------------------------------------
(* Taking a datagram p in. *)

\* A datagram names the session it answers; a fresh port gets no older ones.
Reaches(p, s) == setting.ports = "same" \/ p.echo \in {0, s.sid}

\* Mutant: what the old session had acknowledged counts for the new one.
ResetAttemptKeepsSync(c, s) ==
    [s EXCEPT !.confirmed = FALSE, !.peerConfirmed = FALSE,
              !.other = Unknown, !.otherFinal = FALSE,
              !.recv = NoState, !.in0 = FALSE, !.remoteIn0 = FALSE]

\* ggpo_net_reset_confirmed_prematch_peer_attempt.  Nothing of this has been
\* set in a link not confirmed, where the lighter reset is used.
ResetAttempt(c, s) ==
    [s EXCEPT !.confirmed = FALSE, !.peerConfirmed = FALSE,
              !.other = Unknown, !.otherFinal = FALSE,
              !.start = IF c = Host THEN @ ELSE 0,
              !.synced = (c = Host), !.remoteSynced = (c = Join),
              !.recv = NoState, !.in0 = FALSE, !.remoteIn0 = FALSE]

\* ggpo_net_accept_packet_source: only a HELLO opens a session, or moves a
\* peer that has not loaded to another one, which retires the session left.
Acceptable(s, p) ==
    /\ p.sid \notin s.retired
    /\ p.sid = s.remote \/ (p.kind = "hello" /\ ~s.loaded)

Source(c, s, p) ==
    IF p.sid = s.remote THEN s
    ELSE IF s.remote = 0 THEN [s EXCEPT !.remote = p.sid]
    ELSE [ResetAttempt(c, s) EXCEPT !.retired = @ \cup {s.remote}, !.remote = p.sid]

\* The two echoes of a handshake packet.
Handshake(s, p) ==
    LET echoed == p.echo = s.sid
    IN [s EXCEPT !.confirmed = @ \/ echoed,
                 !.peerConfirmed = @ \/ (echoed /\ p.acked)]

\* A hold's generation only grows, and keeps the layout once it is known.
NoteHold(s, p) ==
    [s EXCEPT !.other = IF p.hold > @ THEN p.hold ELSE @,
              !.otherFinal = @ \/ p.final]

\* Past the quarantine of the hold.
Open(s) == ~s.held /\ s.other # Held /\ LayoutReady(s)

\* Mutant: an acknowledgement of any state will do.
NoteAckOfAny(s, p) == [s EXCEPT !.remoteSynced = TRUE]

NoteAck(s, p) == [s EXCEPT !.remoteSynced = @ \/ p.start = s.start]

NoteInput(s, p) == [s EXCEPT !.remoteIn0 = @ \/ (s.synced /\ s.remoteSynced)]

\* ggpo_net_handle_packet
Handled(c, s, p) ==
    LET t == IF p.kind = "ack" THEN s ELSE Handshake(s, p)
        u == NoteHold(t, p)
    IN IF ~Linked(t) THEN t
       ELSE IF ~Open(u) THEN u
       ELSE IF p.kind = "ack" THEN NoteAck(u, p)
       ELSE IF p.kind = "input" THEN NoteInput(u, p)
       ELSE u

\* The chunks of another state start the assembly anew.
Assembled(s, p) ==
    [start |-> p.start,
     parts |-> {p.chunk} \cup IF s.recv.start = p.start THEN s.recv.parts ELSE {}]

\* Applying the state clears what inputs there were.
Applied(s, start) ==
    [s EXCEPT !.start = start, !.synced = TRUE, !.remoteSynced = TRUE,
              !.recv = NoState, !.in0 = FALSE, !.remoteIn0 = FALSE]

\* A datagram that changes nothing is no step.
ReceivePacket(c, p) ==
    /\ p.kind # "state"
    /\ Reaches(p, peer[c]) /\ Acceptable(peer[c], p)
    /\ LET s == Handled(c, Source(c, peer[c], p), p)
       IN s # peer[c] /\ Becomes(c, s)
    /\ UNCHANGED setting

\* ggpo_net_handle_state_chunk: dropped while either peer holds, and once a
\* state has been applied.  An apply that fails restores what was there, and
\* the next chunks start over.
ReceiveChunk(c, p) ==
    LET s == peer[c]
        recv == Assembled(s, p)
    IN /\ c = Join /\ p.kind = "state"
       /\ Reaches(p, s) /\ p.sid = s.remote /\ p.sid \notin s.retired
       /\ Open(s) /\ ~s.synced
       /\ \/ recv.parts # Chunk /\ recv # s.recv /\ Becomes(c, [s EXCEPT !.recv = recv])
             /\ UNCHANGED setting
          \/ recv.parts = Chunk /\ Becomes(c, Applied(s, p.start))
             /\ UNCHANGED setting
          \/ recv.parts = Chunk /\ setting.faults > 0
             /\ Becomes(c, [s EXCEPT !.recv = NoState])
             /\ setting' = [setting EXCEPT !.faults = @ - 1]

Deliver(c) == \E p \in sent[Other(c)] : ReceivePacket(c, p) \/ ReceiveChunk(c, p)

-----------------------------------------------------------------------------
(* What the hub's launch pump asks of the session. *)

\* ggpo_net_finalize_state_layout
Finalize(c) ==
    LET s == peer[c]
    IN /\ Linked(s) /\ s.held /\ ~s.final
       /\ Becomes(c, [s EXCEPT !.final = TRUE])
       /\ UNCHANGED setting

\* ggpo_net_set_prematch_hold(0): the host captures the start, the join waits
\* for it.
Release(c) ==
    LET s == peer[c]
    IN /\ s.held /\ LayoutReady(s)
       /\ Becomes(c, [s EXCEPT !.held = FALSE, !.recv = NoState,
                               !.start = IF c = Host THEN s.sid ELSE 0,
                               !.synced = (c = Host), !.remoteSynced = (c = Join)])
       /\ UNCHANGED setting

\* ggpo_net_prime_prematch_frame0
Prime(c) ==
    /\ Synced(peer[c]) /\ ~peer[c].in0
    /\ Becomes(c, [peer[c] EXCEPT !.in0 = TRUE])
    /\ UNCHANGED setting

\* ggpo_net_prematch_ready
Ready(s) == Synced(s) /\ s.in0 /\ s.remoteIn0

\* ggpo_net_prepare_prematch_start
Prepare(c) ==
    /\ Ready(peer[c]) /\ ~peer[c].loaded
    /\ Becomes(c, [peer[c] EXCEPT !.loaded = TRUE])
    /\ UNCHANGED setting

\* ggpo_net_stop_for_retry and the next held session; without a BYE, and with
\* nothing remembered of the sessions that were retired.
StartOver(c) ==
    /\ ~peer[c].loaded /\ setting.restarts > 0
    /\ setting.when = "linked" => peer[Other(c)].remote = peer[c].sid
    /\ Becomes(c, Fresh(c, peer[c].sid + 1))
    /\ setting' = [setting EXCEPT !.restarts = @ - 1]

-----------------------------------------------------------------------------
Pump(c) == Finalize(c) \/ Release(c) \/ Prime(c) \/ Prepare(c)

StartNext == \E c \in Peer : Deliver(c) \/ Pump(c) \/ StartOver(c)

StartSpec == StartInit /\ [][StartNext]_startVars

\* A datagram that a session keeps sending arrives in the end.
Hears(c) ==
    \E p \in sent[Other(c)] \cap Emits(Other(c), peer[Other(c)]) :
        ReceivePacket(c, p) \/ ReceiveChunk(c, p)

\* The launch pump runs every frame and the network delivers something of what
\* is repeated; nobody is assumed to restart.
Fairness == \A c \in Peer : WF_startVars(Hears(c)) /\ WF_startVars(Pump(c))

FairStartSpec == StartSpec /\ Fairness

-----------------------------------------------------------------------------
(***************************************************************************)
(* Properties.                                                             *)
(***************************************************************************)
\* A peer that has loaded has loaded what the peer it is linked with, in both
\* directions, starts from too, whatever was repeated, delayed or started over.
StartIsShared ==
    \A c \in Peer :
        LET s == peer[c]
            o == peer[Other(c)]
        IN s.loaded /\ s.remote = o.sid /\ o.remote = s.sid => o.start = s.start

\* One peer has loaded and the other's session, which it waits for, is gone.
Abandoned ==
    \E c \in Peer : peer[c].loaded /\ peer[c].remote # peer[Other(c)].sid

\* The barriers never wait for each other: both peers load the start, if one
\* session is replaced, after the other peer has seen it (Settings allow one).
SetupCompletes ==
    setting.when = "linked" => <>(Abandoned \/ \A c \in Peer : peer[c].loaded)
=============================================================================
