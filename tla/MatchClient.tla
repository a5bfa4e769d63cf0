----------------------------- MODULE MatchClient ------------------------------
(***************************************************************************)
(* One online match as its two clients live it (hooks.c): a match found is *)
(* set up behind the hub, played, reported, presented by the native game   *)
(* and answered by the server, and may be played again.                    *)
(*                                                                         *)
(* The pending match, the active match and the result toast are separate   *)
(* records that overlap for a while, and so do the screen, the peer link   *)
(* and the control connection; the server's side is what MatchServer says  *)
(* of two players.  One call of an update hook is one action; a message is *)
(* handled in one.  Pre-match synchronisation is Prematch's subject: here  *)
(* it is a ladder of stages that each peer sees of the other.              *)
(***************************************************************************)
EXTENDS Integers, FiniteSets, Sequences

CONSTANTS
    Client,             \* the two players' games
    NoOne,              \* no winner: a draw, a no contest, nothing decided
    MaxAttempts,        \* ONLINE_CONNECT_MAX_ATTEMPTS
    Courses             \* what may go wrong in a run, and what players do

ASSUME ClientAssumption ==
    /\ \E a, b \in Client : a # b /\ Client = {a, b}
    /\ NoOne \notin Client
    /\ MaxAttempts \in Nat \ {0}
    /\ Courses \subseteq
        [matches : Nat, faults : Nat, drops : Nat, corrections : Nat,
         leave : BOOLEAN, hands : SUBSET {"rematch", "decline", "queue"},
         toast : SUBSET {"hub", "main", "game"}]

VARIABLES
    client,             \* client[c]: the online state of c's game
    down,               \* down[c]: the server's messages on their way to c
    server,             \* what the server knows of the match
    real,               \* who really wins the game the two play
    course              \* what may still go wrong

clientVars == <<client, down, server, real, course>>

Opponent(c) == CHOOSE d \in Client : d # c

NoPending == [id |-> 0, stage |-> "link", committed |-> FALSE]
NoActive == [id |-> 0, reported |-> FALSE, awaiting |-> FALSE]
NoResult == [id |-> 0, outcome |-> NoOne, confirmed |-> FALSE, rematch |-> "none"]

Message(type, m, winner, rematch) ==
    [type |-> type, id |-> m, winner |-> winner, rematch |-> rematch]

InitialClient ==
    [link |-> TRUE,             \* g_online_server_state, authenticated
     up |-> <<>>,               \* lines on their way to the server
     screen |-> "hub",          \* hub, main or game (with its menus)
     opening |-> FALSE,         \* g_online_open_pending
     queued |-> FALSE,          \* g_online_queue_mode
     pending |-> NoPending,     \* g_online_pending_match
     tries |-> 0,               \* g_online_connect.attempts
     net |-> "off",             \* the peer session: off, open or linked
     active |-> NoActive,       \* g_online_active_match
     seen |-> NoOne,            \* winner the native game is showing
     correcting |-> FALSE,      \* a correction is under way or awaited
     result |-> NoResult]       \* g_online_result

\* The two clients have just been paired for their first match.
ClientInit ==
    /\ client = [c \in Client |-> InitialClient]
    /\ down = [c \in Client |-> <<Message("found", 1, NoOne, "none")>>]
    /\ server = [id |-> 1, phase |-> "setup", online |-> Client, ready |-> {},
                 said |-> [c \in Client |-> NoOne], failed |-> {}, outcome |-> NoOne,
                 told |-> {}, offer |-> FALSE, votes |-> {}, queue |-> {}]
    /\ real = NoOne
    /\ course \in Courses

-----------------------------------------------------------------------------
(* What the client's helpers do to its state s. *)

SendLine(s, type, m, winner) ==
    IF s.link THEN [s EXCEPT !.up = Append(s.up, Message(type, m, winner, "none"))] ELSE s

\* online_native_finish_is_presenting
Presenting(s) ==
    s.active.id # 0 /\ s.screen = "game" /\ (s.active.awaiting \/ s.seen # NoOne)

\* online_current_match_id
Current(s) == IF s.pending.id # 0 THEN s.pending.id
              ELSE IF s.active.id # 0 THEN s.active.id ELSE s.result.id

OpenHub(s) == IF s.screen = "hub" THEN s ELSE [s EXCEPT !.opening = TRUE]

\* online_return_to_hub_after_match
ReturnToHub(s) ==
    IF Presenting(s) THEN [s EXCEPT !.active.awaiting = TRUE, !.opening = FALSE]
    ELSE [OpenHub(s) EXCEPT !.queued = FALSE]

\* online_clear_match_state
ClearMatch(s) == [s EXCEPT !.pending = NoPending, !.active = NoActive, !.tries = 0]

StopNet(s) == [s EXCEPT !.net = "off", !.correcting = FALSE]

\* online_result_prepare
Provisional(s, outcome) ==
    [s EXCEPT !.result = [NoResult EXCEPT !.id = s.active.id, !.outcome = outcome]]

\* online_abort_prematch_setup, online_abort_connect_timeout
AbortSetup(s) ==
    OpenHub(ClearMatch(StopNet(SendLine(s, "abort", s.pending.id, NoOne))))

\* Mutant: the winner is taken from whatever the native game shows.
PollCompletionEager(s) ==
    IF s.active.id = 0 \/ s.active.reported \/ s.seen = NoOne THEN s
    ELSE LET t == [SendLine(s, "end", s.active.id, s.seen) EXCEPT
                      !.active.reported = TRUE, !.active.awaiting = TRUE]
         IN IF s.result.id = 0 THEN Provisional(t, s.seen) ELSE t

\* online_match_poll_completion with online_finish_active_match
PollCompletion(s) ==
    IF s.active.id = 0 \/ s.active.reported \/ s.correcting \/ s.seen = NoOne THEN s
    ELSE LET t == [SendLine(s, "end", s.active.id, s.seen) EXCEPT
                      !.active.reported = TRUE, !.active.awaiting = TRUE]
         IN IF s.result.id = 0 THEN Provisional(t, s.seen) ELSE t

\* online_resolve_p2p_transport_failure
TransportFailure(s) ==
    LET t == PollCompletion(s)
        failed == SendLine(s, "failure", s.active.id, NoOne)
    IN IF t.active.id = 0 \/ t.active.reported THEN StopNet(t)
       ELSE ReturnToHub(ClearMatch(Provisional(StopNet(failed), NoOne)))

\* online_forfeit_active_match
Forfeit(c, s) ==
    LET t == IF s.active.reported THEN s ELSE SendLine(s, "abort", s.active.id, NoOne)
    IN ReturnToHub([Provisional(StopNet(t), Opponent(c)) EXCEPT
                       !.active.reported = TRUE, !.pending = NoPending, !.tries = 0])

\* Mutant: the toast survives the connection, confirmed or not.
DisconnectedKept(s) ==
    LET t == [s EXCEPT !.link = FALSE, !.queued = FALSE]
        interrupted == s.pending.id # 0 \/ (s.active.id # 0 /\ ~s.active.reported)
        presented == PollCompletion([t EXCEPT !.active.awaiting = TRUE])
    IN IF ~interrupted THEN [t EXCEPT !.result = [s.result EXCEPT !.rematch = "none"]]
       ELSE IF Presenting(s) THEN [presented EXCEPT !.active.reported = TRUE]
       ELSE OpenHub(ClearMatch(StopNet(t)))

\* online_server_disconnect with online_handle_server_match_disconnect
Disconnected(s) ==
    LET t == [s EXCEPT !.link = FALSE, !.queued = FALSE]
        interrupted == s.pending.id # 0 \/ (s.active.id # 0 /\ ~s.active.reported)
        presented == PollCompletion([t EXCEPT !.active.awaiting = TRUE])
    IN IF ~interrupted
       THEN [t EXCEPT !.result = IF s.result.confirmed
                                 THEN [s.result EXCEPT !.rematch = "none"] ELSE NoResult]
       ELSE IF Presenting(s) THEN [presented EXCEPT !.active.reported = TRUE]
       ELSE OpenHub(ClearMatch(StopNet(t)))

-----------------------------------------------------------------------------
(* online_server_handle_line: what a message m does to client c in state s. *)

\* online_server_begin_pending_match, with a first connection attempt.  The
\* active match of a presentation still under way is left alone.
MatchFound(s, m) ==
    OpenHub([s EXCEPT !.pending = [NoPending EXCEPT !.id = m.id], !.tries = 1,
                      !.net = "open", !.correcting = FALSE, !.result = NoResult,
                      !.queued = FALSE])

\* The match cannot be set up here: a map that is not installed any more.
MatchRefused(s, m) ==
    [AbortSetup([s EXCEPT !.pending = [NoPending EXCEPT !.id = m.id]]) EXCEPT
        !.queued = FALSE]

MatchCommitted(s) ==
    IF s.pending.id = 0 THEN s ELSE [s EXCEPT !.pending.committed = TRUE]

\* A result may overtake the launch pump: then the committed match that is
\* still pending is resolved where it stands.
MatchResult(s, m) ==
    LET kept == Presenting(s)
        atBarrier == s.pending.id # 0 /\ s.pending.committed
        rematch == IF m.rematch = "available" /\ s.result.rematch = "none" THEN "available"
                   ELSE IF m.rematch = "available" \/ s.result.rematch = "starting"
                   THEN s.result.rematch ELSE "none"
        shown == [s EXCEPT !.result = [id |-> m.id, outcome |-> m.winner,
                                       confirmed |-> TRUE, rematch |-> rematch]]
        back == IF s.result.id = 0 THEN ReturnToHub(shown) ELSE shown
    IN IF s.result.id = 0 /\ s.active.id = 0 /\ ~atBarrier THEN s
       ELSE IF kept THEN [shown EXCEPT !.active.awaiting = TRUE]
       ELSE ClearMatch(StopNet(back))

\* Mutant: a no contest clears the match, whatever is being shown of it.
MatchAbortedAtOnce(s) == OpenHub(ClearMatch(StopNet([s EXCEPT !.result = NoResult])))

\* A no contest supersedes what was shown of the match.
MatchAborted(s) ==
    LET forgotten == [s EXCEPT !.result = NoResult]
    IN IF Presenting(s) THEN [forgotten EXCEPT !.active.awaiting = TRUE]
       ELSE OpenHub(ClearMatch(StopNet(forgotten)))

RematchNews(s, m) ==
    IF s.result.id = 0 THEN s ELSE [s EXCEPT !.result.rematch = m.rematch]

\* Messages about another match than the current one are dropped.
HandleLine(s, m) ==
    IF m.id # Current(s) THEN s
    ELSE CASE m.type = "started" -> MatchCommitted(s)
           [] m.type = "result" -> MatchResult(s, m)
           [] m.type = "abort" -> MatchAborted(s)
           [] m.type = "rematch" -> RematchNews(s, m)

-----------------------------------------------------------------------------
(* The update hooks. *)

Turns(c, s) == client' = [client EXCEPT ![c] = s]

ReadLine(c) ==
    /\ client[c].link /\ down[c] # <<>>
    /\ LET m == Head(down[c])
       IN \/ m.type = "found" /\ Turns(c, MatchFound(client[c], m))
          \/ m.type # "found" /\ Turns(c, HandleLine(client[c], m))
    /\ down' = [down EXCEPT ![c] = Tail(down[c])]
    /\ UNCHANGED <<server, real, course>>

Refuse(c) ==
    /\ client[c].link /\ down[c] # <<>> /\ Head(down[c]).type = "found"
    /\ course.faults > 0
    /\ course' = [course EXCEPT !.faults = course.faults - 1]
    /\ Turns(c, MatchRefused(client[c], Head(down[c])))
    /\ down' = [down EXCEPT ![c] = Tail(down[c])]
    /\ UNCHANGED <<server, real>>

\* The match c's peer session belongs to.
MatchOf(s) == IF s.pending.id # 0 THEN s.pending.id ELSE s.active.id
SameSession(c) ==
    /\ client[Opponent(c)].net # "off"
    /\ MatchOf(client[Opponent(c)]) = MatchOf(client[c])

\* The peers' sockets find each other; a peer that has restored its start
\* state takes no new session.
Connect(c) ==
    /\ client[c].net = "open" /\ SameSession(c)
    /\ client[Opponent(c)].pending.stage # "ready"
    /\ client[Opponent(c)].pending.id # 0
    /\ Turns(c, [client[c] EXCEPT !.net = "linked"])
    /\ UNCHANGED <<down, server, real, course>>

\* A fresh socket, with nothing prepared.
FreshAttempt(s) ==
    [s EXCEPT !.net = "open", !.tries = s.tries + 1,
              !.pending = [NoPending EXCEPT !.id = s.pending.id]]

NextAttempt(s) == IF s.tries < MaxAttempts THEN FreshAttempt(s) ELSE AbortSetup(s)

\* online_connect_retry_tick: the attempt's deadline has passed.
Retry(c) ==
    /\ client[c].pending.id # 0 /\ client[c].net = "open"
    /\ Turns(c, NextAttempt(client[c]))
    /\ UNCHANGED <<down, server, real, course>>

\* The peer is gone, or has restarted while c waits at the start barrier.
PeerLost(c) ==
    /\ client[c].net = "linked"
    /\ \/ ~SameSession(c)
       \/ client[c].pending.stage = "ready" /\ client[Opponent(c)].net = "open"

\* A transport that fails before the start is retried, until the start state
\* has been restored; one that fails in play ends the match.
TransportFails(c) ==
    LET s == client[c]
    IN /\ s.net = "linked" /\ (s.pending.id = 0 => s.screen = "game")
       /\ IF PeerLost(c) THEN UNCHANGED course
          ELSE /\ course.faults > 0
               /\ course' = [course EXCEPT !.faults = course.faults - 1]
       /\ Turns(c, IF s.pending.id = 0 THEN TransportFailure(s)
                   ELSE IF s.pending.stage = "ready" THEN AbortSetup(s)
                   ELSE NextAttempt(s))
       /\ UNCHANGED <<down, server, real>>

\* Mutant: a player enters the game on its own readiness.
MayEnterAlone(s) == s.pending.stage = "ready"

\* The server's commit is the last barrier before the game.
MayEnter(s) == s.pending.stage = "ready" /\ s.pending.committed

\* The peer's side of the same setup has got at least as far as a stage.
PeerHas(c, stages) ==
    /\ SameSession(c) /\ client[Opponent(c)].net = "linked"
    /\ \/ client[Opponent(c)].pending.stage \in stages
       \/ client[Opponent(c)].pending.id = 0

\* online_match_pump_launch: one stage of the setup after the other.  Outside the
\* hub it only asks for the hub, as the match found has already done.
PrepareMatch(c, s) ==
    /\ s.pending.stage = "link"
    /\ Turns(c, [s EXCEPT !.pending.stage = "prepared", !.active = NoActive,
                          !.seen = NoOne])
    /\ UNCHANGED real

ReleaseMatch(c, s) ==
    /\ s.pending.stage = "prepared" /\ PeerHas(c, {"prepared", "released", "ready"})
    /\ Turns(c, [s EXCEPT !.pending.stage = "released"])
    /\ UNCHANGED real

ReportReady(c, s) ==
    /\ s.pending.stage = "released" /\ PeerHas(c, {"released", "ready"})
    /\ Turns(c, [SendLine(s, "started", s.pending.id, NoOne) EXCEPT !.pending.stage = "ready"])
    /\ UNCHANGED real

EnterGame(c, s) ==
    /\ MayEnter(s)
    /\ Turns(c, [s EXCEPT !.screen = "game", !.pending = NoPending, !.opening = FALSE,
                          !.active = [NoActive EXCEPT !.id = s.pending.id]])
    /\ real' = IF client[Opponent(c)].active.id = s.pending.id THEN real ELSE NoOne

PumpLaunch(c) ==
    LET s == client[c]
    IN /\ s.pending.id # 0 /\ s.screen = "hub" /\ s.net = "linked"
       /\ \/ PrepareMatch(c, s)
          \/ ReleaseMatch(c, s)
          \/ ReportReady(c, s)
          \/ EnterGame(c, s)
       /\ UNCHANGED <<down, server, course>>

\* The setup's 45 seconds are over; game_update does not look at them.
SetupTimeout(c) ==
    /\ client[c].pending.id # 0 /\ ~client[c].pending.committed
    /\ client[c].screen # "game"
    /\ Turns(c, AbortSetup(client[c]))
    /\ UNCHANGED <<down, server, real, course>>

\* The hub opens when the native game has left the screen to it.
MayOpen(s) == s.opening /\ ~Presenting(s)

\* hooks_online_on_pre_swap and online_hub_enter.
PreSwap(c) ==
    LET s == [client[c] EXCEPT !.opening = FALSE, !.screen = "hub", !.seen = NoOne]
        left == IF s.active.id # 0 /\ ~s.active.reported THEN Forfeit(c, s) ELSE s
    IN /\ MayOpen(client[c])
       /\ Turns(c, IF s.pending.id # 0 THEN s ELSE ClearMatch(StopNet(left)))
       /\ UNCHANGED <<down, server, real, course>>

-----------------------------------------------------------------------------
(* Play. *)

\* The native game runs, with the peer's inputs and no barrier in the way.
Playing(c) ==
    /\ client[c].screen = "game" /\ client[c].net = "linked"
    /\ client[c].pending.id = 0 /\ client[c].active.id # 0

\* The last point is made, in the game both play.
Decide(w) ==
    /\ real = NoOne
    /\ \A c \in Client : Playing(c)
    /\ \A c, d \in Client : client[c].active.id = client[d].active.id
    /\ real' = w
    /\ UNCHANGED <<client, down, server, course>>

\* One advance of the rollback session, and what it shows from then on.
Shows(c, w) == Turns(c, PollCompletion([client[c] EXCEPT !.seen = w]))

PlayFrame(c) ==
    /\ Playing(c) /\ ~client[c].correcting
    /\ client[c].seen # real
    /\ Shows(c, real)
    /\ UNCHANGED <<down, server, real, course>>

\* The games have come apart: c shows its own end until it is corrected.
BeginCorrection(c, w) ==
    /\ Playing(c) /\ ~client[c].correcting
    /\ client[c].seen = NoOne /\ real = NoOne /\ course.corrections > 0
    /\ Turns(c, [client[c] EXCEPT !.correcting = TRUE, !.seen = w])
    /\ course' = [course EXCEPT !.corrections = course.corrections - 1]
    /\ UNCHANGED <<down, server, real>>

EndCorrection(c) ==
    /\ Playing(c) /\ client[c].correcting
    /\ Turns(c, PollCompletion([client[c] EXCEPT !.correcting = FALSE, !.seen = real]))
    /\ UNCHANGED <<down, server, real, course>>

\* hooked_state_switch: the win sequence has run out and GAME returns to MAIN,
\* or the player leaves through the menu.
NativeReturn(c) ==
    LET s == PollCompletion(client[c])
        main == [s EXCEPT !.screen = "main", !.seen = NoOne]
    IN /\ client[c].screen = "game" /\ client[c].pending.id = 0
       /\ ~client[c].correcting
       /\ IF client[c].seen # NoOne THEN UNCHANGED course
          ELSE /\ course.leave
               /\ course' = [course EXCEPT !.leave = FALSE]
       /\ Turns(c, IF Presenting(client[c]) THEN OpenHub(ClearMatch(StopNet(main)))
                   ELSE main)
       /\ UNCHANGED <<down, server, real>>

\* online_monitor_active_match_state: the grace for being elsewhere is over.
Abandon(c) ==
    LET s == client[c]
    IN /\ s.screen = "main" /\ s.active.id # 0 /\ ~s.active.reported
       /\ Turns(c, IF s.net = "off" THEN TransportFailure(s) ELSE Forfeit(c, s))
       /\ UNCHANGED <<down, server, real, course>>

-----------------------------------------------------------------------------
(* The player's hands, and the network's. *)

LiveRematch(s) == s.result.confirmed /\ s.result.id # 0 /\ s.result.rematch # "none"

\* The toast's REMATCH button, which the mouse reaches on every screen.
AskRematch(c) ==
    LET s == client[c]
    IN /\ "rematch" \in course.hands
       /\ LiveRematch(s) /\ s.result.rematch \in {"available", "offered"}
       /\ s.screen \in course.toast /\ s.link
       /\ Turns(c, [SendLine(s, "rematch", s.result.id, NoOne) EXCEPT
                       !.result.rematch = "waiting"])
       /\ UNCHANGED <<down, server, real, course>>

\* The offer is declined, or runs out of time.
EndRematch(c) ==
    LET s == client[c]
    IN /\ "decline" \in course.hands
       /\ LiveRematch(s) /\ s.result.rematch # "starting"
       /\ \E t \in {s, SendLine(s, "decline", s.result.id, NoOne)} :
             Turns(c, [t EXCEPT !.result.rematch = "none"])
       /\ UNCHANGED <<down, server, real, course>>

\* online_server_send_queue, from the hub's rows.
JoinQueue(c) ==
    LET s == client[c]
        declined == IF LiveRematch(s) THEN SendLine(s, "decline", s.result.id, NoOne) ELSE s
    IN /\ "queue" \in course.hands
       /\ s.screen = "hub" /\ s.pending.id = 0 /\ s.link /\ ~s.queued
       /\ server.id < course.matches
       /\ s.result.id # 0 => s.result.confirmed
       /\ s.result.rematch # "starting"
       /\ Turns(c, [SendLine(declined, "queue", 0, NoOne) EXCEPT
                       !.result = IF LiveRematch(s) THEN NoResult ELSE s.result,
                       !.queued = TRUE])
       /\ UNCHANGED <<down, server, real, course>>

\* The control connection breaks; what is on its way to the server may arrive.
Drop(c) ==
    /\ client[c].link /\ course.drops > 0
    /\ \E kept \in {<<>>, client[c].up} :
          Turns(c, [Disconnected(client[c]) EXCEPT
                       !.up = Append(kept, Message("close", 0, NoOne, "none"))])
    /\ down' = [down EXCEPT ![c] = <<>>]
    /\ course' = [course EXCEPT !.drops = course.drops - 1]
    /\ UNCHANGED <<server, real>>

Reconnect(c) ==
    /\ ~client[c].link /\ client[c].up = <<>>
    /\ Turns(c, [client[c] EXCEPT !.link = TRUE])
    /\ server' = [server EXCEPT !.online = server.online \cup {c}]
    /\ down' = [down EXCEPT ![c] = <<>>]
    /\ UNCHANGED <<real, course>>

-----------------------------------------------------------------------------
(* The server, as these two players meet it. *)

\* The server in state t, having sent the messages news[d] to each client d.
Serves(t, news) ==
    /\ server' = t
    /\ down' = [d \in Client |-> IF d \in t.online THEN down[d] \o news[d] ELSE down[d]]

Quiet == [d \in Client |-> <<>>]
ToAll(m) == [d \in Client |-> <<m>>]
To(c, m) == [Quiet EXCEPT ![c] = <<m>>]

Running(m) == m.id = server.id /\ server.phase # "over"

Over(outcome, offer, online) ==
    [server EXCEPT !.phase = "over", !.outcome = outcome, !.told = online,
                   !.online = online, !.offer = offer, !.votes = {}, !.failed = {},
                   !.said = [c \in Client |-> NoOne], !.ready = {}]

AbortOf(m) == Message("abort", m, NoOne, "none")
ResultOf(m, w, offer) ==
    Message("result", m, w, IF offer THEN "available" ELSE "none")

\* cancelMatch and finishMatch, while the clients in online are connected.
Cancel(online) == Serves(Over(NoOne, FALSE, online), ToAll(AbortOf(server.id)))

Finish(w, online) ==
    LET offer == online = Client /\ server.id < course.matches
    IN Serves(Over(w, offer, online), ToAll(ResultOf(server.id, w, offer)))

Ignore == Serves(server, Quiet)

OnStarted(c, m) ==
    LET ready == server.ready \cup {c}
        commit == Message("started", server.id, NoOne, "none")
    IN IF ~Running(m) THEN Ignore
       ELSE IF server.phase = "playing"
       THEN Serves([server EXCEPT !.ready = ready], To(c, commit))
       ELSE IF ready = Client
       THEN Serves([server EXCEPT !.ready = ready, !.phase = "playing"], ToAll(commit))
       ELSE Serves([server EXCEPT !.ready = ready], Quiet)

OnAbort(c, m) ==
    IF ~Running(m) THEN Ignore
    ELSE IF server.phase = "setup" THEN Cancel(server.online)
    ELSE Finish(Opponent(c), server.online)

\* replayTerminalMatch: the outcome once more, to one who was told it.
Replay(c, m) ==
    IF m.id = server.id /\ c \in server.told
    THEN Serves(server, To(c, IF server.outcome = NoOne THEN AbortOf(m.id)
                              ELSE ResultOf(m.id, server.outcome, server.offer)))
    ELSE Ignore

OnEnd(c, m) ==
    LET said == [server.said EXCEPT ![c] = m.winner]
    IN IF ~Running(m) THEN Replay(c, m)
       ELSE IF server.phase = "setup" THEN Cancel(server.online)
       ELSE IF server.said[c] # NoOne THEN Ignore
       ELSE IF said[Opponent(c)] = NoOne
       THEN Serves([server EXCEPT !.said = said, !.failed = server.failed \ {c}], Quiet)
       ELSE IF said[Opponent(c)] = m.winner THEN Finish(m.winner, server.online)
       ELSE Cancel(server.online)

OnFailure(c, m) ==
    IF ~Running(m) THEN Replay(c, m)
    ELSE IF server.phase = "setup" THEN Cancel(server.online)
    ELSE IF server.said[c] # NoOne THEN Ignore
    ELSE IF server.failed \cup {c} = Client THEN Cancel(server.online)
    ELSE Serves([server EXCEPT !.failed = server.failed \cup {c}], Quiet)

\* makeMatch
NewMatch ==
    [server EXCEPT !.id = server.id + 1, !.phase = "setup", !.outcome = NoOne,
                   !.told = {}, !.offer = FALSE, !.votes = {}, !.queue = {}]

FoundNext == Message("found", server.id + 1, NoOne, "none")
News(m, state) == Message("rematch", m, NoOne, state)

OnOffer(m) == server.offer /\ m.id = server.id

OnRematch(c, m) ==
    LET d == Opponent(c)
        waiting == [Quiet EXCEPT ![c] = <<News(m.id, "waiting")>>,
                                 ![d] = <<News(m.id, "offered")>>]
    IN IF ~OnOffer(m) THEN Serves(server, To(c, News(m.id, "none")))
       ELSE IF d \notin server.online \/ server.queue # {}
       THEN Serves([server EXCEPT !.offer = FALSE], ToAll(News(m.id, "none")))
       ELSE IF server.votes \cup {c} # Client
       THEN Serves([server EXCEPT !.votes = {c}], waiting)
       ELSE Serves(NewMatch, [e \in Client |-> <<News(m.id, "starting"), FoundNext>>])

OnDecline(c, m) ==
    IF OnOffer(m) THEN Serves([server EXCEPT !.offer = FALSE], ToAll(News(m.id, "none")))
    ELSE Serves(server, To(c, News(m.id, "none")))

\* A player who queues ends the rematch that was open.
OnQueue(c) ==
    LET closed == IF server.offer THEN <<News(server.id, "none")>> ELSE <<>>
    IN IF server.phase # "over" \/ server.id = course.matches THEN Ignore
       ELSE IF server.queue \cup {c} = Client
       THEN Serves(NewMatch, [e \in Client |-> Append(closed, FoundNext)])
       ELSE Serves([server EXCEPT !.queue = {c}, !.offer = FALSE, !.votes = {}],
                   [e \in Client |-> closed])

\* destroyClient
OnClose(c) ==
    LET online == server.online \ {c}
        gone == [server EXCEPT !.online = online, !.queue = server.queue \ {c},
                               !.offer = FALSE, !.votes = {}, !.told = server.told \ {c}]
    IN IF server.phase = "setup" THEN Cancel(online)
       ELSE IF server.phase = "playing"
       THEN IF Opponent(c) \in online THEN Finish(Opponent(c), online)
            ELSE Serves(Over(NoOne, FALSE, {}), Quiet)
       ELSE Serves(gone, IF server.offer THEN ToAll(News(server.id, "none")) ELSE Quiet)

Serve(c) ==
    /\ client[c].up # <<>>
    /\ LET m == Head(client[c].up)
       IN CASE m.type = "started" -> OnStarted(c, m)
            [] m.type = "abort" -> OnAbort(c, m)
            [] m.type = "end" -> OnEnd(c, m)
            [] m.type = "failure" -> OnFailure(c, m)
            [] m.type = "rematch" -> OnRematch(c, m)
            [] m.type = "decline" -> OnDecline(c, m)
            [] m.type = "queue" -> OnQueue(c)
            [] m.type = "close" -> OnClose(c)
    /\ Turns(c, [client[c] EXCEPT !.up = Tail(client[c].up)])
    /\ UNCHANGED <<real, course>>

\* A lone report is not confirmed in time; a setup takes for ever.
ReportTimer ==
    /\ server.phase = "playing"
    /\ server.failed # {} \/ \E c \in Client : server.said[c] # NoOne
    /\ Cancel(server.online)
    /\ UNCHANGED <<client, real, course>>

SetupDeadline ==
    /\ server.phase = "setup"
    /\ Cancel(server.online)
    /\ UNCHANGED <<client, real, course>>

-----------------------------------------------------------------------------
Hooks(c) ==
    \/ ReadLine(c) \/ Connect(c) \/ Retry(c) \/ PumpLaunch(c)
    \/ SetupTimeout(c) \/ PreSwap(c) \/ PlayFrame(c) \/ EndCorrection(c) \/ Abandon(c)

Player(c) == AskRematch(c) \/ EndRematch(c) \/ JoinQueue(c)

Fault(c) ==
    \/ Refuse(c)
    \/ \E w \in Client : BeginCorrection(c, w)
    \/ Drop(c) \/ Reconnect(c)

ClientNext ==
    \/ \E c \in Client :
          Hooks(c) \/ TransportFails(c) \/ NativeReturn(c) \/ Serve(c)
          \/ Player(c) \/ Fault(c)
    \/ \E w \in Client : Decide(w)
    \/ ReportTimer \/ SetupDeadline

ClientSpec == ClientInit /\ [][ClientNext]_clientVars

\* Every frame runs the hooks, a lost peer is noticed in the end, the native
\* countdown runs out, the server reads its sockets and its timers fire.  What
\* players do and what goes wrong is never assumed.
ClientFairness ==
    /\ \A c \in Client :
          /\ WF_clientVars(ReadLine(c)) /\ WF_clientVars(Retry(c)) /\ WF_clientVars(PumpLaunch(c))
          /\ WF_clientVars(SetupTimeout(c)) /\ WF_clientVars(PreSwap(c))
          /\ WF_clientVars(PlayFrame(c)) /\ WF_clientVars(EndCorrection(c))
          /\ WF_clientVars(Abandon(c))
          /\ WF_clientVars(PeerLost(c) /\ TransportFails(c))
          /\ WF_clientVars(client[c].seen # NoOne /\ NativeReturn(c))
          /\ WF_clientVars(Serve(c))
    /\ WF_clientVars(ReportTimer) /\ WF_clientVars(SetupDeadline)

FairSpec == ClientSpec /\ ClientFairness

-----------------------------------------------------------------------------
(***************************************************************************)
(* Properties.                                                             *)
(***************************************************************************)
\* Nobody plays alone: while a client is in a match, the server has committed
\* it and the other waits at its start barrier or is past it, whatever was
\* retried, aborted or lost on the way.
NobodyPlaysAlone ==
    \A c, d \in Client : client[c].active.id = server.id =>
        /\ server.phase # "setup"
        /\ client[d].pending.id = server.id => client[d].pending.stage = "ready"

\* The winner a client reports is the winner of the game both play: a state
\* that is being corrected is never reported, whatever it shows and whatever
\* ends the session meanwhile.  (A frame played on a wrong guess is left out.)
ReportsAreReal ==
    \A c \in Client : \A i \in 1 .. Len(client[c].up) :
        client[c].up[i].type = "end" /\ client[c].up[i].id = server.id
            => client[c].up[i].winner = real

\* The native win sequence of a decided game keeps its screen and its match
\* until the game itself returns to its menu: no result, no contest, failed
\* transport or lost connection that arrives meanwhile ends it.
PresentationKept ==
    [][\A c \in Client :
          /\ Presenting(client[c]) /\ ~client[c].correcting
          /\ client[c].seen = real /\ real # NoOne
          => \/ client[c]'.screen = "main"
             \/ /\ client[c]'.screen = "game"
                /\ client[c]'.active.id = client[c].active.id]_clientVars

\* A match found is played or given up, on each client: no setup lasts for ever
\* (TESTING.md: a rematch enters gameplay or returns to the hub, no freeze).
SetupEnds == \A c \in Client : client[c].pending.id # 0 ~> client[c].pending.id = 0

\* What the server has ended is over on every client as well: nobody stays in
\* its setup, in the game, in the menu or behind an unconfirmed toast for ever.
Involved(s) ==
    \/ s.pending.id = server.id \/ s.active.id = server.id
    \/ s.result.id = server.id /\ ~s.result.confirmed
ClientsLeave ==
    \A c \in Client :
        server.phase = "over" /\ Involved(client[c]) ~> ~Involved(client[c])
=============================================================================
