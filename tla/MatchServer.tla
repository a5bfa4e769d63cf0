----------------------------- MODULE MatchServer ------------------------------
(***************************************************************************)
(* The match server (online_server/server.js): sessions, friends and       *)
(* blocks, queues, challenges, matches from setup to outcome, rematches,   *)
(* identity proofs that await an external verifier, and the two timers.    *)
(*                                                                         *)
(* Node runs one callback at a time, so every message handler, timer and   *)
(* promise continuation is one action on the whole server state.  Clients  *)
(* may send any message at any time.  The relay, and the files behind      *)
(* accounts and ratings, are not modelled.                                 *)
(***************************************************************************)
EXTENDS Integers, FiniteSets, Sequences, SequencesExt

CONSTANTS
    Client,             \* connection objects
    User,               \* accounts
    Nobody,             \* no user, no winner
    NoClient,
    Map,                \* map keys
    RankedMap,          \* maps competitive play admits
    Puid,               \* EOS identities an account may prove
    MaxVerifying,       \* identity proofs awaited at a time
    Traffic,            \* who takes part in a run, and what they send
    MaxMatch            \* bound: matches made in a run

ASSUME ServerAssumption ==
    /\ Nobody \notin User
    /\ NoClient \notin Client
    /\ IsFiniteSet(Client)
    /\ RankedMap \subseteq Map
    /\ Traffic \subseteq
        [clients : SUBSET Client, users : SUBSET User, types : SUBSET STRING,
         manifests : SUBSET [build : Nat, maps : SUBSET Map,
                             caps : SUBSET {"udp", "eos"}],
         signed : SUBSET (Client \X User), matches : 0 .. MaxMatch]
    \* handleLogin: a connection has one account, an account one connection.
    /\ \A t \in Traffic : \A x, y \in t.signed : x[1] = y[1] <=> x[2] = y[2]
    /\ MaxVerifying \in Nat
    /\ MaxMatch \in Nat

VARIABLE srv            \* the server's collections

vars == <<srv>>

MatchId == 1 .. MaxMatch
NoPuid == "unverified"
NoMap == "no map"
Void == "void"

\* A new connection offers the default maps, and no build yet.
NewManifest == [build |-> 0, maps |-> Map, caps |-> {"udp"}]
NoTerminal == [id |-> 0, outcome |-> Void, rematch |-> FALSE]
NoMatch ==
    [phase |-> "none", a |-> Nobody, b |-> Nobody, ranked |-> FALSE,
     eos |-> FALSE, puid |-> [u \in User |-> NoPuid], map |-> NoMap,
     started |-> {}, result |-> [u \in User |-> Nobody], failed |-> {},
     timer |-> FALSE, stale |-> FALSE, winner |-> Nobody, conceded |-> {},
     rated |-> 0, told |-> {}]

\* A run's traffic is fixed: it only bounds what the clients do.  The players
\* in traffic.signed have signed in and sent their manifest before it begins.
Signed(traffic, c, u) == <<c, u>> \in traffic.signed

Init == \E traffic \in Traffic : \E f \in traffic.manifests :
    srv = [traffic |-> traffic,
           clients |-> {c \in Client : \E u \in User : Signed(traffic, c, u)},
           user |-> [c \in Client |->
               IF \E u \in User : Signed(traffic, c, u)
               THEN CHOOSE u \in User : Signed(traffic, c, u) ELSE Nobody],
           online |-> [u \in User |->
               IF \E c \in Client : Signed(traffic, c, u)
               THEN CHOOSE c \in Client : Signed(traffic, c, u) ELSE NoClient],
           manifest |-> [c \in Client |->
               IF \E u \in User : Signed(traffic, c, u) THEN f ELSE NewManifest],
           verified |-> [c \in Client |-> NoPuid],
           pending |-> {},
           casual |-> <<>>,
           competitive |-> <<>>,
           matchOf |-> [c \in Client |-> 0],
           terminal |-> [c \in Client |-> NoTerminal],
           friends |-> {p \in User \X User : p[1] # p[2]},
           asked |-> {},
           blocked |-> {},
           challenges |-> {},
           match |-> [m \in MatchId |-> NoMatch],
           next |-> 1,
           rematches |-> {},
           hung |-> FALSE]

-----------------------------------------------------------------------------
(* What the handlers ask of the state. *)

Sends(type) == type \in srv.traffic.types
Room(s) == s.next <= s.traffic.matches

Players(s, m) == {s.match[m].a, s.match[m].b}
Active(s, m) == s.match[m].phase \in {"setup", "playing"}
Opponent(s, m, u) == IF u = s.match[m].a THEN s.match[m].b ELSE s.match[m].a

Online(s, u) == u \in User /\ s.online[u] # NoClient
LoggedIn(s, c) == c \in s.clients /\ s.user[c] # Nobody
BlockEachOther(s, u, v) == <<u, v>> \in s.blocked \/ <<v, u>> \in s.blocked
Ready(s, c) == s.manifest[c].build # 0
SameBuild(s, c, d) == Ready(s, c) /\ s.manifest[c].build = s.manifest[d].build

\* selectTransport: EOS needs both identities verified by the server.
UsesEos(s, c, d) ==
    /\ "eos" \in s.manifest[c].caps \cap s.manifest[d].caps
    /\ s.verified[c] # NoPuid /\ s.verified[d] # NoPuid
HasTransport(s, c, d) ==
    UsesEos(s, c, d) \/ "udp" \in s.manifest[c].caps \cap s.manifest[d].caps

SharedMaps(s, c, d, ranked) ==
    s.manifest[c].maps \cap s.manifest[d].maps
        \cap (IF ranked THEN RankedMap ELSE Map)

Queued(s, c) ==
    \/ \E i \in 1 .. Len(s.casual) : s.casual[i] = c
    \/ \E j \in 1 .. Len(s.competitive) : s.competitive[j] = c

-----------------------------------------------------------------------------
(* Queues and rematches. *)

\* indexOf and splice: the first place of c, if it has one.
Without(q, c) ==
    IF \A i \in 1 .. Len(q) : q[i] # c THEN q
    ELSE RemoveAt(q, CHOOSE i \in 1 .. Len(q) : q[i] = c /\ \A j \in 1 .. i - 1 : q[j] # c)

RemoveFromQueues(s, c) ==
    [s EXCEPT !.casual = Without(s.casual, c),
              !.competitive = Without(s.competitive, c)]

\* Rematches are dropped, also from the answers kept for repeated reports.
CloseRematches(s, R) ==
    LET Closed(c) == \E r \in R \cap s.rematches :
                        /\ s.user[c] \in {r.a, r.b} /\ s.online[s.user[c]] = c
                        /\ s.terminal[c].id = r.id
    IN [s EXCEPT !.rematches = s.rematches \ R,
                 !.terminal = [c \in Client |->
                     IF Closed(c) THEN [s.terminal[c] EXCEPT !.rematch = FALSE]
                     ELSE s.terminal[c]]]

\* Mutant: only the offers whose first player u is.
RematchesOfFirst(s, u) == {r \in s.rematches : u = r.a}

RematchesOf(s, u) == {r \in s.rematches : u \in {r.a, r.b}}
RematchesBetween(s, u, v) == {r \in s.rematches : {r.a, r.b} = {u, v}}

-----------------------------------------------------------------------------
(* Matches. *)

\* What makeMatch insists on before it changes anything.
CanMatch(s, c, d, ranked) ==
    /\ ~BlockEachOther(s, s.user[c], s.user[d])
    /\ SameBuild(s, c, d)
    /\ HasTransport(s, c, d)
    /\ SharedMaps(s, c, d, ranked) # {}

\* makeMatch(c, d): both leave every queue and offer and enter a new match.
MakeMatch(s, c, d, ranked, map) ==
    LET m == s.next
        a == s.user[c]
        b == s.user[d]
        t == RemoveFromQueues(RemoveFromQueues(
                CloseRematches(s, RematchesOf(s, a) \cup RematchesOf(s, b)), c), d)
    IN [t EXCEPT !.match[m] = [NoMatch EXCEPT
                     !.phase = "setup", !.a = a, !.b = b, !.ranked = ranked,
                     !.map = map, !.eos = UsesEos(s, c, d),
                     !.puid = [NoMatch.puid EXCEPT ![a] = s.verified[c],
                                                   ![b] = s.verified[d]]],
                 !.matchOf[c] = m, !.matchOf[d] = m, !.next = m + 1,
                 !.terminal[c] = NoTerminal, !.terminal[d] = NoTerminal]

\* What is left of a match after activeMatches.delete: its outcome, on record.
Gone(match) ==
    [match EXCEPT !.phase = "ended", !.result = NoMatch.result, !.failed = {},
                  !.timer = FALSE, !.stale = FALSE, !.eos = FALSE,
                  !.puid = NoMatch.puid, !.map = NoMap]

\* The players who hear of the end of match m, and what they keep of it.
Conclude(s, m, outcome, rematch) ==
    LET told == {u \in Players(s, m) : Online(s, u) /\ s.matchOf[s.online[u]] = m}
        Hears(c) == \E u \in told : s.online[u] = c
    IN [s EXCEPT
          !.matchOf = [c \in Client |-> IF Hears(c) THEN 0 ELSE s.matchOf[c]],
          !.terminal = [c \in Client |->
              IF Hears(c) THEN [id |-> m, outcome |-> outcome, rematch |-> rematch]
              ELSE s.terminal[c]],
          !.match[m] = [Gone(s.match[m]) EXCEPT
              !.told = s.match[m].told \cup {<<u, outcome>> : u \in told}]]

\* createRematchForMatch: a newer result supersedes what either was offered.
OfferRematch(s, m) ==
    LET a == s.match[m].a
        b == s.match[m].b
        t == CloseRematches(s, RematchesOf(s, a) \cup RematchesOf(s, b))
    IN [t EXCEPT !.rematches = t.rematches \cup
            {[id |-> m, a |-> a, b |-> b, map |-> s.match[m].map,
              accepted |-> {}, expired |-> FALSE]}]

MayOfferRematch(s, m) ==
    /\ s.match[m].phase = "playing"
    /\ Online(s, s.match[m].a) /\ Online(s, s.match[m].b)
    /\ ~BlockEachOther(s, s.match[m].a, s.match[m].b)

\* finishMatch: rated once, offered again, told to both.
FinishMatch(s, m, winner) ==
    LET offer == MayOfferRematch(s, m)
        t == [(IF offer THEN OfferRematch(s, m) ELSE s) EXCEPT
                 !.match[m].winner = winner,
                 !.match[m].rated = s.match[m].rated
                                      + (IF s.match[m].ranked THEN 1 ELSE 0)]
    IN Conclude(t, m, winner, offer)

\* Mutant: the players stay bound to the match.
CancelMatchOnly(s, m) == [s EXCEPT !.match[m] = Gone(s.match[m])]

CancelMatch(s, m) == Conclude(s, m, Void, FALSE)

ChallengesOf(s, u) == {h \in s.challenges : u \in {h.from, h.to}}

\* destroyClient: presence first, then offers, challenges and the match.  A
\* player who leaves a match in play loses it to the one who stayed.
DestroyClient(s, c) ==
    LET u == s.user[c]
        m == s.matchOf[c]
        gone == [RemoveFromQueues(s, c) EXCEPT
                    !.clients = s.clients \ {c},
                    !.online = [v \in User |->
                        IF s.online[v] = c THEN NoClient ELSE s.online[v]]]
        alone == [CloseRematches(gone, RematchesOf(gone, u)) EXCEPT
                    !.challenges = s.challenges \ ChallengesOf(gone, u)]
        left ==
            IF m = 0 \/ ~Active(s, m) THEN alone
            ELSE IF s.match[m].phase = "setup" THEN CancelMatch(alone, m)
            ELSE LET other == Opponent(s, m, u)
                     yielded == [alone EXCEPT
                                   !.match[m].conceded = s.match[m].conceded \cup {u}]
                 IN IF Online(yielded, other) THEN FinishMatch(yielded, m, other)
                    ELSE [yielded EXCEPT !.match[m] = Gone(yielded.match[m])]
    IN [left EXCEPT !.user[c] = Nobody, !.manifest[c] = NewManifest,
                    !.verified[c] = NoPuid, !.matchOf[c] = 0,
                    !.terminal[c] = NoTerminal]

-----------------------------------------------------------------------------
(* Matchmaking: both queues are walked from their heads until no pair fits. *)

Pairs(q) == {p \in (1 .. Len(q)) \X (1 .. Len(q)) : p[1] < p[2]}
First(P) == CHOOSE p \in P : \A q \in P : p[1] < q[1] \/ (p[1] = q[1] /\ p[2] <= q[2])

\* Mutant: the loop leaves the blocks to makeMatch.
MayPairBlocked(s, c, d, ranked) ==
    SameBuild(s, c, d) /\ HasTransport(s, c, d) /\ SharedMaps(s, c, d, ranked) # {}

\* clientsCanQueueMatch and the tests beside it in the matchmaking loops.
MayPair(s, c, d, ranked) ==
    /\ SameBuild(s, c, d)
    /\ HasTransport(s, c, d)
    /\ SharedMaps(s, c, d, ranked) # {}
    /\ ~BlockEachOther(s, s.user[c], s.user[d])

\* One turn of a loop.  pick is the map chance prefers; near are the pairs of
\* clients whose ratings are close enough for the time they have waited.
PairUp(s, ranked, near, pick) ==
    LET q == IF ranked THEN s.competitive ELSE s.casual
        fits == {p \in Pairs(q) :
                    /\ MayPair(s, q[p[1]], q[p[2]], ranked)
                    /\ ranked => {q[p[1]], q[p[2]]} \in near
                    /\ ranked \/ CanMatch(s, q[p[1]], q[p[2]], ranked)}
        p == First(fits)
        maps == SharedMaps(s, q[p[1]], q[p[2]], ranked)
        map == IF pick \in maps THEN pick ELSE CHOOSE k \in maps : TRUE
    IN IF fits = {} \/ ~Room(s) THEN s
       ELSE IF ~CanMatch(s, q[p[1]], q[p[2]], ranked) THEN [s EXCEPT !.hung = TRUE]
       ELSE MakeMatch(s, q[p[1]], q[p[2]], ranked, map)

\* A loop makes at most one match for every two clients; one
\* that finds a fitting pair and cannot match it would turn for ever.
Loop(s, ranked, near, pick) ==
    LET turn[n \in Nat] == IF n = 0 THEN s ELSE PairUp(turn[n - 1], ranked, near, pick)
    IN turn[Cardinality(Client) \div 2]

TryMatchmaking(s, near, pick) ==
    Loop(Loop(s, FALSE, near, pick), TRUE, near, pick)

Near(s) == {{s.competitive[p[1]], s.competitive[p[2]]} : p \in Pairs(s.competitive)}

\* The outcomes chance leaves open: who is near whom, and which map is drawn.
Becomes(s) ==
    \E near \in SUBSET Near(s), pick \in Map : srv' = TryMatchmaking(s, near, pick)

-----------------------------------------------------------------------------
(* Sessions. *)

Receives(c, type) == Sends(type) /\ LoggedIn(srv, c)

Connect(c) ==
    /\ c \notin srv.clients
    /\ \A p \in srv.pending : p.client # c
    /\ srv' = [srv EXCEPT !.clients = srv.clients \cup {c}]

\* The socket closes, fails or idles; an administrator disconnects or bans.
Disconnect(c) ==
    /\ c \in srv.clients
    /\ srv' = DestroyClient(srv, c)

\* handleLogin, and handleRegister past its checks: authOk.
Login(c, u) ==
    /\ c \in srv.clients /\ srv.user[c] = Nobody
    /\ LET s == IF Online(srv, u) THEN DestroyClient(srv, srv.online[u]) ELSE srv
       IN srv' = [s EXCEPT !.user[c] = u, !.online[u] = c, !.manifest[c].maps = Map]

MapManifest(c, f) ==
    /\ Sends("map_manifest")
    /\ c \in srv.clients
    /\ LET s == [srv EXCEPT !.manifest[c] = f]
       IN srv' = IF srv.user[c] # Nobody /\ f.build = 0 THEN RemoveFromQueues(s, c) ELSE s

\* handleEosPuidProof up to its await.
AskIdentity(c, p) ==
    /\ Receives(c, "eos_puid_proof")
    /\ \A q \in srv.pending : q.client # c
    /\ Cardinality(srv.pending) < MaxVerifying
    /\ srv.matchOf[c] # 0 => p = srv.verified[c]
    /\ srv' = [srv EXCEPT !.pending = srv.pending \cup
                   {[client |-> c, user |-> srv.user[c], puid |-> p]}]

\* Mutant: the match is looked at before the await only.
StillHoldsBefore(s, p) == s.online[p.user] = p.client

\* What the handler looks at again when the verifier has answered.
StillHolds(s, p) ==
    /\ s.online[p.user] = p.client
    /\ s.matchOf[p.client] # 0 => p.puid = s.verified[p.client]

IdentityProved(p) ==
    LET s == [srv EXCEPT !.pending = srv.pending \ {p}]
    IN IF StillHolds(srv, p) THEN Becomes([s EXCEPT !.verified[p.client] = p.puid])
       ELSE srv' = s

IdentityRefused(p) == srv' = [srv EXCEPT !.pending = srv.pending \ {p}]

-----------------------------------------------------------------------------
(* Friends and blocks. *)

FriendRequest(c, v) ==
    /\ Receives(c, "friend")
    /\ LET u == srv.user[c]
       IN /\ u # v /\ ~BlockEachOther(srv, u, v) /\ <<u, v>> \notin srv.friends
          /\ srv' = [srv EXCEPT !.asked = srv.asked \cup {<<u, v>>}]

FriendAccept(c, v) ==
    /\ Receives(c, "friend")
    /\ LET u == srv.user[c]
       IN /\ ~BlockEachOther(srv, u, v) /\ <<v, u>> \in srv.asked
          /\ srv' = [srv EXCEPT !.asked = srv.asked \ {<<v, u>>},
                                !.friends = srv.friends \cup {<<u, v>>, <<v, u>>}]

FriendDecline(c, v) ==
    /\ Receives(c, "friend")
    /\ srv' = [srv EXCEPT !.asked = srv.asked \ {<<v, srv.user[c]>>}]

FriendRemove(c, v) ==
    /\ Receives(c, "friend")
    /\ LET u == srv.user[c]
       IN srv' = [srv EXCEPT !.friends = srv.friends \ {<<u, v>>, <<v, u>>}]

\* Blocking ends the friendship and whatever the two have open, not a match.
FriendBlock(c, v) ==
    /\ Receives(c, "friend_block")
    /\ LET u == srv.user[c]
           both == {<<u, v>>, <<v, u>>}
       IN /\ u # v
          /\ srv' = [CloseRematches(srv, RematchesBetween(srv, u, v)) EXCEPT
                       !.blocked = srv.blocked \cup {<<u, v>>},
                       !.friends = srv.friends \ both,
                       !.asked = srv.asked \ both,
                       !.challenges = {h \in srv.challenges : {h.from, h.to} # {u, v}}]

FriendUnblock(c, v) ==
    /\ Receives(c, "friend_block")
    /\ srv' = [srv EXCEPT !.blocked = srv.blocked \ {<<srv.user[c], v>>}]

-----------------------------------------------------------------------------
(* Queues and challenges. *)

JoinQueue(c, ranked) ==
    /\ Receives(c, IF ranked THEN "join_ranked" ELSE "join_queue")
    /\ Ready(srv, c)
    /\ ~(srv.matchOf[c] # 0 /\ Active(srv, srv.matchOf[c]))
    /\ LET s == RemoveFromQueues(CloseRematches(srv, RematchesOf(srv, srv.user[c])), c)
           t == [s EXCEPT !.matchOf[c] = 0]
       IN Becomes(IF ranked THEN [t EXCEPT !.competitive = Append(t.competitive, c)]
                  ELSE [t EXCEPT !.casual = Append(t.casual, c)])

LeaveQueue(c) ==
    /\ Receives(c, "join_queue")
    /\ srv' = RemoveFromQueues(srv, c)

Challenge(c, v, map) ==
    /\ Receives(c, "challenge")
    /\ Ready(srv, c)
    /\ LET u == srv.user[c]
           d == srv.online[v]
       IN /\ <<u, v>> \in srv.friends /\ ~BlockEachOther(srv, u, v)
          /\ srv.matchOf[c] = 0
          /\ Online(srv, v) /\ srv.matchOf[d] = 0 /\ SameBuild(srv, c, d)
          /\ \A h \in srv.challenges : h.from = u /\ h.to = v => h.expired
          /\ map \in SharedMaps(srv, c, d, FALSE)
          /\ srv' = [srv EXCEPT !.challenges = srv.challenges \cup
                       {[from |-> u, to |-> v, map |-> map, expired |-> FALSE]}]

\* A challenge that can no longer be met is dropped; one that can is a match,
\* if the two have a transport in common.
ChallengeAccept(c, h) ==
    /\ Receives(c, "challenge")
    /\ Ready(srv, c)
    /\ h.to = srv.user[c] /\ ~h.expired
    /\ LET d == srv.online[h.from]
           dropped == [srv EXCEPT !.challenges = srv.challenges \ {h}]
           barred == BlockEachOther(srv, h.from, h.to) \/ ~Online(srv, h.from)
       IN IF barred THEN srv' = dropped
          ELSE /\ SameBuild(srv, c, d)
               /\ srv.matchOf[c] = 0 /\ srv.matchOf[d] = 0
               /\ Room(srv)
               /\ srv' = IF h.map \in SharedMaps(srv, d, c, FALSE) /\ CanMatch(srv, d, c, FALSE)
                         THEN MakeMatch(dropped, d, c, FALSE, h.map)
                         ELSE dropped

\* findChallenge looks an id up whoever sends it.
ChallengeDecline(c, h) ==
    /\ Receives(c, "challenge")
    /\ srv' = [srv EXCEPT !.challenges = srv.challenges \ {h}]

-----------------------------------------------------------------------------
(* Matches and rematches. *)

\* matchForClientMessage
InMatch(c, m) == srv.matchOf[c] = m /\ Active(srv, m)

\* replayTerminalMatch: the kept answer again, with the offer as it stands.
ReplayTerminal(c, m) ==
    LET open == \E r \in srv.rematches : r.id = m /\ ~r.expired
    IN /\ srv.terminal[c].id = m
       /\ srv' = [srv EXCEPT
                    !.terminal[c].rematch = srv.terminal[c].rematch /\ open,
                    !.match[m].told = srv.match[m].told \cup
                                        {<<srv.user[c], srv.terminal[c].outcome>>}]

\* Mutant: the first start commits.
CommittedByOne(started) == started # {}

Committed(started) == Cardinality(started) = 2

MatchStarted(c, m) ==
    /\ Receives(c, "match")
    /\ InMatch(c, m)
    /\ LET started == srv.match[m].started \cup {srv.user[c]}
       IN srv' = [srv EXCEPT !.match[m].started = started,
                             !.match[m].phase =
                                IF Committed(started) THEN "playing"
                                ELSE srv.match[m].phase]

MatchAbort(c, m) ==
    /\ Receives(c, "match")
    /\ InMatch(c, m)
    /\ LET u == srv.user[c]
           s == [srv EXCEPT !.match[m].conceded = srv.match[m].conceded \cup {u}]
       IN srv' = IF srv.match[m].phase = "setup" THEN CancelMatch(srv, m)
                 ELSE FinishMatch(s, m, Opponent(srv, m, u))

\* Mutant: a lone report arms no timer.
ReportedWithoutTimer(s, m, u, winner) ==
    LET v == Opponent(s, m, u)
        r == [s EXCEPT !.match[m].result[u] = winner]
    IN IF s.match[m].result[v] = Nobody THEN r
       ELSE IF s.match[m].result[v] = winner THEN FinishMatch(r, m, winner)
       ELSE CancelMatch(r, m)

\* A lone report waits for the other player's; two end the match.
Reported(s, m, u, winner) ==
    LET v == Opponent(s, m, u)
        r == [s EXCEPT !.match[m].failed = s.match[m].failed \ {u},
                       !.match[m].result[u] = winner,
                       !.match[m].conceded = s.match[m].conceded
                                               \cup ({u} \ {winner})]
    IN IF s.match[m].result[v] = Nobody THEN [r EXCEPT !.match[m].timer = TRUE]
       ELSE IF s.match[m].result[v] = winner THEN FinishMatch(r, m, winner)
       ELSE CancelMatch(r, m)

MatchEnd(c, m, winner) ==
    /\ Receives(c, "report")
    /\ IF ~InMatch(c, m) THEN ReplayTerminal(c, m)
       ELSE /\ winner \in Players(srv, m)
            /\ srv' = IF srv.match[m].phase = "setup" THEN CancelMatch(srv, m)
                      ELSE IF srv.match[m].result[srv.user[c]] # Nobody THEN srv
                      ELSE Reported(srv, m, srv.user[c], winner)

TransportFailure(c, m) ==
    /\ Receives(c, "report")
    /\ LET u == srv.user[c]
           failed == srv.match[m].failed \cup {u}
           s == [srv EXCEPT !.match[m].failed = failed]
       IN IF ~InMatch(c, m) THEN ReplayTerminal(c, m)
          ELSE srv' = IF srv.match[m].phase = "setup" THEN CancelMatch(srv, m)
                      ELSE IF srv.match[m].result[u] # Nobody THEN srv
                      ELSE IF Cardinality(failed) >= 2 THEN CancelMatch(s, m)
                      ELSE [s EXCEPT !.match[m].timer = TRUE]

\* Mutant: the lone reporter's word decides when the timer fires.
ResolutionTimerAwards(m) ==
    /\ Active(srv, m) /\ srv.match[m].timer
    /\ \E u \in Players(srv, m) :
        /\ srv.match[m].result[u] # Nobody
        /\ srv' = FinishMatch(srv, m, srv.match[m].result[u])

\* armMatchResolutionTimer's callback
ResolutionTimer(m) ==
    /\ Active(srv, m) /\ srv.match[m].timer
    /\ srv' = IF srv.match[m].failed = {} /\ \A u \in User : srv.match[m].result[u] = Nobody
              THEN [srv EXCEPT !.match[m].timer = FALSE]
              ELSE CancelMatch(srv, m)

\* findClientRematch: an expired offer is closed when it is looked up.
RematchRequest(c, r) ==
    /\ Receives(c, "rematch")
    /\ Ready(srv, c)
    /\ srv.user[c] \in {r.a, r.b}
    /\ LET u == srv.user[c]
           v == IF u = r.a THEN r.b ELSE r.a
           d == srv.online[v]
           closed == CloseRematches(srv, {r})
           free == /\ Online(srv, v)
                   /\ srv.matchOf[c] = 0 /\ srv.matchOf[d] = 0
                   /\ ~Queued(srv, c) /\ ~Queued(srv, d)
                   /\ ~BlockEachOther(srv, u, v)
                   /\ SameBuild(srv, c, d)
           accepted == r.accepted \cup {u}
       IN IF r.expired \/ ~free THEN srv' = closed
          ELSE IF accepted # {u, v}
          THEN srv' = [srv EXCEPT !.rematches = (srv.rematches \ {r}) \cup
                                                {[r EXCEPT !.accepted = accepted]}]
          ELSE /\ Room(srv)
               /\ srv' = IF CanMatch(srv, c, d, FALSE) /\ r.map \in SharedMaps(srv, c, d, FALSE)
                         THEN MakeMatch(closed, c, d, FALSE, r.map)
                         ELSE closed

RematchDecline(c, r) ==
    /\ Receives(c, "rematch")
    /\ srv.user[c] \in {r.a, r.b}
    /\ srv' = CloseRematches(srv, {r})

-----------------------------------------------------------------------------
(* Time, and the sweep.  A deadline passes only where traffic lets it. *)

ChallengeLapses(h) ==
    /\ Sends("time")
    /\ ~h.expired
    /\ srv' = [srv EXCEPT !.challenges = (srv.challenges \ {h}) \cup
                                         {[h EXCEPT !.expired = TRUE]}]

RematchLapses(r) ==
    /\ Sends("time")
    /\ ~r.expired
    /\ srv' = [srv EXCEPT !.rematches = (srv.rematches \ {r}) \cup
                                        {[r EXCEPT !.expired = TRUE]}]

SetupLapses(m) ==
    /\ Sends("time")
    /\ srv.match[m].phase = "setup" /\ ~srv.match[m].stale
    /\ srv' = [srv EXCEPT !.match[m].stale = TRUE]

CancelStale(s) ==
    LET stale(m) == s.match[m].phase = "setup" /\ s.match[m].stale
        upTo[m \in 0 .. MaxMatch] ==
            IF m = 0 THEN s
            ELSE IF stale(m) THEN CancelMatch(upTo[m - 1], m) ELSE upTo[m - 1]
    IN upTo[MaxMatch]

\* Mutant: the sweep makes no matches.
SweepOnly ==
    srv' = CancelStale([srv EXCEPT !.challenges = {h \in srv.challenges : ~h.expired}])

Sweep ==
    LET lapsed == {r \in srv.rematches : r.expired}
        s == [srv EXCEPT !.challenges = {h \in srv.challenges : ~h.expired}]
    IN Becomes(CloseRematches(CancelStale(s), lapsed))

-----------------------------------------------------------------------------
Session(c) ==
    \/ Connect(c) \/ Disconnect(c) \/ LeaveQueue(c)
    \/ \E u \in srv.traffic.users : Login(c, u)
    \/ \E f \in srv.traffic.manifests : MapManifest(c, f)
    \/ \E p \in Puid : AskIdentity(c, p)
    \/ \E ranked \in BOOLEAN : JoinQueue(c, ranked)

Social(c) ==
    \/ \E v \in User :
        \/ FriendRequest(c, v) \/ FriendAccept(c, v) \/ FriendDecline(c, v)
        \/ FriendRemove(c, v) \/ FriendBlock(c, v) \/ FriendUnblock(c, v)
        \/ \E k \in Map : Challenge(c, v, k)
    \/ \E h \in srv.challenges : ChallengeAccept(c, h) \/ ChallengeDecline(c, h)

Play(c) ==
    \/ \E m \in MatchId :
        \/ MatchStarted(c, m) \/ MatchAbort(c, m) \/ TransportFailure(c, m)
        \/ \E w \in User : MatchEnd(c, m, w)
    \/ \E r \in srv.rematches : RematchRequest(c, r) \/ RematchDecline(c, r)

Clock ==
    \/ \E m \in MatchId : ResolutionTimer(m) \/ SetupLapses(m)
    \/ \E h \in srv.challenges : ChallengeLapses(h)
    \/ \E r \in srv.rematches : RematchLapses(r)
    \/ Sweep

Next ==
    /\ ~srv.hung
    /\ \/ \E c \in srv.traffic.clients : Session(c) \/ Social(c) \/ Play(c)
       \/ \E p \in srv.pending : IdentityProved(p) \/ IdentityRefused(p)
       \/ Clock

\* Node's timers fire; nothing is assumed of the clients.
Fairness ==
    /\ WF_vars(Sweep)
    /\ \A m \in MatchId : WF_vars(ResolutionTimer(m)) /\ WF_vars(SetupLapses(m))

Spec == Init /\ [][Next]_vars
FairSpec == Spec /\ Fairness

-----------------------------------------------------------------------------
\* A match that has not ended has both its players at hand, each bound to it
\* and to nothing else: whatever removes a player also ends the match
\* (destroyClient), and whatever ends it frees both (finishMatch, cancelMatch).
\* A player waits in at most one queue, once.
MatchesHavePlayers ==
    /\ \A m \in MatchId : Active(srv, m) =>
        \A u \in Players(srv, m) :
            Online(srv, u) /\ srv.matchOf[srv.online[u]] = m
                           /\ ~Queued(srv, srv.online[u])
    /\ \A c \in Client : srv.matchOf[c] # 0 =>
        Active(srv, srv.matchOf[c]) /\ srv.user[c] \in Players(srv, srv.matchOf[c])
    /\ LET waiting == srv.casual \o srv.competitive
       IN \A i, j \in 1 .. Len(waiting) : waiting[i] = waiting[j] => i = j

\* Every answer about a match, also a repeated one, names the same outcome
\* (finishMatch: "one exact terminal response per connected participant"), and
\* a ranked win is rated once, on a match that both players had started.
ToldOneOutcome ==
    \A m \in MatchId :
        LET r == srv.match[m]
        IN /\ \A x \in r.told :
                r.phase = "ended" /\ x[2] = (IF r.winner = Nobody THEN Void ELSE r.winner)
           /\ r.rated = IF r.ranked /\ r.winner # Nobody THEN 1 ELSE 0
           /\ r.winner # Nobody => r.started = Players(srv, m)

\* An open rematch is one that both could play now.
RematchIsPlayable ==
    \A r \in srv.rematches :
        /\ ~BlockEachOther(srv, r.a, r.b)
        /\ \A u \in {r.a, r.b} :
            /\ Online(srv, u)
            /\ srv.matchOf[srv.online[u]] = 0 /\ ~Queued(srv, srv.online[u])

\* A kept answer offers a rematch only while there is one, and both players
\* keep an answer for each offer that has not lapsed.
OfferMatchesAnswer ==
    /\ \A c \in Client : srv.terminal[c].rematch =>
        \E r \in srv.rematches : r.id = srv.terminal[c].id /\ srv.user[c] \in {r.a, r.b}
    /\ \A r \in srv.rematches : \A u \in {r.a, r.b} :
        LET t == srv.terminal[srv.online[u]]
        IN t.id = r.id /\ (~r.expired => t.rematch)

\* A challenge on offer has two players at hand who do not block each other.
ChallengesAreLive ==
    \A h \in srv.challenges :
        Online(srv, h.from) /\ Online(srv, h.to) /\ ~BlockEachOther(srv, h.from, h.to)

\* Nothing a player does after a match or a challenge (queue, challenge
\* another, block, leave) leaves an offer behind that could not be played, and
\* a repeated report is answered with the offer that stands.
OffersAreLive == RematchIsPlayable /\ OfferMatchesAnswer /\ ChallengesAreLive

\* The identity a player's opponent was given at the start of an EOS match is
\* the player's until it ends, however long a verification was under way
\* (handleEosPuidProof).
IdentityFixedInMatch ==
    \A m \in MatchId : Active(srv, m) /\ srv.match[m].eos =>
        \A u \in Players(srv, m) :
            srv.match[m].puid[u] # NoPuid
            /\ srv.verified[srv.online[u]] = srv.match[m].puid[u]

\* The matchmaking loops end: what they test before makeMatch is what makeMatch
\* tests (tryCompetitiveMatchmaking ignores its result).
MatchmakingEnds == ~srv.hung

Outcome ==
    INSTANCE MatchOutcome WITH
        match <- [m \in MatchId |->
            [players |-> Players(srv, m) \ {Nobody}, phase |-> srv.match[m].phase,
             winner |-> srv.match[m].winner, conceded |-> srv.match[m].conceded]]

\* Every match goes the way of MatchOutcome: one outcome, free players, and no
\* winner whose opponent has not conceded.
ImplementsOutcome == Outcome!OutcomeSpec

\* A setup that never becomes a game is called off by the sweep.
SetupEnds == \A m \in MatchId :
    srv.match[m].phase = "setup" ~> srv.match[m].phase # "setup"

\* One report, or one transport failure, is enough for a match to end.
ReportedMatchEnds == \A m \in MatchId :
    (Active(srv, m) /\ (srv.match[m].failed # {}
                        \/ \E u \in User : srv.match[m].result[u] # Nobody))
        ~> ~Active(srv, m)

\* Every match the timers are responsible for ends.
MatchesEnd == SetupEnds /\ ReportedMatchEnds

\* Two players who fit do not stay in the casual queue together.
Fitting(c, d) ==
    /\ \E p \in Pairs(srv.casual) : {srv.casual[p[1]], srv.casual[p[2]]} = {c, d}
    /\ MayPair(srv, c, d, FALSE)
    /\ Room(srv)
QueueDrains == \A c, d \in Client : c # d => (Fitting(c, d) ~> ~Fitting(c, d))
=============================================================================
