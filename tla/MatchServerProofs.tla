-------------------------- MODULE MatchServerProofs --------------------------
(***************************************************************************)
(* Theorems about the match server: its safety invariants and that it      *)
(* implements MatchOutcome, for any number of players, maps and matches.   *)
(* Every handler and timer keeps the invariant of MatchServerLemmas.       *)
(***************************************************************************)
EXTENDS MatchServerLemmas

-----------------------------------------------------------------------------
(* What every step of the server does: it keeps the invariant, and every     *)
(* match goes its way.                                                       *)

Carries(s, t) == ServerInv(t) /\ Moves(s, t)

LEMMA StillCarries ==
    ASSUME NEW s, NEW t, ServerInv(t), SameRun(s, t), t.match = s.match
    PROVE  Carries(s, t)
BY DEF Carries, Moves, StepOf, SameRun

\* Changes that no match, queue or offer depends on.
Aside(s, t) ==
    /\ s.clients \subseteq t.clients /\ t.user = s.user /\ t.online = s.online
    /\ \A c \in Client : s.matchOf[c] # 0 => t.verified[c] = s.verified[c]
    /\ \A r \in s.rematches : ~ BlockEachOther(t, r.a, r.b)
    /\ \A h \in s.challenges : ~ BlockEachOther(t, h.from, h.to)
    /\ Befriended(t)
    /\ SameRun(s, t) /\ SameRecords(s, t) /\ SameQueues(s, t)
    /\ t.matchOf = s.matchOf /\ t.terminal = s.terminal
    /\ t.rematches = s.rematches /\ t.challenges = s.challenges

LEMMA AsideKeeps ==
    ASSUME NEW s, ServerInv(s), NEW t \in Server, Aside(s, t)
    PROVE  ServerInv(t) /\ Carries(s, t)
<1>1. /\ s.clients \subseteq t.clients /\ t.user = s.user /\ t.online = s.online
      /\ \A c \in Client : s.matchOf[c] # 0 => t.verified[c] = s.verified[c]
      /\ t.match = s.match /\ t.next = s.next /\ t.hung = s.hung
      /\ t.casual = s.casual /\ t.competitive = s.competitive
      /\ t.matchOf = s.matchOf /\ t.terminal = s.terminal
      /\ t.rematches = s.rematches /\ t.challenges = s.challenges
  BY DEF Aside, SameRun, SameRecords, SameQueues
<1>2. /\ Presence(s) /\ Blank(s) /\ Waiting(s) /\ Bound(s)
      /\ Records(s) /\ Answers(s) /\ Identified(s)
      /\ OfferNames(s) /\ Playable(s) /\ Promised(s) /\ Offered(s)
      /\ Challenged(s) /\ ~ s.hung
  BY DEF ServerInv
<1>3. \A u : Online(t, u) <=> Online(s, u)
  BY <1>1 DEF Online
<1>4. \A m : (Active(t, m) <=> Active(s, m)) /\ Players(t, m) = Players(s, m)
  BY <1>1 DEF Active, Players
<1>5. Presence(t) /\ Blank(t) /\ Waiting(t)
  BY <1>1, <1>2 DEF Presence, Blank, Waiting
<1>6. Bound(t)
  BY <1>1, <1>2, <1>3, <1>4 DEF Bound
<1>7. Records(t) /\ Answers(t) /\ OfferNames(t)
  BY <1>1, <1>2 DEF Records, Answers, OfferNames
<1>8. Identified(t)
  <2>1. ASSUME NEW m \in MatchId, Active(s, m), s.match[m].eos, NEW u \in Players(s, m)
        PROVE  /\ s.match[m].puid[u] # NoPuid
               /\ t.verified[s.online[u]] = s.match[m].puid[u]
    <3>1. Online(s, u) /\ s.matchOf[s.online[u]] = m
      BY <1>2, <2>1 DEF Bound
    <3>2. s.online[u] \in Client
      <4>1. s.online \in [User -> Client \cup {NoClient}]
        BY Fields DEF ServerInv
      <4> QED BY <3>1, <4>1 DEF Online
    <3>3. m # 0
      BY DEF MatchId
    <3>4. t.verified[s.online[u]] = s.verified[s.online[u]]
      BY <1>1, <3>1, <3>2, <3>3
    <3> QED BY <1>2, <2>1, <3>4 DEF Identified
  <2> QED BY <1>1, <1>4, <2>1 DEF Identified
<1>9. Playable(t)
  BY <1>1, <1>2, <1>3 DEF Playable, Aside
<1>10. Promised(t) /\ Offered(t)
  <2>1. \A r, u : Answered(t, r, u) <=> Answered(s, r, u)
    BY <1>1 DEF Answered
  <2> QED BY <1>1, <1>2, <2>1 DEF Promised, Offered
<1>11. Challenged(t)
  BY <1>1, <1>2, <1>3 DEF Challenged, Aside
<1>12. Befriended(t)
  BY DEF Aside
<1>13. ServerInv(t)
  BY <1>1, <1>2, <1>5, <1>6, <1>7, <1>8, <1>9, <1>10, <1>11, <1>12 DEF ServerInv
<1>14. Carries(s, t)
  BY <1>1, <1>13, StillCarries DEF Aside
<1> QED BY <1>13, <1>14

\* The same where no block is new and no verified identity changes.
Minor(s, t) ==
    /\ s.clients \subseteq t.clients /\ t.user = s.user /\ t.online = s.online
    /\ t.verified = s.verified /\ t.blocked \subseteq s.blocked /\ Befriended(t)
    /\ SameRun(s, t) /\ SameRecords(s, t) /\ SameQueues(s, t)
    /\ t.matchOf = s.matchOf /\ t.terminal = s.terminal
    /\ t.rematches = s.rematches /\ t.challenges = s.challenges

LEMMA MinorKeeps ==
    ASSUME NEW s, ServerInv(s), NEW t \in Server, Minor(s, t)
    PROVE  ServerInv(t) /\ Carries(s, t)
<1>1. Playable(s) /\ Challenged(s)
  BY DEF ServerInv
<1>2. \A u, v : BlockEachOther(t, u, v) => BlockEachOther(s, u, v)
  BY DEF Minor, BlockEachOther
<1>3. Aside(s, t)
  BY <1>1, <1>2 DEF Minor, Aside, Playable, Challenged
<1> QED BY <1>3, AsideKeeps

WithAside(s, C, f, v, P, F, A, B) ==
    [s EXCEPT !.clients = C, !.manifest = f, !.verified = v, !.pending = P,
              !.friends = F, !.asked = A, !.blocked = B]

LEMMA SetAside ==
    ASSUME NEW s \in Server, NEW C \in SUBSET Client, NEW f \in [Client -> Manifest],
           NEW v \in [Client -> Puid \cup {NoPuid}], NEW P \in SUBSET Proof,
           NEW F \in SUBSET (User \X User), NEW A \in SUBSET (User \X User),
           NEW B \in SUBSET (User \X User),
           NEW t, t = WithAside(s, C, f, v, P, F, A, B)
    PROVE  /\ t \in Server /\ t.clients = C /\ t.manifest = f /\ t.verified = v
           /\ t.pending = P /\ t.friends = F /\ t.asked = A /\ t.blocked = B
           /\ t.user = s.user /\ t.online = s.online
           /\ SameRun(s, t) /\ SameRecords(s, t) /\ SameQueues(s, t)
           /\ t.matchOf = s.matchOf /\ t.terminal = s.terminal
           /\ t.rematches = s.rematches /\ t.challenges = s.challenges
  BY DEF WithAside, Server, SameRun, SameRecords, SameQueues

LEMMA MinorSet ==
    ASSUME NEW s, ServerInv(s), NEW C \in SUBSET Client, NEW f \in [Client -> Manifest],
           NEW P \in SUBSET Proof, NEW F \in SUBSET (User \X User),
           NEW A \in SUBSET (User \X User), NEW B \in SUBSET (User \X User),
           s.clients \subseteq C, B \subseteq s.blocked,
           \A u \in User : <<u, u>> \notin F /\ <<u, u>> \notin A,
           NEW t, t = WithAside(s, C, f, s.verified, P, F, A, B)
    PROVE  ServerInv(t) /\ Carries(s, t) /\ SameRun(s, t) /\ SameRecords(s, t)
<1>1. s \in Server /\ s.verified \in [Client -> Puid \cup {NoPuid}]
  BY Fields DEF ServerInv
<1>2. /\ t \in Server /\ t.clients = C /\ t.verified = s.verified
      /\ t.friends = F /\ t.asked = A /\ t.blocked = B
      /\ t.user = s.user /\ t.online = s.online
      /\ SameRun(s, t) /\ SameRecords(s, t) /\ SameQueues(s, t)
      /\ t.matchOf = s.matchOf /\ t.terminal = s.terminal
      /\ t.rematches = s.rematches /\ t.challenges = s.challenges
  BY <1>1, SetAside
<1>3. Minor(s, t)
  BY <1>2 DEF Minor, Befriended
<1> QED BY <1>2, <1>3, MinorKeeps

\* What the collections no match depends on hold.
Asides(s) ==
    /\ s.clients \in SUBSET Client /\ s.manifest \in [Client -> Manifest]
    /\ s.pending \in SUBSET Proof /\ s.friends \in SUBSET (User \X User)
    /\ s.asked \in SUBSET (User \X User) /\ s.blocked \in SUBSET (User \X User)
    /\ \A u \in User : <<u, u>> \notin s.friends /\ <<u, u>> \notin s.asked

LEMMA AsidesAre ==
    ASSUME NEW s, ServerInv(s)
    PROVE  Asides(s) /\ s \in Server
<1>1. s \in Server /\ Befriended(s)
  BY DEF ServerInv
<1> QED BY <1>1, Fields DEF Asides, Befriended

\* A connection opens.
LEMMA ConnectCarries ==
    ASSUME ServerInv(srv), NEW c \in Client, Connect(c)
    PROVE  Carries(srv, srv')
<1> DEFINE C == srv.clients \cup {c}
<1>1. Asides(srv) /\ srv \in Server
  BY AsidesAre
<1>2. srv' = WithAside(srv, C, srv.manifest, srv.verified, srv.pending,
                       srv.friends, srv.asked, srv.blocked)
  BY <1>1 DEF Connect, WithAside, Server
<1>3. C \in SUBSET Client /\ srv.clients \subseteq C
  BY <1>1 DEF Asides
<1> HIDE DEF C
<1> QED BY <1>1, <1>2, <1>3, MinorSet DEF Asides

\* A proof is asked for, or refused.
LEMMA AskIdentityCarries ==
    ASSUME ServerInv(srv), NEW c \in Client, NEW p \in Puid, AskIdentity(c, p)
    PROVE  Carries(srv, srv')
<1> DEFINE x == [client |-> c, user |-> srv.user[c], puid |-> p]
           P == srv.pending \cup {x}
<1>1. Asides(srv) /\ srv \in Server /\ srv.user \in [Client -> UserOr]
  BY AsidesAre, Fields
<1>2. srv' = WithAside(srv, srv.clients, srv.manifest, srv.verified, P,
                       srv.friends, srv.asked, srv.blocked)
  BY <1>1 DEF AskIdentity, WithAside, Server
<1>3. P \in SUBSET Proof
  <2>1. x \in Proof
    BY <1>1 DEF AskIdentity, Receives, LoggedIn, Proof, UserOr
  <2> HIDE DEF x
  <2> QED BY <1>1, <2>1 DEF Asides
<1> HIDE DEF P
<1> QED BY <1>1, <1>2, <1>3, MinorSet DEF Asides

LEMMA IdentityRefusedCarries ==
    ASSUME ServerInv(srv), NEW p \in srv.pending, IdentityRefused(p)
    PROVE  Carries(srv, srv')
<1> DEFINE P == srv.pending \ {p}
<1>1. Asides(srv) /\ srv \in Server
  BY AsidesAre
<1>2. srv' = WithAside(srv, srv.clients, srv.manifest, srv.verified, P,
                       srv.friends, srv.asked, srv.blocked)
  BY <1>1 DEF IdentityRefused, WithAside, Server
<1>3. P \in SUBSET Proof
  BY <1>1 DEF Asides
<1> HIDE DEF P
<1> QED BY <1>1, <1>2, <1>3, MinorSet DEF Asides

\* A player who has an account has one of the users'.
LEMMA IsUser ==
    ASSUME NEW s, ServerInv(s), NEW c \in Client, LoggedIn(s, c)
    PROVE  s.user[c] \in User /\ s.online[s.user[c]] = c
<1>1. s.user \in [Client -> UserOr] /\ Presence(s)
  BY Fields DEF ServerInv
<1> QED BY <1>1 DEF LoggedIn, Presence, UserOr

\* Friends.
LEMMA FriendRequestCarries ==
    ASSUME ServerInv(srv), NEW c \in Client, NEW v \in User, FriendRequest(c, v)
    PROVE  Carries(srv, srv')
<1> DEFINE u == srv.user[c]
           A == srv.asked \cup {<<u, v>>}
<1>1. Asides(srv) /\ srv \in Server
  BY AsidesAre
<1>2. srv' = WithAside(srv, srv.clients, srv.manifest, srv.verified, srv.pending,
                       srv.friends, A, srv.blocked)
  BY <1>1 DEF FriendRequest, WithAside, Server
<1>3. u \in User /\ u # v
  BY IsUser DEF FriendRequest, Receives
<1>4. A \in SUBSET (User \X User) /\ \A w \in User : <<w, w>> \notin A
  BY <1>1, <1>3 DEF Asides
<1> HIDE DEF A
<1> QED BY <1>1, <1>2, <1>4, MinorSet DEF Asides

LEMMA FriendAcceptCarries ==
    ASSUME ServerInv(srv), NEW c \in Client, NEW v \in User, FriendAccept(c, v)
    PROVE  Carries(srv, srv')
<1> DEFINE u == srv.user[c]
           A == srv.asked \ {<<v, u>>}
           F == srv.friends \cup {<<u, v>>, <<v, u>>}
<1>1. Asides(srv) /\ srv \in Server
  BY AsidesAre
<1>2. srv' = WithAside(srv, srv.clients, srv.manifest, srv.verified, srv.pending,
                       F, A, srv.blocked)
  BY <1>1 DEF FriendAccept, WithAside, Server
<1>3. u \in User /\ u # v
  <2>1. u \in User /\ <<v, u>> \in srv.asked
    BY IsUser DEF FriendAccept, Receives
  <2> QED BY <1>1, <2>1 DEF Asides
<1>4. A \in SUBSET (User \X User) /\ \A w \in User : <<w, w>> \notin A
  BY <1>1 DEF Asides
<1>5. F \in SUBSET (User \X User) /\ \A w \in User : <<w, w>> \notin F
  BY <1>1, <1>3 DEF Asides
<1> HIDE DEF A, F
<1> QED BY <1>1, <1>2, <1>4, <1>5, MinorSet DEF Asides

LEMMA FriendDeclineCarries ==
    ASSUME ServerInv(srv), NEW c \in Client, NEW v \in User, FriendDecline(c, v)
    PROVE  Carries(srv, srv')
<1> DEFINE A == srv.asked \ {<<v, srv.user[c]>>}
<1>1. Asides(srv) /\ srv \in Server
  BY AsidesAre
<1>2. srv' = WithAside(srv, srv.clients, srv.manifest, srv.verified, srv.pending,
                       srv.friends, A, srv.blocked)
  BY <1>1 DEF FriendDecline, WithAside, Server
<1>3. A \in SUBSET (User \X User) /\ \A w \in User : <<w, w>> \notin A
  BY <1>1 DEF Asides
<1> HIDE DEF A
<1> QED BY <1>1, <1>2, <1>3, MinorSet DEF Asides

LEMMA FriendRemoveCarries ==
    ASSUME ServerInv(srv), NEW c \in Client, NEW v \in User, FriendRemove(c, v)
    PROVE  Carries(srv, srv')
<1> DEFINE u == srv.user[c]
           F == srv.friends \ {<<u, v>>, <<v, u>>}
<1>1. Asides(srv) /\ srv \in Server
  BY AsidesAre
<1>2. srv' = WithAside(srv, srv.clients, srv.manifest, srv.verified, srv.pending,
                       F, srv.asked, srv.blocked)
  BY <1>1 DEF FriendRemove, WithAside, Server
<1>3. F \in SUBSET (User \X User) /\ \A w \in User : <<w, w>> \notin F
  BY <1>1 DEF Asides
<1> HIDE DEF F
<1> QED BY <1>1, <1>2, <1>3, MinorSet DEF Asides

LEMMA FriendUnblockCarries ==
    ASSUME ServerInv(srv), NEW c \in Client, NEW v \in User, FriendUnblock(c, v)
    PROVE  Carries(srv, srv')
<1> DEFINE B == srv.blocked \ {<<srv.user[c], v>>}
<1>1. Asides(srv) /\ srv \in Server
  BY AsidesAre
<1>2. srv' = WithAside(srv, srv.clients, srv.manifest, srv.verified, srv.pending,
                       srv.friends, srv.asked, B)
  BY <1>1 DEF FriendUnblock, WithAside, Server
<1>3. B \in SUBSET (User \X User) /\ B \subseteq srv.blocked
  BY <1>1 DEF Asides
<1> HIDE DEF B
<1> QED BY <1>1, <1>2, <1>3, MinorSet DEF Asides

\* Matches may begin once what no match depends on has changed.
LEMMA StartsCarry ==
    ASSUME NEW s, NEW x, SameRun(s, x), x.match = s.match,
           NEW t, ServerInv(t), MayStart(x, t)
    PROVE  Carries(s, t)
<1>1. t.traffic = s.traffic
  BY DEF SameRun, MayStart
<1>2. ASSUME NEW m \in MatchId PROVE StepOf(s.match[m], t.match[m])
  BY DEF MayStart, StepOf, Begins
<1> QED BY <1>1, <1>2 DEF Carries, Moves

\* The verifier has answered.
LEMMA IdentityProvedCarries ==
    ASSUME ServerInv(srv), NEW p \in srv.pending, IdentityProved(p)
    PROVE  Carries(srv, srv')
<1> DEFINE P == srv.pending \ {p}
           v == [srv.verified EXCEPT ![p.client] = p.puid]
           x == WithAside(srv, srv.clients, srv.manifest, v, P,
                          srv.friends, srv.asked, srv.blocked)
<1>1. Asides(srv) /\ srv \in Server /\ srv.verified \in [Client -> Puid \cup {NoPuid}]
  BY AsidesAre, Fields
<1>2. P \in SUBSET Proof /\ p \in Proof
  BY <1>1 DEF Asides
<1>3. p.client \in Client /\ p.puid \in Puid
  BY <1>2 DEF Proof
<1>4. CASE StillHolds(srv, p)
  <2>1. [[srv EXCEPT !.pending = srv.pending \ {p}] EXCEPT !.verified[p.client] = p.puid] = x
    BY <1>1 DEF WithAside, Server
  <2>2. Becomes(x)
    BY <1>4, <2>1 DEF IdentityProved
  <2>3. v \in [Client -> Puid \cup {NoPuid}]
        /\ \A c \in Client : srv.matchOf[c] # 0 => v[c] = srv.verified[c]
    BY <1>1, <1>3, <1>4 DEF StillHolds
  <2>4. x = WithAside(srv, srv.clients, srv.manifest, v, P,
                      srv.friends, srv.asked, srv.blocked)
    OBVIOUS
  <2> HIDE DEF x, v, P
  <2>5. /\ x \in Server /\ x.clients = srv.clients /\ x.verified = v
        /\ x.friends = srv.friends /\ x.asked = srv.asked /\ x.blocked = srv.blocked
        /\ x.user = srv.user /\ x.online = srv.online
        /\ SameRun(srv, x) /\ SameRecords(srv, x) /\ SameQueues(srv, x)
        /\ x.matchOf = srv.matchOf /\ x.terminal = srv.terminal
        /\ x.rematches = srv.rematches /\ x.challenges = srv.challenges
    BY <1>1, <1>2, <2>3, <2>4, SetAside DEF Asides
  <2>6. Aside(srv, x)
    <3>1. /\ \A r \in srv.rematches : ~ BlockEachOther(x, r.a, r.b)
          /\ \A h \in srv.challenges : ~ BlockEachOther(x, h.from, h.to)
      <4>1. Playable(srv) /\ Challenged(srv)
        BY DEF ServerInv
      <4> QED BY <2>5, <4>1 DEF Playable, Challenged, BlockEachOther
    <3>2. Befriended(x)
      BY <1>1, <2>5 DEF Befriended, Asides
    <3> QED BY <2>3, <2>5, <3>1, <3>2 DEF Aside
  <2>7. ServerInv(x)
    BY <2>5, <2>6, AsideKeeps
  <2>8. ServerInv(srv') /\ MayStart(x, srv')
    BY <2>2, <2>7, BecomesKeeps
  <2> QED BY <2>5, <2>8, StartsCarry DEF SameRecords
<1>5. CASE ~ StillHolds(srv, p)
  <2>1. IdentityRefused(p)
    BY <1>5 DEF IdentityProved, IdentityRefused
  <2> QED BY <2>1, IdentityRefusedCarries
<1> QED BY <1>4, <1>5

\* A client says what maps it has.
LEMMA MapManifestCarries ==
    ASSUME ServerInv(srv), NEW c \in Client, NEW f \in Manifest, MapManifest(c, f)
    PROVE  Carries(srv, srv')
<1> DEFINE g == [srv.manifest EXCEPT ![c] = f]
           x == WithAside(srv, srv.clients, g, srv.verified, srv.pending,
                          srv.friends, srv.asked, srv.blocked)
           y == RemoveFromQueues(x, c)
<1>1. Asides(srv) /\ srv \in Server
  BY AsidesAre
<1>2. [srv EXCEPT !.manifest[c] = f] = x
  BY <1>1 DEF WithAside, Server
<1>3. srv' = x \/ srv' = y
  BY <1>2 DEF MapManifest
<1>4. g \in [Client -> Manifest]
  BY <1>1 DEF Asides
<1>5. x = WithAside(srv, srv.clients, g, srv.verified, srv.pending,
                    srv.friends, srv.asked, srv.blocked)
  OBVIOUS
<1>6. y = RemoveFromQueues(x, c)
  OBVIOUS
<1> HIDE DEF g, x, y
<1>7. ServerInv(x) /\ Carries(srv, x) /\ SameRun(srv, x) /\ SameRecords(srv, x)
  BY <1>1, <1>4, <1>5, MinorSet DEF Asides
<1>8. ServerInv(y) /\ SameRun(x, y) /\ SameRecords(x, y)
  BY <1>6, <1>7, RemoveKeeps
<1>9. Carries(srv, y)
  BY <1>7, <1>8, StillCarries DEF SameRun, SameRecords
<1> QED BY <1>3, <1>7, <1>9

\* A client leaves its queue.
LEMMA LeaveQueueCarries ==
    ASSUME ServerInv(srv), NEW c \in Client, LeaveQueue(c)
    PROVE  Carries(srv, srv')
<1>1. srv' = RemoveFromQueues(srv, c)
  BY DEF LeaveQueue
<1>2. ServerInv(srv') /\ SameRun(srv, srv') /\ SameRecords(srv, srv')
  BY <1>1, RemoveKeeps
<1> QED BY <1>2, StillCarries DEF SameRecords

\* A connection closes.
LEMMA DisconnectCarries ==
    ASSUME ServerInv(srv), NEW c \in Client, Disconnect(c)
    PROVE  Carries(srv, srv')
<1>1. srv' = DestroyClient(srv, c)
  BY DEF Disconnect
<1> QED BY <1>1, DestroyKeeps DEF Carries

\* Blocking.
LEMMA FriendBlockCarries ==
    ASSUME ServerInv(srv), NEW c \in Client, NEW v \in User, FriendBlock(c, v)
    PROVE  Carries(srv, srv')
<1> DEFINE u == srv.user[c]
           both == {<<u, v>>, <<v, u>>}
           R == RematchesBetween(srv, u, v)
           H == {h \in srv.challenges : {h.from, h.to} # {u, v}}
           x == CloseRematches(srv, R)
           y == WithChallenges(x, H)
           F == srv.friends \ both
           A == srv.asked \ both
           B == srv.blocked \cup {<<u, v>>}
           z == WithAside(y, y.clients, y.manifest, y.verified, y.pending, F, A, B)
<1>1. Asides(srv) /\ srv \in Server /\ u \in User /\ u # v
  BY AsidesAre, IsUser DEF FriendBlock, Receives
<1>2. R \subseteq srv.rematches /\ \A r \in srv.rematches \ R : {r.a, r.b} # {u, v}
  BY DEF RematchesBetween
<1>3. H \subseteq srv.challenges /\ \A h \in H : {h.from, h.to} # {u, v}
  OBVIOUS
<1>4. srv' = [x EXCEPT !.blocked = B, !.friends = F, !.asked = A, !.challenges = H]
  BY DEF FriendBlock
<1>5. /\ F \in SUBSET (User \X User) /\ A \in SUBSET (User \X User)
      /\ B \in SUBSET (User \X User)
      /\ \A w \in User : <<w, w>> \notin F /\ <<w, w>> \notin A
  BY <1>1 DEF Asides
<1>6. \A a, b : <<a, b>> \in B => <<a, b>> \in srv.blocked \/ (a = u /\ b = v)
  OBVIOUS
<1>7. y = WithChallenges(x, H)
      /\ z = WithAside(y, y.clients, y.manifest, y.verified, y.pending, F, A, B)
  OBVIOUS
<1> HIDE DEF R, H, F, A, B, x, y, z
<1>8. ServerInv(x) /\ x.rematches = srv.rematches \ R /\ SameRun(srv, x)
      /\ SamePeople(srv, x) /\ SameFriends(srv, x) /\ SameRecords(srv, x)
      /\ x.challenges = srv.challenges
  BY <1>1, CloseEffect, CloseKeeps DEF x
<1>9. /\ ServerInv(y) /\ y.challenges = H /\ SameRun(x, y) /\ SamePeople(x, y)
      /\ SameFriends(x, y) /\ SameRecords(x, y) /\ y.rematches = x.rematches
  <2>1. H \in SUBSET Offer /\ \A h \in H : h \in x.challenges
    <3>1. srv.challenges \subseteq Offer
      BY <1>1, Fields
    <3> QED BY <1>3, <1>8, <3>1
  <2> QED BY <1>7, <1>8, <2>1, ChallengesKeep
<1>10. y \in Server /\ x \in Server /\ Asides(y) /\ y.verified \in [Client -> Puid \cup {NoPuid}]
  BY <1>8, <1>9, AsidesAre, Fields
<1>11. /\ z \in Server /\ z.clients = y.clients /\ z.verified = y.verified
       /\ z.friends = F /\ z.asked = A /\ z.blocked = B
       /\ z.user = y.user /\ z.online = y.online
       /\ SameRun(y, z) /\ SameRecords(y, z) /\ SameQueues(y, z)
       /\ z.matchOf = y.matchOf /\ z.terminal = y.terminal
       /\ z.rematches = y.rematches /\ z.challenges = y.challenges
  BY <1>5, <1>7, <1>10, SetAside DEF Asides
<1>12. Aside(y, z)
  <2>1. \A a, b : BlockEachOther(z, a, b) => BlockEachOther(srv, a, b) \/ {a, b} = {u, v}
    BY <1>6, <1>11 DEF BlockEachOther
  <2>2. \A a, b : BlockEachOther(y, a, b) <=> BlockEachOther(srv, a, b)
    BY <1>8, <1>9 DEF BlockEachOther, SameFriends
  <2>3. \A r \in y.rematches : ~ BlockEachOther(z, r.a, r.b)
    BY <1>2, <1>8, <1>9, <2>1, <2>2 DEF ServerInv, Playable
  <2>4. \A h \in y.challenges : ~ BlockEachOther(z, h.from, h.to)
    BY <1>3, <1>9, <2>1, <2>2 DEF ServerInv, Challenged
  <2>5. Befriended(z)
    BY <1>5, <1>11 DEF Befriended
  <2> QED BY <1>11, <2>3, <2>4, <2>5 DEF Aside
<1>13. ServerInv(z)
  BY <1>9, <1>11, <1>12, AsideKeeps
<1>14. srv' = z
  <2>1. y = [x EXCEPT !.challenges = H]
    BY <1>7 DEF WithChallenges
  <2>2. z = [y EXCEPT !.friends = F, !.asked = A, !.blocked = B]
    BY <1>7, <1>10 DEF WithAside, Server
  <2>3. z = [x EXCEPT !.blocked = B, !.friends = F, !.asked = A, !.challenges = H]
    BY <1>10, <2>1, <2>2 DEF Server
  <2> QED BY <1>4, <2>3
<1>15. Carries(srv, z)
  BY <1>8, <1>9, <1>11, <1>13, StillCarries DEF SameRun, SameRecords
<1> QED BY <1>14, <1>15

\* authOk: user u signs in on connection c, which had no account.
WithLogon(s, U, o, f) == [s EXCEPT !.user = U, !.online = o, !.manifest = f]

LEMMA SetLogon ==
    ASSUME NEW s \in Server, NEW U \in [Client -> UserOr],
           NEW o \in [User -> Client \cup {NoClient}], NEW f \in [Client -> Manifest],
           NEW t, t = WithLogon(s, U, o, f)
    PROVE  /\ t \in Server /\ t.user = U /\ t.online = o /\ t.clients = s.clients
           /\ t.verified = s.verified /\ SameFriends(s, t)
           /\ SameRun(s, t) /\ SameRecords(s, t) /\ SameQueues(s, t)
           /\ t.matchOf = s.matchOf /\ t.terminal = s.terminal
           /\ t.rematches = s.rematches /\ t.challenges = s.challenges
  BY DEF WithLogon, Server, SameRun, SameRecords, SameQueues, SameFriends

SignsIn(s, t, c, u) ==
    /\ c \in s.clients /\ s.user[c] = Nobody /\ s.online[u] = NoClient
    /\ t.user[c] = u /\ \A d \in Client \ {c} : t.user[d] = s.user[d]
    /\ t.online[u] = c /\ \A v \in User \ {u} : t.online[v] = s.online[v]
    /\ t.clients = s.clients /\ t.verified = s.verified /\ SameFriends(s, t)
    /\ SameRun(s, t) /\ SameRecords(s, t) /\ SameQueues(s, t)
    /\ t.matchOf = s.matchOf /\ t.terminal = s.terminal
    /\ t.rematches = s.rematches /\ t.challenges = s.challenges

LEMMA SignInKeeps ==
    ASSUME NEW s, ServerInv(s), NEW c \in Client, NEW u \in User,
           NEW t \in Server, SignsIn(s, t, c, u)
    PROVE  ServerInv(t)
<1>1. /\ s \in Server /\ s.match \in [MatchId -> Match] /\ s.rematches \subseteq Rematch
      /\ s.terminal \in [Client -> Answer] /\ s.matchOf \in [Client -> 0 .. MaxMatch]
      /\ s.user \in [Client -> UserOr] /\ s.online \in [User -> Client \cup {NoClient}]
      /\ s.challenges \subseteq Offer
  BY Fields DEF ServerInv
<1>2. /\ Presence(s) /\ Blank(s) /\ Waiting(s) /\ Bound(s)
      /\ Records(s) /\ Answers(s) /\ Identified(s)
      /\ OfferNames(s) /\ Playable(s) /\ Promised(s) /\ Offered(s)
      /\ Challenged(s) /\ Befriended(s) /\ ~ s.hung
  BY DEF ServerInv
<1>3. /\ c \in s.clients /\ s.user[c] = Nobody /\ s.online[u] = NoClient
      /\ t.user[c] = u /\ \A d \in Client \ {c} : t.user[d] = s.user[d]
      /\ t.online[u] = c /\ \A v \in User \ {u} : t.online[v] = s.online[v]
      /\ t.clients = s.clients /\ t.verified = s.verified
      /\ t.match = s.match /\ t.next = s.next /\ t.hung = s.hung
      /\ t.casual = s.casual /\ t.competitive = s.competitive
      /\ t.friends = s.friends /\ t.asked = s.asked /\ t.blocked = s.blocked
      /\ t.matchOf = s.matchOf /\ t.terminal = s.terminal
      /\ t.rematches = s.rematches /\ t.challenges = s.challenges
  BY DEF SignsIn, SameRun, SameRecords, SameQueues, SameFriends
<1>4. /\ s.matchOf[c] = 0 /\ s.terminal[c].id = 0 /\ ~ s.terminal[c].rematch
  BY <1>2, <1>3 DEF Blank, NoTerminal
<1>5. u # Nobody /\ c # NoClient
  BY ServerAssumption
<1>6. ~ Online(s, u) /\ \A v : Online(s, v) => v # u /\ t.online[v] = s.online[v] /\ Online(t, v)
  BY <1>3 DEF Online
<1>7. \A m : (Active(t, m) <=> Active(s, m)) /\ Players(t, m) = Players(s, m)
  BY <1>3 DEF Active, Players
<1>8. Presence(t)
  <2>1. ASSUME NEW d \in Client, t.user[d] # Nobody
        PROVE  d \in t.clients /\ t.online[t.user[d]] = d
    <3>1. CASE d = c
      BY <1>3, <3>1
    <3>2. CASE d # c
      <4>1. s.user[d] # Nobody /\ s.user[d] \in User /\ s.online[s.user[d]] = d
            /\ d \in s.clients
        BY <1>1, <1>2, <1>3, <2>1, <3>2 DEF Presence, UserOr
      <4>2. s.user[d] # u
        BY <1>3, <4>1, ServerAssumption
      <4> QED BY <1>3, <3>2, <4>1, <4>2
    <3> QED BY <3>1, <3>2
  <2>2. ASSUME NEW v \in User, t.online[v] # NoClient PROVE t.user[t.online[v]] = v
    <3>1. CASE v = u
      BY <1>3, <3>1
    <3>2. CASE v # u
      <4>1. t.online[v] = s.online[v] /\ s.user[s.online[v]] = v /\ s.online[v] \in Client
        BY <1>1, <1>2, <1>3, <2>2, <3>2 DEF Presence
      <4>2. s.online[v] # c
        BY <1>3, <4>1, ServerAssumption
      <4> QED BY <1>3, <4>1, <4>2
    <3> QED BY <3>1, <3>2
  <2> QED BY <2>1, <2>2 DEF Presence
<1>9. Blank(t)
  BY <1>2, <1>3, <1>5 DEF Blank
<1>10. Waiting(t)
  <2>1. ASSUME NEW d \in Client, In(s.casual, d) \/ In(s.competitive, d)
        PROVE  t.user[d] # Nobody /\ s.matchOf[d] = 0
    <3>1. s.user[d] # Nobody /\ s.matchOf[d] = 0
      BY <1>2, <2>1 DEF Waiting
    <3> QED BY <1>3, <3>1
  <2> QED BY <1>2, <1>3, <2>1 DEF Waiting
<1>11. Bound(t)
  <2>1. ASSUME NEW m \in MatchId, Active(s, m), NEW v \in Players(s, m)
        PROVE  Online(t, v) /\ t.matchOf[t.online[v]] = m
    BY <1>2, <1>3, <1>6, <2>1 DEF Bound
  <2>2. ASSUME NEW d \in Client, s.matchOf[d] # 0
        PROVE  Active(s, s.matchOf[d]) /\ t.user[d] \in Players(s, s.matchOf[d])
    BY <1>2, <1>3, <1>4, <2>2 DEF Bound
  <2> QED BY <1>3, <1>7, <2>1, <2>2 DEF Bound
<1>12. Records(t) /\ Answers(t) /\ OfferNames(t) /\ Befriended(t)
  BY <1>2, <1>3 DEF Records, Answers, OfferNames, Befriended
<1>13. Identified(t)
  <2>1. ASSUME NEW m \in MatchId, Active(s, m), NEW v \in Players(s, m)
        PROVE  t.online[v] = s.online[v]
    BY <1>2, <1>6, <2>1 DEF Bound
  <2> QED BY <1>2, <1>3, <1>7, <2>1 DEF Identified
<1>14. Playable(t)
  <2>1. ASSUME NEW r \in s.rematches, NEW v \in {r.a, r.b}
        PROVE  Online(t, v) /\ t.online[v] = s.online[v]
    BY <1>2, <1>6 DEF Playable
  <2>2. \A a, b : BlockEachOther(t, a, b) <=> BlockEachOther(s, a, b)
    BY <1>3 DEF BlockEachOther
  <2> QED BY <1>2, <1>3, <2>1, <2>2 DEF Playable
<1>15. Promised(t)
  <2>1. ASSUME NEW d \in Client, s.terminal[d].rematch
        PROVE  \E r \in s.rematches : r.id = s.terminal[d].id /\ t.user[d] \in {r.a, r.b}
    <3>1. d # c
      BY <1>4, <2>1
    <3> QED BY <1>2, <1>3, <2>1, <3>1 DEF Promised
  <2> QED BY <1>3, <2>1 DEF Promised
<1>16. Offered(t)
  <2>1. ASSUME NEW r \in s.rematches, NEW v \in {r.a, r.b} PROVE Answered(t, r, v)
    <3>1. t.online[v] = s.online[v]
      BY <1>2, <1>6 DEF Playable
    <3>2. Answered(s, r, v)
      BY <1>2 DEF Offered
    <3> QED BY <1>3, <3>1, <3>2 DEF Answered
  <2> QED BY <1>3, <2>1 DEF Offered
<1>17. Challenged(t)
  <2>1. \A a, b : BlockEachOther(t, a, b) <=> BlockEachOther(s, a, b)
    BY <1>3 DEF BlockEachOther
  <2> QED BY <1>2, <1>3, <1>6, <2>1 DEF Challenged
<1> QED
  BY <1>2, <1>3, <1>8, <1>9, <1>10, <1>11, <1>12, <1>13, <1>14, <1>15, <1>16, <1>17
     DEF ServerInv

LEMMA LoginCarries ==
    ASSUME ServerInv(srv), NEW c \in Client, NEW u \in User, Login(c, u)
    PROVE  Carries(srv, srv')
<1> DEFINE d == srv.online[u]
           s == IF Online(srv, u) THEN DestroyClient(srv, d) ELSE srv
           U == [s.user EXCEPT ![c] = u]
           o == [s.online EXCEPT ![u] = c]
           f == [s.manifest EXCEPT ![c].maps = Map]
<1>1. /\ srv \in Server /\ srv.online \in [User -> Client \cup {NoClient}]
      /\ c \in srv.clients /\ srv.user[c] = Nobody /\ Presence(srv)
  BY Fields DEF ServerInv, Login
<1>2. srv' = [s EXCEPT !.user[c] = u, !.online[u] = c, !.manifest[c].maps = Map]
  BY DEF Login
<1>3. srv' = WithLogon(s, U, o, f)
  BY <1>2 DEF WithLogon
<1>4. /\ ServerInv(s) /\ SameRun(srv, s) /\ Moves(srv, s)
      /\ c \in s.clients /\ s.user[c] = Nobody /\ s.online[u] = NoClient
  <2>1. CASE Online(srv, u)
    <3>1. d \in Client /\ srv.user[d] = u /\ d # c
      BY <1>1, <2>1, ServerAssumption DEF Online, Presence
    <3>2. s = DestroyClient(srv, d)
      BY <2>1
    <3> HIDE DEF d, s
    <3>3. ServerInv(s) /\ SameRun(srv, s) /\ Off(srv, s, d) /\ Moves(srv, s)
      BY <3>1, <3>2, DestroyKeeps
    <3> QED BY <1>1, <3>1, <3>3 DEF Off, d
  <2>2. CASE ~ Online(srv, u)
    <3>1. s = srv /\ srv.online[u] = NoClient
      BY <2>2 DEF Online
    <3> QED BY <1>1, <3>1 DEF SameRun, Moves, StepOf
  <2> QED BY <2>1, <2>2
<1> HIDE DEF s, d
<1>5. /\ s \in Server /\ s.user \in [Client -> UserOr]
      /\ s.online \in [User -> Client \cup {NoClient}] /\ s.manifest \in [Client -> Manifest]
  BY <1>4, Fields DEF ServerInv
<1>6. /\ U \in [Client -> UserOr] /\ U[c] = u
      /\ \A e \in Client \ {c} : U[e] = s.user[e]
  BY <1>5 DEF UserOr
<1>7. /\ o \in [User -> Client \cup {NoClient}] /\ o[u] = c
      /\ \A v \in User \ {u} : o[v] = s.online[v]
  BY <1>5
<1>8. f \in [Client -> Manifest]
  BY <1>5 DEF Manifest
<1> HIDE DEF U, o, f
<1>9. /\ srv' \in Server /\ srv'.user = U /\ srv'.online = o /\ srv'.clients = s.clients
      /\ srv'.verified = s.verified /\ SameFriends(s, srv')
      /\ SameRun(s, srv') /\ SameRecords(s, srv') /\ SameQueues(s, srv')
      /\ srv'.matchOf = s.matchOf /\ srv'.terminal = s.terminal
      /\ srv'.rematches = s.rematches /\ srv'.challenges = s.challenges
  BY <1>3, <1>5, <1>6, <1>7, <1>8, SetLogon
<1>10. SignsIn(s, srv', c, u)
  BY <1>4, <1>6, <1>7, <1>9 DEF SignsIn
<1>11. ServerInv(srv')
  BY <1>4, <1>9, <1>10, SignInKeeps
<1>12. Moves(srv, srv')
  BY <1>4, <1>9 DEF Moves, SameRun, SameRecords
<1> QED BY <1>11, <1>12 DEF Carries

-----------------------------------------------------------------------------
(* Queues and challenges. *)

LEMMA AppendJoins ==
    ASSUME NEW q \in Seq(Client), Once(q), NEW c \in Client, ~ In(q, c),
           NEW p, p = Append(q, c)
    PROVE  /\ p \in Seq(Client) /\ Once(p)
           /\ \A d : In(p, d) <=> In(q, d) \/ d = c
<1>1. /\ p \in Seq(Client) /\ Len(p) = Len(q) + 1 /\ p[Len(q) + 1] = c
      /\ \A i \in 1 .. Len(q) : p[i] = q[i]
  OBVIOUS
<1>2. Len(q) \in Nat
  OBVIOUS
<1>3. Once(p)
  <2>1. \A i \in 1 .. Len(q) : q[i] # c
    BY DEF In
  <2>2. ASSUME NEW i \in 1 .. Len(p), NEW j \in 1 .. Len(p), p[i] = p[j]
        PROVE  i = j
    <3>1. CASE i \in 1 .. Len(q) /\ j \in 1 .. Len(q)
      BY <1>1, <2>2, <3>1 DEF Once
    <3>2. CASE i = Len(q) + 1 \/ j = Len(q) + 1
      BY <1>1, <1>2, <2>1, <2>2, <3>2
    <3> QED BY <1>1, <1>2, <3>1, <3>2
  <2> QED BY <2>2 DEF Once
<1>4. ASSUME NEW d PROVE In(p, d) <=> In(q, d) \/ d = c
  <2>1. In(q, d) => In(p, d)
    BY <1>1, <1>2 DEF In
  <2>2. In(p, c)
    <3>1. Len(q) + 1 \in 1 .. Len(p)
      BY <1>1, <1>2
    <3> QED BY <1>1, <3>1 DEF In
  <2>3. ASSUME In(p, d), d # c PROVE In(q, d)
    <3>1. PICK i \in 1 .. Len(p) : p[i] = d
      BY <2>3 DEF In
    <3>2. i \in 1 .. Len(q)
      BY <1>1, <1>2, <2>3, <3>1
    <3> QED BY <1>1, <3>1, <3>2 DEF In
  <2> QED BY <2>1, <2>2, <2>3
<1> QED BY <1>1, <1>3, <1>4

\* Queues q and p are those of s, with c in one of them.
Joined(s, q, p, c) ==
    /\ Once(q) /\ Once(p)
    /\ \A d \in Client : (In(q, d) \/ In(p, d)) =>
        In(s.casual, d) \/ In(s.competitive, d) \/ d = c
    /\ \A d \in Client : ~ (In(q, d) /\ In(p, d))

\* A client that is in nothing.
MayQueue(s, c) ==
    /\ s.user[c] # Nobody /\ s.matchOf[c] = 0
    /\ ~ In(s.casual, c) /\ ~ In(s.competitive, c)
    /\ \A r \in s.rematches : s.user[c] \notin {r.a, r.b}

LEMMA QueueKeeps ==
    ASSUME NEW s, ServerInv(s), NEW c \in Client, MayQueue(s, c),
           NEW q \in Seq(Client), NEW p \in Seq(Client), Joined(s, q, p, c),
           NEW t, t = WithQueues(s, q, p)
    PROVE  ServerInv(t) /\ SameRun(s, t) /\ SameRecords(s, t)
<1>1. s \in Server /\ s.online \in [User -> Client \cup {NoClient}]
  BY Fields DEF ServerInv
<1>2. /\ t \in Server /\ t.casual = q /\ t.competitive = p
      /\ SameRun(s, t) /\ SamePeople(s, t) /\ SameProofs(s, t) /\ SameFriends(s, t)
      /\ SameRecords(s, t) /\ t.matchOf = s.matchOf /\ t.terminal = s.terminal
      /\ t.rematches = s.rematches /\ t.challenges = s.challenges
  BY <1>1, SetQueues
<1> USE <1>2 DEF SameRun, SamePeople, SameProofs, SameFriends, SameRecords
<1>3. Presence(t) /\ Blank(t)
  BY DEF ServerInv, Presence, Blank
<1>4. Waiting(t)
  <2>1. ASSUME NEW d \in Client, In(q, d) \/ In(p, d)
        PROVE  s.user[d] # Nobody /\ s.matchOf[d] = 0
    <3>1. In(s.casual, d) \/ In(s.competitive, d) \/ d = c
      BY <2>1 DEF Joined
    <3> QED BY <3>1 DEF ServerInv, Waiting, MayQueue
  <2> QED BY <2>1 DEF Waiting, Joined
<1>5. Bound(t)
  BY BoundKept DEF ServerInv
<1>6. Records(t) /\ Answers(t)
  BY DEF ServerInv, Records, Answers
<1>7. Identified(t)
  BY DEF ServerInv, Identified, Active, Players
<1>8. OfferNames(t) /\ Promised(t) /\ Offered(t)
  BY OfferedKept DEF ServerInv, OfferNames
<1>9. Playable(t)
  <2>1. ASSUME NEW r \in s.rematches, NEW u \in {r.a, r.b}
        PROVE  /\ Online(s, u) /\ s.matchOf[s.online[u]] = 0
               /\ ~ In(q, s.online[u]) /\ ~ In(p, s.online[u])
    <3>1. /\ Online(s, u) /\ s.matchOf[s.online[u]] = 0
          /\ ~ In(s.casual, s.online[u]) /\ ~ In(s.competitive, s.online[u])
      BY DEF ServerInv, Playable
    <3>2. s.online[u] \in Client /\ s.user[s.online[u]] = u
      BY <1>1, <3>1 DEF Online, ServerInv, Presence
    <3>3. s.online[u] # c
      BY <3>2 DEF MayQueue
    <3> QED BY <3>1, <3>2, <3>3 DEF Joined
  <2>2. \A r \in s.rematches : ~ BlockEachOther(t, r.a, r.b)
    BY DEF ServerInv, Playable, BlockEachOther
  <2> QED BY <2>1, <2>2 DEF Playable, Online
<1>10. Challenged(t) /\ Befriended(t) /\ ~ t.hung
  BY DEF ServerInv, Challenged, Befriended, Online, BlockEachOther
<1>11. ServerInv(t)
  BY <1>3, <1>4, <1>5, <1>6, <1>7, <1>8, <1>9, <1>10 DEF ServerInv
<1> QED BY <1>11

\* What is left of a rematch offer, or of what a client waits for, before it queues.
LEMMA ReadyToQueue ==
    ASSUME NEW s, ServerInv(s), NEW c \in Client, LoggedIn(s, c),
           ~ (s.matchOf[c] # 0 /\ Active(s, s.matchOf[c])),
           NEW t, t = [RemoveFromQueues(CloseRematches(s, RematchesOf(s, s.user[c])), c)
                        EXCEPT !.matchOf[c] = 0]
    PROVE  /\ ServerInv(t) /\ SameRun(s, t) /\ SameRecords(s, t)
           /\ MayQueue(t, c)
<1> DEFINE R == RematchesOf(s, s.user[c])
           p == CloseRematches(s, R)
           q == RemoveFromQueues(p, c)
<1>1. \A r \in s.rematches \ R : s.user[c] \notin {r.a, r.b}
  BY DEF RematchesOf
<1>2. t = [q EXCEPT !.matchOf[c] = 0] /\ q = RemoveFromQueues(p, c)
      /\ p = CloseRematches(s, R)
  OBVIOUS
<1> HIDE DEF R, p, q
<1>3. ServerInv(p) /\ p.rematches = s.rematches \ R /\ SamePeople(s, p)
      /\ SameRun(s, p) /\ SameRecords(s, p) /\ p.matchOf = s.matchOf
  <2>1. s \in Server
    BY DEF ServerInv
  <2> QED BY <1>2, <2>1, CloseEffect, CloseKeeps
<1>4. ServerInv(q) /\ q.rematches = p.rematches /\ SamePeople(p, q) /\ Leaves(p, q, c)
      /\ SameRun(p, q) /\ SameRecords(p, q) /\ q.matchOf = p.matchOf
  BY <1>2, <1>3, RemoveKeeps
<1>5. q.matchOf[c] = 0 /\ s.user[c] # Nobody
  BY <1>3, <1>4 DEF ServerInv, Bound, LoggedIn
<1>6. q.matchOf \in [Client -> 0 .. MaxMatch] /\ q \in Server
  BY <1>4, Fields DEF ServerInv
<1>7. t = q
  <2>1. [q.matchOf EXCEPT ![c] = 0] = q.matchOf
    BY <1>5, <1>6
  <2>2. [q EXCEPT !.matchOf = q.matchOf] = q
    BY <1>6 DEF Server
  <2> QED BY <1>2, <2>1, <2>2
<1> QED BY <1>1, <1>3, <1>4, <1>5, <1>7 DEF SameRun, SameRecords, SamePeople, Leaves, MayQueue

LEMMA JoinQueueCarries ==
    ASSUME ServerInv(srv), NEW c \in Client, NEW ranked \in BOOLEAN, JoinQueue(c, ranked)
    PROVE  Carries(srv, srv')
<1> DEFINE t == [RemoveFromQueues(CloseRematches(srv, RematchesOf(srv, srv.user[c])), c)
                  EXCEPT !.matchOf[c] = 0]
           q == IF ranked THEN t.casual ELSE Append(t.casual, c)
           p == IF ranked THEN Append(t.competitive, c) ELSE t.competitive
           x == WithQueues(t, q, p)
<1>1. Becomes(IF ranked THEN [t EXCEPT !.competitive = Append(t.competitive, c)]
              ELSE [t EXCEPT !.casual = Append(t.casual, c)])
  BY DEF JoinQueue
<1>2. LoggedIn(srv, c) /\ ~ (srv.matchOf[c] # 0 /\ Active(srv, srv.matchOf[c]))
  BY DEF JoinQueue, Receives
<1>3. t = [RemoveFromQueues(CloseRematches(srv, RematchesOf(srv, srv.user[c])), c)
            EXCEPT !.matchOf[c] = 0]
  OBVIOUS
<1> HIDE DEF t
<1>4. /\ ServerInv(t) /\ SameRun(srv, t) /\ SameRecords(srv, t)
      /\ MayQueue(t, c) /\ ~ In(t.casual, c) /\ ~ In(t.competitive, c)
  BY <1>2, <1>3, ReadyToQueue DEF MayQueue
<1>5. /\ t \in Server /\ t.casual \in Seq(Client) /\ t.competitive \in Seq(Client)
      /\ Waiting(t) /\ Once(t.casual) /\ Once(t.competitive)
  BY <1>4, Fields DEF ServerInv, Waiting
<1>6. Becomes(x)
  <2>1. (IF ranked THEN [t EXCEPT !.competitive = Append(t.competitive, c)]
         ELSE [t EXCEPT !.casual = Append(t.casual, c)]) = x
    BY <1>5 DEF WithQueues, Server
  <2> QED BY <1>1, <2>1
<1>7. q \in Seq(Client) /\ p \in Seq(Client) /\ Joined(t, q, p, c)
  <2>1. CASE ranked
    <3> DEFINE g == Append(t.competitive, c)
    <3>1. g \in Seq(Client) /\ Once(g) /\ \A d : In(g, d) <=> In(t.competitive, d) \/ d = c
      BY <1>4, <1>5, AppendJoins
    <3>2. q = t.casual /\ p = g
      BY <2>1
    <3> HIDE DEF g, q, p
    <3> QED BY <1>4, <1>5, <3>1, <3>2 DEF Joined, Waiting
  <2>2. CASE ~ ranked
    <3> DEFINE g == Append(t.casual, c)
    <3>1. g \in Seq(Client) /\ Once(g) /\ \A d : In(g, d) <=> In(t.casual, d) \/ d = c
      BY <1>4, <1>5, AppendJoins
    <3>2. q = g /\ p = t.competitive
      BY <2>2
    <3> HIDE DEF g, q, p
    <3> QED BY <1>4, <1>5, <3>1, <3>2 DEF Joined, Waiting
  <2> QED BY <2>1, <2>2
<1>8. x = WithQueues(t, q, p)
  OBVIOUS
<1> HIDE DEF q, p, x
<1>9. ServerInv(x) /\ SameRun(t, x) /\ SameRecords(t, x)
  BY <1>4, <1>7, <1>8, QueueKeeps
<1>10. ServerInv(srv') /\ MayStart(x, srv')
  BY <1>6, <1>9, BecomesKeeps
<1> QED BY <1>4, <1>9, <1>10, StartsCarry DEF SameRun, SameRecords

LEMMA ChallengesCarry ==
    ASSUME ServerInv(srv), NEW H \in SUBSET Offer,
           \A h \in H : \/ h \in srv.challenges
                        \/ /\ h.from # h.to /\ Online(srv, h.from) /\ Online(srv, h.to)
                           /\ ~ BlockEachOther(srv, h.from, h.to),
           srv' = WithChallenges(srv, H)
    PROVE  Carries(srv, srv')
<1>1. ServerInv(srv') /\ SameRun(srv, srv') /\ SameRecords(srv, srv')
  BY ChallengesKeep
<1> QED BY <1>1, StillCarries DEF SameRecords

\* A friend is challenged.
LEMMA ChallengeCarries ==
    ASSUME ServerInv(srv), NEW c \in Client, NEW v \in User, NEW map \in Map,
           Challenge(c, v, map)
    PROVE  Carries(srv, srv')
<1> DEFINE u == srv.user[c]
           x == [from |-> u, to |-> v, map |-> map, expired |-> FALSE]
           H == srv.challenges \cup {x}
<1>1. srv' = WithChallenges(srv, H)
  BY DEF Challenge, WithChallenges
<1>2. u \in User /\ srv.online[u] = c /\ Online(srv, u)
  <2>1. u \in User /\ srv.online[u] = c
    BY IsUser DEF Challenge, Receives
  <2> QED BY <2>1, ServerAssumption DEF Online
<1>3. u # v /\ Online(srv, v) /\ ~ BlockEachOther(srv, u, v)
  <2>1. <<u, v>> \in srv.friends
    BY DEF Challenge
  <2> QED BY <1>2, <2>1 DEF Challenge, ServerInv, Befriended
<1>4. x \in Offer /\ x.from = u /\ x.to = v
  BY <1>2 DEF Offer
<1>5. srv.challenges \subseteq Offer
  BY Fields DEF ServerInv
<1> HIDE DEF x, u
<1>6. H \in SUBSET Offer
  BY <1>4, <1>5
<1>7. \A h \in H : \/ h \in srv.challenges
                   \/ /\ h.from # h.to /\ Online(srv, h.from) /\ Online(srv, h.to)
                      /\ ~ BlockEachOther(srv, h.from, h.to)
  BY <1>2, <1>3, <1>4
<1> HIDE DEF H
<1> QED BY <1>1, <1>6, <1>7, ChallengesCarry

\* A challenge is declined, or dropped.
LEMMA DropCarries ==
    ASSUME ServerInv(srv), NEW h, srv' = [srv EXCEPT !.challenges = srv.challenges \ {h}]
    PROVE  Carries(srv, srv')
<1> DEFINE H == srv.challenges \ {h}
<1>1. srv' = WithChallenges(srv, H)
  BY DEF WithChallenges
<1>2. H \in SUBSET Offer /\ \A g \in H : g \in srv.challenges
  BY Fields DEF ServerInv
<1> HIDE DEF H
<1> QED BY <1>1, <1>2, ChallengesCarry

LEMMA ChallengeLapsesCarries ==
    ASSUME ServerInv(srv), NEW h \in srv.challenges, ChallengeLapses(h)
    PROVE  Carries(srv, srv')
<1> DEFINE x == [h EXCEPT !.expired = TRUE]
           H == (srv.challenges \ {h}) \cup {x}
<1>1. srv' = WithChallenges(srv, H)
  BY DEF ChallengeLapses, WithChallenges
<1>2. srv.challenges \subseteq Offer
  BY Fields DEF ServerInv
<1>3. x \in Offer /\ x.from = h.from /\ x.to = h.to
  BY <1>2 DEF Offer
<1> HIDE DEF x
<1>4. /\ h.from # h.to /\ Online(srv, h.from) /\ Online(srv, h.to)
      /\ ~ BlockEachOther(srv, h.from, h.to)
  BY DEF ServerInv, Challenged
<1>5. H \in SUBSET Offer
  BY <1>2, <1>3
<1>6. \A g \in H : \/ g \in srv.challenges
                   \/ /\ g.from # g.to /\ Online(srv, g.from) /\ Online(srv, g.to)
                      /\ ~ BlockEachOther(srv, g.from, g.to)
  BY <1>3, <1>4
<1> HIDE DEF H
<1> QED BY <1>1, <1>5, <1>6, ChallengesCarry

\* A match begins after something no match depends on has changed.
LEMMA BeginsCarry ==
    ASSUME NEW s, NEW x, SameRun(s, x), SameRecords(s, x), NEW m,
           NEW t, ServerInv(t), Starts(x, t, m), SameRun(x, t)
    PROVE  Carries(s, t)
<1>1. t.traffic = s.traffic /\ x.match = s.match
  BY DEF SameRun, SameRecords
<1>2. ASSUME NEW n \in MatchId PROVE StepOf(s.match[n], t.match[n])
  BY <1>1 DEF Starts, StepOf, Begins
<1> QED BY <1>1, <1>2 DEF Carries, Moves

LEMMA ChallengeAcceptCarries ==
    ASSUME ServerInv(srv), NEW c \in Client, NEW h \in srv.challenges, ChallengeAccept(c, h)
    PROVE  Carries(srv, srv')
<1> DEFINE d == srv.online[h.from]
           H == srv.challenges \ {h}
           dropped == [srv EXCEPT !.challenges = H]
           no == FALSE
<1>1. srv' = dropped \/ (Room(srv) /\ srv.matchOf[c] = 0 /\ srv.matchOf[d] = 0
                          /\ srv' = MakeMatch(dropped, d, c, no, h.map))
  BY DEF ChallengeAccept
<1>2. CASE srv' = dropped
  BY <1>2, DropCarries
<1>3. CASE /\ Room(srv) /\ srv.matchOf[c] = 0 /\ srv.matchOf[d] = 0
           /\ srv' = MakeMatch(dropped, d, c, no, h.map)
  <2>1. h \in Offer /\ srv.challenges \subseteq Offer
        /\ srv.online \in [User -> Client \cup {NoClient}]
    BY Fields DEF ServerInv
  <2>2. /\ h.from # h.to /\ Online(srv, h.from) /\ h.map \in Map
        /\ h.to = srv.user[c] /\ h.from \in User /\ h.to \in User
    BY <2>1 DEF ServerInv, Challenged, ChallengeAccept, Offer
  <2>3. d \in Client /\ srv.user[d] = h.from /\ d # c
    BY <2>1, <2>2 DEF ServerInv, Presence, Online
  <2>4. dropped = WithChallenges(srv, H) /\ no \in BOOLEAN
    BY DEF WithChallenges
  <2>5. H \in SUBSET Offer /\ \A g \in H : g \in srv.challenges
    BY <2>1
  <2> HIDE DEF dropped, H, no, d
  <2>6. /\ ServerInv(dropped) /\ SameRun(srv, dropped) /\ SamePeople(srv, dropped)
        /\ SameRecords(srv, dropped) /\ dropped.matchOf = srv.matchOf
    BY <2>4, <2>5, ChallengesKeep
  <2>7. Free(dropped, d, c)
    <3>1. Room(dropped)
      BY <1>3, <2>6 DEF Room, SameRun, SameRecords
    <3>2. h.from # Nobody /\ h.to # Nobody
      BY <2>2, ServerAssumption
    <3> QED BY <1>3, <2>2, <2>3, <2>6, <3>1, <3>2 DEF Free, SamePeople
  <2>8. ServerInv(srv') /\ Starts(dropped, srv', dropped.next) /\ SameRun(dropped, srv')
    BY <1>3, <2>2, <2>3, <2>4, <2>6, <2>7, MakeKeeps
  <2> QED BY <2>6, <2>8, BeginsCarry
<1> QED BY <1>1, <1>2, <1>3

-----------------------------------------------------------------------------
(* Rematches. *)

\* An offer is replaced by itself, accepted or expired.
LEMMA RenewKeeps ==
    ASSUME NEW s, ServerInv(s), NEW r \in s.rematches, NEW q \in Rematch,
           q.id = r.id, q.a = r.a, q.b = r.b, ~ q.expired => ~ r.expired,
           NEW R, R = (s.rematches \ {r}) \cup {q}, NEW t, t = WithRematches(s, R)
    PROVE  ServerInv(t) /\ Carries(s, t)
<1>1. s \in Server /\ s.rematches \subseteq Rematch
  BY Fields DEF ServerInv
<1>2. R \in SUBSET Rematch
  BY <1>1
<1>3. /\ t \in Server /\ t.rematches = R
      /\ SameRun(s, t) /\ SamePeople(s, t) /\ SameProofs(s, t) /\ SameFriends(s, t)
      /\ SameRecords(s, t) /\ SameQueues(s, t) /\ t.matchOf = s.matchOf
      /\ t.terminal = s.terminal /\ t.challenges = s.challenges
  BY <1>1, <1>2, SetRematches
<1> USE <1>3 DEF SameRun, SamePeople, SameProofs, SameFriends, SameRecords, SameQueues
<1>4. /\ \A x \in R : x = q \/ (x \in s.rematches /\ x # r)
      /\ \A x \in s.rematches : x = r \/ x \in R
      /\ q \in R
  OBVIOUS
<1>5. Presence(t) /\ Blank(t)
  BY DEF ServerInv, Presence, Blank
<1>6. Waiting(t)
  BY DEF ServerInv, Waiting
<1>7. Bound(t)
  BY BoundKept DEF ServerInv
<1>8. Records(t) /\ Answers(t)
  BY DEF ServerInv, Records, Answers
<1>9. Identified(t)
  BY DEF ServerInv, Identified, Active, Players
<1>10. OfferNames(t)
  <2>1. OfferNames(s)
    BY DEF ServerInv
  <2>2. \A x \in R : /\ x.a # x.b /\ t.match[x.id].phase = "ended"
                     /\ t.match[x.id].a = x.a /\ t.match[x.id].b = x.b
    BY <1>4, <2>1 DEF OfferNames
  <2>3. \A x, y \in R : x.id = y.id => x = y
    BY <1>4, <2>1 DEF OfferNames
  <2> HIDE <1>3
  <2>4. t.rematches = R
    BY <1>3
  <2> QED BY <2>2, <2>3, <2>4 DEF OfferNames
<1>11. Playable(t)
  <2>1. \A x \in R : \E y \in s.rematches : x.a = y.a /\ x.b = y.b
    BY <1>4
  <2>2. ASSUME NEW x \in R
        PROVE  /\ ~ BlockEachOther(t, x.a, x.b)
               /\ \A u \in {x.a, x.b} :
                     /\ Online(t, u) /\ t.matchOf[t.online[u]] = 0
                     /\ ~ In(t.casual, t.online[u]) /\ ~ In(t.competitive, t.online[u])
    <3>1. PICK y \in s.rematches : x.a = y.a /\ x.b = y.b
      BY <2>1
    <3>2. /\ ~ BlockEachOther(s, y.a, y.b)
          /\ \A u \in {y.a, y.b} :
                /\ Online(s, u) /\ s.matchOf[s.online[u]] = 0
                /\ ~ In(s.casual, s.online[u]) /\ ~ In(s.competitive, s.online[u])
      BY DEF ServerInv, Playable
    <3> QED BY <3>1, <3>2 DEF BlockEachOther, Online
  <2> QED BY <2>2 DEF Playable
<1>12. Promised(t)
  <2>1. \A x \in s.rematches : \E y \in R : y.id = x.id /\ y.a = x.a /\ y.b = x.b
    BY <1>4
  <2>2. ASSUME NEW c \in Client, t.terminal[c].rematch
        PROVE  \E y \in t.rematches : y.id = t.terminal[c].id /\ t.user[c] \in {y.a, y.b}
    <3>1. s.terminal[c].rematch
      BY <2>2
    <3>2. PICK x \in s.rematches : x.id = s.terminal[c].id /\ s.user[c] \in {x.a, x.b}
      BY <3>1 DEF ServerInv, Promised
    <3>3. PICK y \in R : y.id = x.id /\ y.a = x.a /\ y.b = x.b
      BY <2>1
    <3> QED BY <3>2, <3>3
  <2> HIDE <1>3
  <2> QED BY <2>2 DEF Promised
<1>13. Offered(t)
  <2>1. ASSUME NEW x \in R, NEW u \in {x.a, x.b} PROVE Answered(t, x, u)
    <3>1. CASE x = q
      <4>1. Answered(s, r, u)
        BY <3>1 DEF ServerInv, Offered
      <4> QED BY <3>1, <4>1 DEF Answered
    <3>2. CASE x \in s.rematches
      <4>1. Answered(s, x, u)
        BY <3>2 DEF ServerInv, Offered
      <4> QED BY <4>1 DEF Answered
    <3> QED BY <1>4, <3>1, <3>2
  <2> QED BY <2>1 DEF Offered
<1>14. Challenged(t) /\ Befriended(t) /\ ~ t.hung
  BY DEF ServerInv, Challenged, Befriended, Online, BlockEachOther
<1>15. ServerInv(t)
  BY <1>5, <1>6, <1>7, <1>8, <1>9, <1>10, <1>11, <1>12, <1>13, <1>14 DEF ServerInv
<1> QED BY <1>15, StillCarries

LEMMA RematchLapsesCarries ==
    ASSUME ServerInv(srv), NEW r \in srv.rematches, RematchLapses(r)
    PROVE  Carries(srv, srv')
<1> DEFINE q == [r EXCEPT !.expired = TRUE]
           R == (srv.rematches \ {r}) \cup {q}
<1>1. r \in Rematch
  BY Fields DEF ServerInv
<1>2. q \in Rematch /\ q.id = r.id /\ q.a = r.a /\ q.b = r.b /\ q.expired
  BY <1>1 DEF Rematch
<1>3. srv' = WithRematches(srv, R) /\ R = (srv.rematches \ {r}) \cup {q}
  BY DEF RematchLapses, WithRematches
<1> HIDE DEF q, R
<1> QED BY <1>2, <1>3, RenewKeeps

\* Offers are closed.
LEMMA CloseCarries ==
    ASSUME NEW s, ServerInv(s), NEW R, NEW t, t = CloseRematches(s, R)
    PROVE  /\ ServerInv(t) /\ Carries(s, t) /\ SameRun(s, t) /\ SamePeople(s, t)
           /\ SameRecords(s, t) /\ t.matchOf = s.matchOf
<1>1. s \in Server
  BY DEF ServerInv
<1>2. ServerInv(t) /\ SameRun(s, t) /\ SamePeople(s, t) /\ SameRecords(s, t)
      /\ t.matchOf = s.matchOf
  BY <1>1, CloseEffect, CloseKeeps
<1> QED BY <1>2, StillCarries DEF SameRecords

LEMMA RematchRequestCarries ==
    ASSUME ServerInv(srv), NEW c \in Client, NEW r \in srv.rematches, RematchRequest(c, r)
    PROVE  Carries(srv, srv')
<1> DEFINE u == srv.user[c]
           v == IF u = r.a THEN r.b ELSE r.a
           d == srv.online[v]
           S == {r}
           closed == CloseRematches(srv, S)
           q == [r EXCEPT !.accepted = r.accepted \cup {u}]
           R == (srv.rematches \ {r}) \cup {q}
           no == FALSE
<1>1. \/ srv' = closed
      \/ srv' = [srv EXCEPT !.rematches = R]
      \/ /\ Online(srv, v) /\ Room(srv) /\ srv.matchOf[c] = 0 /\ srv.matchOf[d] = 0
         /\ r.map \in SharedMaps(srv, c, d, FALSE)
         /\ srv' = MakeMatch(closed, c, d, no, r.map)
  BY DEF RematchRequest
<1>2. r \in Rematch /\ u \in {r.a, r.b} /\ r.a # r.b
      /\ srv.online \in [User -> Client \cup {NoClient}]
  BY Fields DEF ServerInv, RematchRequest, OfferNames
<1>3. u \in User /\ v \in User /\ u # v
  BY <1>2 DEF Rematch
<1>4. closed = CloseRematches(srv, S)
  OBVIOUS
<1> HIDE DEF closed, S
<1>5. /\ ServerInv(closed) /\ Carries(srv, closed) /\ SameRun(srv, closed)
      /\ SamePeople(srv, closed) /\ SameRecords(srv, closed) /\ closed.matchOf = srv.matchOf
  BY <1>4, CloseCarries
<1>6. CASE srv' = closed
  BY <1>5, <1>6
<1>7. CASE srv' = [srv EXCEPT !.rematches = R]
  <2>1. srv' = WithRematches(srv, R) /\ R = (srv.rematches \ {r}) \cup {q}
    BY <1>7 DEF WithRematches
  <2>2. r.accepted \cup {u} \in SUBSET User
    BY <1>2, <1>3 DEF Rematch
  <2>3. q \in Rematch /\ q.id = r.id /\ q.a = r.a /\ q.b = r.b /\ (q.expired <=> r.expired)
    <3> DEFINE A == r.accepted \cup {u}
    <3>1. q = [r EXCEPT !.accepted = A] /\ A \in SUBSET User
      BY <2>2
    <3> HIDE DEF A, q, u
    <3> QED BY <1>2, <3>1 DEF Rematch
  <2> HIDE DEF q, R
  <2> QED BY <2>1, <2>3, RenewKeeps
<1>8. CASE /\ Online(srv, v) /\ Room(srv) /\ srv.matchOf[c] = 0 /\ srv.matchOf[d] = 0
           /\ r.map \in SharedMaps(srv, c, d, FALSE)
           /\ srv' = MakeMatch(closed, c, d, no, r.map)
  <2>1. r.map \in Map
    BY <1>8, ServerAssumption DEF SharedMaps
  <2>2. d \in Client /\ srv.user[d] = v /\ d # c
    BY <1>2, <1>3, <1>8 DEF ServerInv, Presence, Online
  <2>3. no \in BOOLEAN /\ u = srv.user[c]
    OBVIOUS
  <2> HIDE DEF u, v, d, no
  <2>4. Free(closed, c, d)
    <3>1. Room(closed)
      BY <1>5, <1>8 DEF Room, SameRun, SameRecords
    <3>2. u # Nobody /\ v # Nobody
      BY <1>3, ServerAssumption
    <3> QED BY <1>5, <1>8, <2>2, <2>3, <3>1, <3>2 DEF Free, SamePeople
  <2>5. ServerInv(srv') /\ Starts(closed, srv', closed.next) /\ SameRun(closed, srv')
    BY <1>5, <1>8, <2>1, <2>2, <2>3, <2>4, MakeKeeps
  <2> QED BY <1>5, <2>5, BeginsCarry
<1> QED BY <1>1, <1>6, <1>7, <1>8

\* The sweep: what has lapsed goes, and the queues are looked at again.
LEMMA SweepCarries ==
    ASSUME ServerInv(srv), Sweep
    PROVE  Carries(srv, srv')
<1> DEFINE R == {r \in srv.rematches : r.expired}
           H == {h \in srv.challenges : ~ h.expired}
           x == WithChallenges(srv, H)
           y == CancelStale(x)
           z == CloseRematches(y, R)
<1>1. Becomes(z)
  BY DEF Sweep, WithChallenges
<1>2. x = WithChallenges(srv, H) /\ y = CancelStale(x) /\ z = CloseRematches(y, R)
  OBVIOUS
<1>3. H \in SUBSET Offer /\ \A h \in H : h \in srv.challenges
  BY Fields DEF ServerInv
<1> HIDE DEF R, H, x, y, z
<1>4. ServerInv(x) /\ SameRun(srv, x) /\ SameRecords(srv, x)
  BY <1>2, <1>3, ChallengesKeep
<1>5. ServerInv(y) /\ MayVoid(x, y)
  BY <1>2, <1>4, CancelStaleKeeps
<1>6. ServerInv(z) /\ SameRun(y, z) /\ SameRecords(y, z)
  BY <1>2, <1>5, CloseCarries
<1>7. ServerInv(srv') /\ MayStart(z, srv')
  BY <1>1, <1>6, BecomesKeeps
<1>8. srv'.traffic = srv.traffic
  BY <1>4, <1>5, <1>6, <1>7 DEF SameRun, MayVoid, MayStart
<1>9. ASSUME NEW m \in MatchId PROVE StepOf(srv.match[m], srv'.match[m])
  <2>1. x.match = srv.match /\ z.match = y.match
    BY <1>4, <1>6 DEF SameRecords
  <2>2. CASE y.match[m] = x.match[m]
    BY <1>7, <2>1, <2>2 DEF MayStart, StepOf, Begins
  <2>3. CASE Active(x, m) /\ Settled(x.match[m], y.match[m])
    <3>1. x.match[m].winner = Nobody
      BY <1>4, <2>3, ActivePlayers
    <3>2. IsOver(x.match[m], y.match[m]) /\ y.match[m].phase = "ended"
      BY <2>3, <3>1 DEF IsOver, Settled, Active
    <3>3. srv'.match[m] = y.match[m]
      BY <1>7, <2>1, <3>2 DEF MayStart
    <3> QED BY <2>1, <3>2, <3>3 DEF StepOf
  <2> QED BY <1>5, <2>2, <2>3 DEF MayVoid
<1> QED BY <1>7, <1>8, <1>9 DEF Carries, Moves

-----------------------------------------------------------------------------
(* Matches. *)

\* What a client's message about its match finds.
LEMMA InMatchIs ==
    ASSUME NEW s, ServerInv(s), NEW c \in Client, NEW m \in MatchId,
           LoggedIn(s, c), s.matchOf[c] = m, Active(s, m)
    PROVE  /\ s.match[m] \in Match /\ Sound(s.match[m])
           /\ s.match[m].a \in User /\ s.match[m].b \in User /\ s.match[m].a # s.match[m].b
           /\ s.match[m].winner = Nobody /\ s.match[m].told = {} /\ s.match[m].rated = 0
           /\ s.user[c] \in {s.match[m].a, s.match[m].b}
           /\ Opponent(s, m, s.user[c]) \in {s.match[m].a, s.match[m].b}
           /\ Opponent(s, m, s.user[c]) # s.user[c]
<1>1. s.user[c] \in Players(s, m)
  BY DEF ServerInv, Bound, MatchId
<1> QED BY <1>1, ActivePlayers DEF Players, Opponent

\* A record moves on, and no match but its own.
LEMMA RecordCarries ==
    ASSUME NEW s, ServerInv(s), NEW m \in MatchId,
           NEW j \in Match, Sound(j), SameOutline(s.match[m], j), StepOf(s.match[m], j),
           NEW t, t = WithMatches(s, [s.match EXCEPT ![m] = j])
    PROVE  ServerInv(t) /\ Carries(s, t)
<1>1. /\ ServerInv(t) /\ t.match[m] = j /\ SameRun(s, t)
      /\ \A n \in MatchId \ {m} : t.match[n] = s.match[n]
  BY RecordKeeps
<1>2. Moves(s, t)
  BY <1>1 DEF Moves, StepOf, SameRun
<1> QED BY <1>1, <1>2 DEF Carries

\* The match is over after its record was changed.
LEMMA VoidCarries ==
    ASSUME NEW s, ServerInv(s), NEW m \in MatchId, Active(s, m),
           NEW x, ServerInv(x), SameRun(s, x), Active(x, m),
           x.match[m].a = s.match[m].a, x.match[m].b = s.match[m].b,
           s.match[m].conceded \subseteq x.match[m].conceded,
           \A n \in MatchId \ {m} : x.match[n] = s.match[n],
           NEW t, t = CancelMatch(x, m)
    PROVE  Carries(s, t)
<1>1. ServerInv(t) /\ Voids(x, t, m)
  BY CancelKeeps
<1>2. x.match[m].winner = Nobody
  BY ActivePlayers
<1>3. IsOver(s.match[m], t.match[m])
  BY <1>1, <1>2 DEF Voids, Settled, IsOver, Active
<1>4. \A n \in MatchId \ {m} : t.match[n] = s.match[n]
  BY <1>1 DEF Voids
<1>5. t.traffic = s.traffic
  BY <1>1 DEF Voids, SameRun
<1> QED BY <1>1, <1>3, <1>4, <1>5 DEF Carries, Moves, StepOf

LEMMA WinCarries ==
    ASSUME NEW s, ServerInv(s), NEW m \in MatchId, s.match[m].phase = "playing",
           NEW x, ServerInv(x), SameRun(s, x), x.match[m].phase = "playing",
           x.match[m].a = s.match[m].a, x.match[m].b = s.match[m].b,
           s.match[m].conceded \subseteq x.match[m].conceded,
           \A n \in MatchId \ {m} : x.match[n] = s.match[n],
           NEW w \in Players(x, m), \E l \in x.match[m].conceded : l # w,
           NEW t, t = FinishMatch(x, m, w)
    PROVE  Carries(s, t)
<1>1. ServerInv(t) /\ Wins(x, t, m, w)
  BY FinishKeeps
<1>2. IsOver(s.match[m], t.match[m])
  BY <1>1 DEF Wins, IsOver
<1>3. \A n \in MatchId \ {m} : t.match[n] = s.match[n]
  BY <1>1 DEF Wins
<1>4. t.traffic = s.traffic
  BY <1>1 DEF Wins, SameRun
<1> QED BY <1>1, <1>2, <1>3, <1>4 DEF Carries, Moves, StepOf

\* A setup is called off by whatever is said of it.
LEMMA SetupCarries ==
    ASSUME ServerInv(srv), NEW m \in MatchId, Active(srv, m),
           srv' = CancelMatch(srv, m)
    PROVE  Carries(srv, srv')
<1>1. SameRun(srv, srv)
  BY DEF SameRun
<1> QED BY <1>1, VoidCarries

LEMMA SetupLapsesCarries ==
    ASSUME ServerInv(srv), NEW m \in MatchId, SetupLapses(m)
    PROVE  Carries(srv, srv')
<1> DEFINE k == srv.match[m]
           j == [k EXCEPT !.stale = TRUE]
<1>1. srv' = WithMatches(srv, [srv.match EXCEPT ![m] = j]) /\ Active(srv, m)
      /\ k.phase = "setup"
  BY DEF SetupLapses, WithMatches, Active
<1>2. k \in Match /\ Sound(k)
  BY <1>1, ActivePlayers
<1> HIDE DEF k
<1>3. /\ j \in Match /\ j.phase = k.phase /\ j.a = k.a /\ j.b = k.b
      /\ j.ranked = k.ranked /\ j.started = k.started /\ j.conceded = k.conceded
      /\ j.told = k.told /\ j.winner = k.winner /\ j.rated = k.rated
      /\ j.failed = k.failed /\ j.result = k.result /\ j.eos = k.eos /\ j.puid = k.puid
  BY <1>2 DEF Match
<1> HIDE DEF j
<1>4. Sound(j) /\ SameOutline(k, j) /\ StepOf(k, j)
  <2>1. SameOutline(k, j) /\ GoesOn(k, j)
    BY <1>3 DEF SameOutline, GoesOn
  <2>2. Sound(j)
    BY <1>1, <1>2, <1>3, Zenon DEF Sound, OutcomeOf
  <2> QED BY <2>1, <2>2 DEF StepOf
<1> QED BY <1>1, <1>3, <1>4, RecordCarries DEF k

LEMMA ResolutionTimerCarries ==
    ASSUME ServerInv(srv), NEW m \in MatchId, ResolutionTimer(m)
    PROVE  Carries(srv, srv')
<1> DEFINE k == srv.match[m]
           j == [k EXCEPT !.timer = FALSE]
<1>1. \/ srv' = CancelMatch(srv, m)
      \/ srv' = WithMatches(srv, [srv.match EXCEPT ![m] = j])
  BY DEF ResolutionTimer, WithMatches
<1>2. Active(srv, m) /\ k.phase \in {"setup", "playing"}
  BY DEF ResolutionTimer, Active
<1>3. k \in Match /\ Sound(k)
  BY <1>2, ActivePlayers
<1>4. k = srv.match[m]
  OBVIOUS
<1> HIDE DEF k
<1>5. /\ j \in Match /\ j.phase = k.phase /\ j.a = k.a /\ j.b = k.b
      /\ j.ranked = k.ranked /\ j.started = k.started /\ j.conceded = k.conceded
      /\ j.told = k.told /\ j.winner = k.winner /\ j.rated = k.rated
      /\ j.failed = k.failed /\ j.result = k.result /\ j.eos = k.eos /\ j.puid = k.puid
  BY <1>3 DEF Match
<1> HIDE DEF j
<1>6. Sound(j) /\ SameOutline(k, j) /\ StepOf(k, j)
  <2>1. SameOutline(k, j) /\ GoesOn(k, j)
    BY <1>5 DEF SameOutline, GoesOn
  <2>2. Sound(j)
    BY <1>2, <1>3, <1>5, Zenon DEF Sound, OutcomeOf
  <2> QED BY <2>1, <2>2 DEF StepOf
<1>7. CASE srv' = CancelMatch(srv, m)
  BY <1>2, <1>7, SetupCarries
<1>8. CASE srv' = WithMatches(srv, [srv.match EXCEPT ![m] = j])
  BY <1>4, <1>5, <1>6, <1>8, RecordCarries
<1> QED BY <1>1, <1>7, <1>8

\* matchStarted: the second start commits.
LEMMA TwoOf ==
    ASSUME NEW a, NEW b, a # b, NEW S \in SUBSET {a, b}, Cardinality(S) = 2
    PROVE  S = {a, b}
<1>1. IsFiniteSet({a}) /\ IsFiniteSet({b}) /\ Cardinality({a}) = 1 /\ Cardinality({b}) = 1
  BY FS_Singleton
<1>2. S = {} \/ S = {a} \/ S = {b} \/ S = {a, b}
  OBVIOUS
<1>3. Cardinality({}) = 0
  BY FS_EmptySet
<1> QED BY <1>1, <1>2, <1>3

LEMMA MatchStartedCarries ==
    ASSUME ServerInv(srv), NEW c \in Client, NEW m \in MatchId, MatchStarted(c, m)
    PROVE  Carries(srv, srv')
<1> DEFINE k == srv.match[m]
           u == srv.user[c]
           S == k.started \cup {u}
           p == IF Committed(S) THEN "playing" ELSE k.phase
           j == [k EXCEPT !.started = S, !.phase = p]
<1>1. srv' = WithMatches(srv, [srv.match EXCEPT ![m] = j])
  BY DEF MatchStarted, WithMatches
<1>2. Active(srv, m) /\ srv.matchOf[c] = m /\ LoggedIn(srv, c) /\ k.phase \in {"setup", "playing"}
  BY DEF MatchStarted, InMatch, Receives, Active
<1>3. /\ k \in Match /\ Sound(k) /\ k.a \in User /\ k.b \in User /\ k.a # k.b
      /\ u \in {k.a, k.b}
  BY <1>2, InMatchIs
<1>4. k = srv.match[m] /\ j = [k EXCEPT !.started = S, !.phase = p]
      /\ p = IF Committed(S) THEN "playing" ELSE k.phase
  OBVIOUS
<1>5. S \subseteq {k.a, k.b} /\ S \in SUBSET User /\ (k.phase = "playing" => S = {k.a, k.b})
  BY <1>3 DEF Sound, Match
<1> HIDE DEF k, S, p, j
<1>6. p = k.phase \/ (k.phase = "setup" /\ p = "playing")
  BY <1>2, <1>4
<1>7. p = "playing" => S = {k.a, k.b}
  <2>1. Committed(S) => S = {k.a, k.b}
    BY <1>3, <1>5, TwoOf DEF Committed
  <2> QED BY <1>2, <1>4, <1>5, <2>1
<1>8. p \in {"setup", "playing"} /\ p \in Phase
  BY <1>2, <1>6 DEF Phase
<1>9. /\ j \in Match /\ j.phase = p /\ j.a = k.a /\ j.b = k.b
      /\ j.ranked = k.ranked /\ j.started = S /\ j.conceded = k.conceded
      /\ j.told = k.told /\ j.winner = k.winner /\ j.rated = k.rated
      /\ j.failed = k.failed /\ j.result = k.result /\ j.eos = k.eos /\ j.puid = k.puid
  BY <1>3, <1>4, <1>5, <1>8 DEF Match
<1>10. SameOutline(k, j) /\ GoesOn(k, j)
  BY <1>2, <1>6, <1>8, <1>9 DEF SameOutline, GoesOn
<1>11. Sound(j)
  <2>1. k.winner = Nobody /\ k.told = {} /\ {k.a, k.b} \subseteq User
    BY <1>2, <1>3 DEF Sound
  <2>2. /\ k.failed \subseteq {k.a, k.b} /\ k.conceded \subseteq {k.a, k.b}
        /\ \A w \in User : k.result[w] # Nobody =>
             w \in {k.a, k.b} /\ k.result[w] \in {k.a, k.b}
             /\ (k.result[w] # w => w \in k.conceded)
    BY <1>3 DEF Sound
  <2>3. k.rated = 0
    BY <1>2, <1>4, ActivePlayers
  <2> QED BY <1>3, <1>5, <1>7, <1>8, <1>9, <2>1, <2>2, <2>3 DEF Sound
<1> QED BY <1>1, <1>4, <1>9, <1>10, <1>11, RecordCarries DEF StepOf

\* Who leaves a match they are in by word loses it, if it is in play.
LEMMA MatchAbortCarries ==
    ASSUME ServerInv(srv), NEW c \in Client, NEW m \in MatchId, MatchAbort(c, m)
    PROVE  Carries(srv, srv')
<1> DEFINE k == srv.match[m]
           u == srv.user[c]
           v == Opponent(srv, m, u)
           j == Conceding(k, u)
           x == WithMatches(srv, [srv.match EXCEPT ![m] = j])
<1>1. Active(srv, m) /\ srv.matchOf[c] = m /\ LoggedIn(srv, c)
  BY DEF MatchAbort, InMatch, Receives
<1>2. CASE k.phase = "setup"
  <2>1. srv' = CancelMatch(srv, m)
    BY <1>2 DEF MatchAbort
  <2> QED BY <1>1, <2>1, SetupCarries
<1>3. CASE k.phase = "playing"
  <2>1. srv' = FinishMatch(x, m, v)
    BY <1>3 DEF MatchAbort, WithMatches, Conceding
  <2>2. /\ k \in Match /\ Sound(k) /\ k.a \in User /\ k.b \in User /\ k.a # k.b
        /\ u \in {k.a, k.b} /\ v \in {k.a, k.b} /\ v # u
    BY <1>1, InMatchIs
  <2>3. k = srv.match[m] /\ x = WithMatches(srv, [srv.match EXCEPT ![m] = j])
        /\ j = [k EXCEPT !.conceded = k.conceded \cup {u}]
    BY DEF Conceding
  <2> HIDE DEF k, u, v, j, x
  <2>4. /\ j \in Match /\ Sound(j) /\ SameOutline(k, j) /\ j.phase = "playing"
        /\ j.a = k.a /\ j.b = k.b /\ j.conceded = k.conceded \cup {u}
    BY <1>3, <2>2, <2>3, ConcedeEffect
  <2>5. /\ ServerInv(x) /\ x.match[m] = j /\ SameRun(srv, x)
        /\ \A n \in MatchId \ {m} : x.match[n] = srv.match[n]
    BY <2>3, <2>4, RecordKeeps
  <2>6. v \in Players(x, m) /\ \E l \in x.match[m].conceded : l # v
    BY <2>2, <2>4, <2>5 DEF Players
  <2>7. /\ x.match[m].phase = "playing" /\ srv.match[m].phase = "playing"
        /\ x.match[m].a = srv.match[m].a /\ x.match[m].b = srv.match[m].b
        /\ srv.match[m].conceded \subseteq x.match[m].conceded
    BY <1>3, <2>3, <2>4, <2>5
  <2> QED BY <2>1, <2>5, <2>6, <2>7, WinCarries
<1> QED BY <1>1, <1>2, <1>3 DEF Active

\* A kept answer changes only in what it offers.
WithTerminal(s, T) == [s EXCEPT !.terminal = T]

LEMMA TerminalKeeps ==
    ASSUME NEW s, ServerInv(s), NEW c \in Client, s.user[c] # Nobody,
           NEW T \in [Client -> Answer], \A d \in Client \ {c} : T[d] = s.terminal[d],
           T[c].id = s.terminal[c].id, T[c].outcome = s.terminal[c].outcome,
           T[c].rematch => s.terminal[c].rematch,
           s.terminal[c].rematch /\ ~ T[c].rematch =>
              \A r \in s.rematches : r.id = T[c].id => r.expired,
           NEW t, t = WithTerminal(s, T)
    PROVE  ServerInv(t) /\ SameRun(s, t) /\ SameRecords(s, t)
<1>1. s \in Server /\ s.online \in [User -> Client \cup {NoClient}]
      /\ s.rematches \subseteq Rematch
  BY Fields DEF ServerInv
<1>2. /\ t \in Server /\ t.terminal = T /\ t.rematches = s.rematches
      /\ SameRun(s, t) /\ SamePeople(s, t) /\ SameProofs(s, t) /\ SameFriends(s, t)
      /\ SameRecords(s, t) /\ SameQueues(s, t) /\ t.matchOf = s.matchOf
      /\ t.challenges = s.challenges
  BY <1>1 DEF WithTerminal, Server, SameRun, SamePeople, SameProofs, SameFriends,
              SameRecords, SameQueues
<1> USE <1>2 DEF SameRun, SamePeople, SameProofs, SameFriends, SameRecords, SameQueues
<1>3. Presence(t)
  BY DEF ServerInv, Presence
<1>4. Blank(t)
  BY DEF ServerInv, Blank
<1>5. Waiting(t)
  BY DEF ServerInv, Waiting
<1>6. Bound(t)
  BY BoundKept DEF ServerInv
<1>7. Records(t) /\ OfferNames(t)
  BY DEF ServerInv, Records, OfferNames
<1>8. Answers(t)
  <2>1. \A d \in Client : T[d].id = s.terminal[d].id /\ T[d].outcome = s.terminal[d].outcome
    OBVIOUS
  <2> QED BY <2>1 DEF ServerInv, Answers
<1>9. Identified(t)
  BY DEF ServerInv, Identified, Active, Players
<1>10. Playable(t)
  BY PlayableKept DEF ServerInv
<1>11. Promised(t)
  <2>1. ASSUME NEW d \in Client, t.terminal[d].rematch
        PROVE  \E r \in t.rematches : r.id = t.terminal[d].id /\ t.user[d] \in {r.a, r.b}
    <3>1. s.terminal[d].rematch /\ T[d].id = s.terminal[d].id
      BY <2>1
    <3>2. PICK r \in s.rematches : r.id = s.terminal[d].id /\ s.user[d] \in {r.a, r.b}
      BY <3>1 DEF ServerInv, Promised
    <3> QED BY <3>1, <3>2
  <2> HIDE <1>2
  <2> QED BY <2>1 DEF Promised
<1>12. Offered(t)
  <2>1. ASSUME NEW r \in s.rematches, NEW u \in {r.a, r.b} PROVE Answered(t, r, u)
    <3> DEFINE d == s.online[u]
    <3>1. Answered(s, r, u) /\ Online(s, u)
      BY DEF ServerInv, Offered, Playable
    <3>2. d \in Client /\ s.terminal[d].id = r.id /\ (~ r.expired => s.terminal[d].rematch)
      BY <1>1, <3>1 DEF Online, Answered
    <3>3. T[d].id = r.id /\ (~ r.expired => T[d].rematch)
      <4>1. CASE d = c
        BY <3>2, <4>1
      <4>2. CASE d # c
        BY <3>2, <4>2
      <4> QED BY <4>1, <4>2
    <3> QED BY <3>3 DEF Answered
  <2> QED BY <2>1 DEF Offered
<1>13. Challenged(t) /\ Befriended(t) /\ ~ t.hung
  BY DEF ServerInv, Challenged, Befriended, Online, BlockEachOther
<1>14. ServerInv(t)
  BY <1>3, <1>4, <1>5, <1>6, <1>7, <1>8, <1>9, <1>10, <1>11, <1>12, <1>13 DEF ServerInv
<1> QED BY <1>14

\* replayTerminalMatch
LEMMA ReplayCarries ==
    ASSUME ServerInv(srv), NEW c \in Client, NEW m \in MatchId, LoggedIn(srv, c),
           ReplayTerminal(c, m)
    PROVE  Carries(srv, srv')
<1> DEFINE k == srv.match[m]
           e == srv.terminal[c]
           open == \E r \in srv.rematches : r.id = m /\ ~ r.expired
           kept == e.rematch /\ open
           D == k.told \cup {<<srv.user[c], e.outcome>>}
           j == [k EXCEPT !.told = D]
           x == WithMatches(srv, [srv.match EXCEPT ![m] = j])
           a == [e EXCEPT !.rematch = kept]
           T == [srv.terminal EXCEPT ![c] = a]
<1>1. e.id = m /\ srv' = [srv EXCEPT !.terminal[c].rematch = kept, !.match[m].told = D]
  BY DEF ReplayTerminal
<1>2. /\ srv \in Server /\ k \in Match /\ e \in Answer
      /\ srv.terminal \in [Client -> Answer] /\ srv.match \in [MatchId -> Match]
      /\ Records(srv) /\ Answers(srv) /\ Offered(srv) /\ Promised(srv) /\ OfferNames(srv)
  BY Fields DEF ServerInv
<1>3. Sound(k) /\ k.phase = "ended" /\ e.outcome = OutcomeOf(k)
  BY <1>1, <1>2 DEF Records, Answers, MatchId
<1>4. srv.user[c] \in User /\ srv.user[c] # Nobody
  BY IsUser DEF LoggedIn
<1>5. D \in SUBSET (User \X (UserOr \cup {Void})) /\ \A y \in D : y[2] = OutcomeOf(k)
  <2>1. k.told \in SUBSET (User \X (UserOr \cup {Void})) /\ e.outcome \in UserOr \cup {Void}
    BY <1>2 DEF Match, Answer
  <2>2. \A y \in k.told : y[2] = OutcomeOf(k)
    BY <1>3 DEF Sound
  <2> HIDE DEF k, e
  <2> QED BY <1>3, <1>4, <2>1, <2>2
<1>6. kept \in BOOLEAN /\ (kept <=> e.rematch /\ open)
  <2>1. e.rematch \in BOOLEAN
    BY <1>2 DEF Answer
  <2> QED BY <2>1
<1>7. k = srv.match[m] /\ e = srv.terminal[c] /\ j = [k EXCEPT !.told = D]
      /\ a = [e EXCEPT !.rematch = kept] /\ x = WithMatches(srv, [srv.match EXCEPT ![m] = j])
      /\ T = [srv.terminal EXCEPT ![c] = a]
  OBVIOUS
<1>8. srv' = WithTerminal(x, T)
  <2> HIDE DEF D, kept
  <2>1. srv' = [srv EXCEPT !.terminal = T, !.match = [srv.match EXCEPT ![m] = j]]
    BY <1>1
  <2> HIDE DEF T, j
  <2>2. x = [srv EXCEPT !.match = [srv.match EXCEPT ![m] = j]]
    BY DEF WithMatches
  <2> HIDE DEF x
  <2> QED BY <1>2, <2>1, <2>2 DEF WithTerminal, Server
<1> HIDE DEF k, e, D, j, x, kept, T, a
<1>9. /\ j \in Match /\ j.phase = k.phase /\ j.a = k.a /\ j.b = k.b
      /\ j.ranked = k.ranked /\ j.started = k.started /\ j.conceded = k.conceded
      /\ j.told = D /\ j.winner = k.winner /\ j.rated = k.rated
      /\ j.failed = k.failed /\ j.result = k.result /\ j.eos = k.eos /\ j.puid = k.puid
  BY <1>2, <1>5, <1>7 DEF Match
<1>10. /\ a \in Answer /\ a.id = e.id /\ a.outcome = e.outcome /\ (a.rematch <=> kept)
  BY <1>2, <1>6, <1>7 DEF Answer
<1>11. SameOutline(k, j) /\ GoesOn(k, j)
  BY <1>9 DEF SameOutline, GoesOn
<1>12. Sound(j)
  <2>1. \A y \in D : y[2] = OutcomeOf(j)
    BY <1>5, <1>9 DEF OutcomeOf
  <2> QED BY <1>3, <1>9, <2>1, Zenon DEF Sound
<1>13. /\ ServerInv(x) /\ x.match[m] = j /\ SameRun(srv, x) /\ SamePeople(srv, x)
       /\ \A n \in MatchId \ {m} : x.match[n] = srv.match[n]
       /\ x.terminal = srv.terminal /\ x.rematches = srv.rematches
  BY <1>7, <1>9, <1>11, <1>12, RecordKeeps
<1>14. /\ T \in [Client -> Answer] /\ T[c] = a
       /\ \A d \in Client \ {c} : T[d] = x.terminal[d]
  BY <1>2, <1>7, <1>10, <1>13
<1>15. x.terminal[c].rematch /\ ~ T[c].rematch =>
          \A r \in x.rematches : r.id = T[c].id => r.expired
  <2>1. \A r \in srv.rematches : r.id = m /\ ~ r.expired => open
    OBVIOUS
  <2> HIDE DEF open
  <2> QED BY <1>1, <1>6, <1>7, <1>10, <1>13, <1>14, <2>1
<1>16. /\ x.user[c] # Nobody /\ T[c].id = x.terminal[c].id
       /\ T[c].outcome = x.terminal[c].outcome /\ (T[c].rematch => x.terminal[c].rematch)
  BY <1>4, <1>6, <1>7, <1>10, <1>13, <1>14 DEF SamePeople
<1>17. ServerInv(srv') /\ SameRun(x, srv') /\ SameRecords(x, srv')
  BY <1>8, <1>13, <1>14, <1>15, <1>16, TerminalKeeps
<1>18. Moves(srv, srv')
  <2>1. srv'.traffic = srv.traffic /\ srv'.match = x.match
    BY <1>13, <1>17 DEF SameRun, SameRecords
  <2>2. ASSUME NEW n \in MatchId PROVE StepOf(srv.match[n], x.match[n])
    BY <1>7, <1>11, <1>13 DEF StepOf
  <2> QED BY <2>1, <2>2 DEF Moves
<1> QED BY <1>17, <1>18 DEF Carries

\* A transport failure: the first waits, the second ends the match.
LEMMA TransportFailureCarries ==
    ASSUME ServerInv(srv), NEW c \in Client, NEW m \in MatchId, TransportFailure(c, m)
    PROVE  Carries(srv, srv')
<1> DEFINE k == srv.match[m]
           u == srv.user[c]
           F == k.failed \cup {u}
           i == [k EXCEPT !.failed = F]
           j == [k EXCEPT !.failed = F, !.timer = TRUE]
           x == WithMatches(srv, [srv.match EXCEPT ![m] = i])
           y == WithMatches(srv, [srv.match EXCEPT ![m] = j])
<1>1. LoggedIn(srv, c)
  BY DEF TransportFailure, Receives
<1>2. CASE ~ InMatch(c, m)
  <2>1. ReplayTerminal(c, m)
    BY <1>2 DEF TransportFailure
  <2> QED BY <1>1, <2>1, ReplayCarries
<1>3. CASE InMatch(c, m)
  <2>1. srv' = CancelMatch(srv, m) \/ srv' = srv \/ srv' = CancelMatch(x, m) \/ srv' = y
    <3> DEFINE z == [srv EXCEPT !.match[m].failed = F]
               w == [z EXCEPT !.match[m].timer = TRUE]
    <3>1. srv' = CancelMatch(srv, m) \/ srv' = srv \/ srv' = CancelMatch(z, m) \/ srv' = w
      BY <1>3, Zenon DEF TransportFailure
    <3>2. srv \in Server /\ k \in Match /\ srv.match \in [MatchId -> Match]
      BY Fields DEF ServerInv
    <3>3. z = x
      <4> HIDE DEF F
      <4> QED BY DEF WithMatches
    <3>4. w = y
      <4> HIDE DEF F
      <4>1. w = [x EXCEPT !.match = [x.match EXCEPT ![m] = [x.match[m] EXCEPT !.timer = TRUE]]]
        BY <3>3
      <4>2. x.match = [srv.match EXCEPT ![m] = i] /\ x.match[m] = i
        BY <3>2 DEF WithMatches, Server
      <4>3. [x.match[m] EXCEPT !.timer = TRUE] = j
        BY <4>2
      <4> HIDE DEF k, i, j
      <4>4. [x.match EXCEPT ![m] = j] = [srv.match EXCEPT ![m] = j]
        BY <3>2, <4>2
      <4>5. w = [x EXCEPT !.match = [srv.match EXCEPT ![m] = j]]
        BY <4>1, <4>3, <4>4
      <4> QED BY <3>2, <4>5 DEF WithMatches, Server
    <3> HIDE DEF z, w
    <3> QED BY <3>1, <3>3, <3>4
  <2>2. Active(srv, m) /\ srv.matchOf[c] = m /\ k.phase \in {"setup", "playing"}
    BY <1>3 DEF InMatch, Active
  <2>3. /\ k \in Match /\ Sound(k) /\ k.a \in User /\ k.b \in User /\ k.a # k.b
        /\ u \in {k.a, k.b}
    BY <1>1, <2>2, InMatchIs
  <2>4. k = srv.match[m] /\ i = [k EXCEPT !.failed = F]
        /\ j = [k EXCEPT !.failed = F, !.timer = TRUE]
        /\ x = WithMatches(srv, [srv.match EXCEPT ![m] = i])
        /\ y = WithMatches(srv, [srv.match EXCEPT ![m] = j])
    OBVIOUS
  <2>5. F \subseteq {k.a, k.b} /\ F \in SUBSET User
    BY <2>3 DEF Sound, Match
  <2> HIDE DEF k, u, F, i, j, x, y
  <2>6. /\ i \in Match /\ i.phase = k.phase /\ i.a = k.a /\ i.b = k.b
        /\ i.ranked = k.ranked /\ i.started = k.started /\ i.conceded = k.conceded
        /\ i.told = k.told /\ i.winner = k.winner /\ i.rated = k.rated
        /\ i.failed = F /\ i.result = k.result /\ i.eos = k.eos /\ i.puid = k.puid
    BY <2>3, <2>4, <2>5 DEF Match
  <2>7. /\ j \in Match /\ j.phase = k.phase /\ j.a = k.a /\ j.b = k.b
        /\ j.ranked = k.ranked /\ j.started = k.started /\ j.conceded = k.conceded
        /\ j.told = k.told /\ j.winner = k.winner /\ j.rated = k.rated
        /\ j.failed = F /\ j.result = k.result /\ j.eos = k.eos /\ j.puid = k.puid
    BY <2>3, <2>4, <2>5 DEF Match
  <2>8. Sound(i) /\ SameOutline(k, i)
    <3>1. Sound(i)
      BY <2>2, <2>3, <2>5, <2>6, Zenon DEF Sound, OutcomeOf
    <3> QED BY <2>6, <3>1 DEF SameOutline
  <2>9. Sound(j) /\ SameOutline(k, j) /\ GoesOn(k, j)
    <3>1. Sound(j)
      BY <2>2, <2>3, <2>5, <2>7, Zenon DEF Sound, OutcomeOf
    <3> QED BY <2>7, <3>1 DEF SameOutline, GoesOn
  <2>10. CASE srv' = CancelMatch(srv, m)
    BY <2>2, <2>10, SetupCarries
  <2>11. CASE srv' = srv
    BY <2>11 DEF Carries, Moves, StepOf
  <2>12. CASE srv' = CancelMatch(x, m)
    <3>1. /\ ServerInv(x) /\ x.match[m] = i /\ SameRun(srv, x)
          /\ \A n \in MatchId \ {m} : x.match[n] = srv.match[n]
      BY <2>4, <2>6, <2>8, RecordKeeps
    <3>2. /\ Active(x, m) /\ x.match[m].a = srv.match[m].a /\ x.match[m].b = srv.match[m].b
          /\ srv.match[m].conceded \subseteq x.match[m].conceded
      BY <2>2, <2>4, <2>6, <3>1 DEF Active
    <3> QED BY <2>2, <2>12, <3>1, <3>2, VoidCarries
  <2>13. CASE srv' = y
    BY <2>4, <2>7, <2>9, <2>13, RecordCarries DEF StepOf
  <2> QED BY <2>1, <2>10, <2>11, <2>12, <2>13
<1> QED BY <1>2, <1>3

\* A report, and what it leaves of the record.
Report(k, u, w) ==
    [k EXCEPT !.failed = k.failed \ {u}, !.result = [k.result EXCEPT ![u] = w],
              !.conceded = k.conceded \cup ({u} \ {w})]
Awaiting(k) == [k EXCEPT !.timer = TRUE]

\* Reported, in one record.
LEMMA ReportedIs ==
    ASSUME NEW s \in Server, NEW m \in MatchId, NEW u \in User, NEW w \in User,
           NEW j, j = Report(s.match[m], u, w),
           NEW x, x = WithMatches(s, [s.match EXCEPT ![m] = j]),
           NEW y, y = WithMatches(s, [s.match EXCEPT ![m] = Awaiting(j)])
    PROVE  Reported(s, m, u, w) =
             IF s.match[m].result[Opponent(s, m, u)] = Nobody THEN y
             ELSE IF s.match[m].result[Opponent(s, m, u)] = w THEN FinishMatch(x, m, w)
             ELSE CancelMatch(x, m)
<1> DEFINE k == s.match[m]
           F == k.failed \ {u}
           D == k.conceded \cup ({u} \ {w})
           z == [s EXCEPT !.match[m].failed = F, !.match[m].result[u] = w,
                          !.match[m].conceded = D]
<1>1. k \in Match /\ s.match \in [MatchId -> Match]
  BY Fields
<1>2. k = s.match[m]
  OBVIOUS
<1>3. Reported(s, m, u, w) =
        IF k.result[Opponent(s, m, u)] = Nobody THEN [z EXCEPT !.match[m].timer = TRUE]
        ELSE IF k.result[Opponent(s, m, u)] = w THEN FinishMatch(z, m, w)
        ELSE CancelMatch(z, m)
  BY Zenon DEF Reported
<1>4. z = x
  <2> DEFINE z1 == [s EXCEPT !.match[m].failed = F]
             z2 == [z1 EXCEPT !.match[m].result[u] = w]
             k1 == [k EXCEPT !.failed = F]
             k2 == [k1 EXCEPT !.result[u] = w]
             k3 == [k2 EXCEPT !.conceded = D]
  <2>1. z = [z2 EXCEPT !.match[m].conceded = D]
    OBVIOUS
  <2>2. j = [k EXCEPT !.failed = F, !.result = [k.result EXCEPT ![u] = w], !.conceded = D]
    BY DEF Report
  <2> HIDE DEF F, D, z, k
  <2>3. z1 = [s EXCEPT !.match = [s.match EXCEPT ![m] = k1]]
    BY <1>2
  <2>4. z1.match[m] = k1 /\ z1.match = [s.match EXCEPT ![m] = k1]
    BY <1>1, <2>3 DEF Server
  <2>5. z2 = [z1 EXCEPT !.match = [z1.match EXCEPT ![m] = [z1.match[m] EXCEPT !.result[u] = w]]]
    OBVIOUS
  <2>6. k2 = [z1.match[m] EXCEPT !.result[u] = w]
    BY <2>4
  <2> HIDE DEF z1, k2
  <2>7. z2 = [s EXCEPT !.match = [s.match EXCEPT ![m] = k2]]
    <3> HIDE DEF z2, k1
    <3>1. [z1.match EXCEPT ![m] = k2] = [s.match EXCEPT ![m] = k2]
      BY <1>1, <2>4
    <3>2. z2 = [z1 EXCEPT !.match = [s.match EXCEPT ![m] = k2]]
      BY <2>5, <2>6, <3>1
    <3> QED BY <2>3, <3>2 DEF Server
  <2>8. z2.match[m] = k2 /\ z2.match = [s.match EXCEPT ![m] = k2]
    BY <1>1, <2>7 DEF Server
  <2> HIDE DEF z2
  <2>9. k3 = j
    BY <1>1, <2>2 DEF k2, Match
  <2>10. z = [z2 EXCEPT !.match = [z2.match EXCEPT ![m] = k3]]
    BY <2>1, <2>8
  <2> HIDE DEF k3
  <2>11. [z2.match EXCEPT ![m] = j] = [s.match EXCEPT ![m] = j]
    BY <1>1, <2>8
  <2>12. z = [z2 EXCEPT !.match = [s.match EXCEPT ![m] = j]]
    BY <2>9, <2>10, <2>11
  <2> QED BY <2>7, <2>12 DEF WithMatches, Server
<1> HIDE DEF z, F, D
<1>5. [z EXCEPT !.match[m].timer = TRUE] = y
  <2>1. x.match = [s.match EXCEPT ![m] = j] /\ x.match[m] = j
    BY <1>1 DEF WithMatches, Server
  <2>2. [x EXCEPT !.match[m].timer = TRUE]
          = [x EXCEPT !.match = [x.match EXCEPT ![m] = Awaiting(x.match[m])]]
    BY DEF Awaiting
  <2>3. [x.match EXCEPT ![m] = Awaiting(j)] = [s.match EXCEPT ![m] = Awaiting(j)]
    BY <1>1, <2>1
  <2>4. [x EXCEPT !.match[m].timer = TRUE] = [x EXCEPT !.match = [s.match EXCEPT ![m] = Awaiting(j)]]
    BY <2>1, <2>2, <2>3
  <2> QED BY <1>1, <1>4, <2>4 DEF WithMatches, Server
<1> HIDE DEF k
<1> QED BY <1>2, <1>3, <1>4, <1>5, Zenon

\* A record that stands for one in play.
Follows(k, j) == j \in Match /\ Sound(j) /\ SameOutline(k, j) /\ Yields(k, j)

\* A report keeps the record sound: who names another winner has conceded.
LEMMA ReportSound ==
    ASSUME NEW k \in Match, Sound(k), k.phase = "playing",
           NEW u \in {k.a, k.b}, NEW w \in {k.a, k.b}, NEW j, j = Report(k, u, w)
    PROVE  Follows(k, j) /\ Follows(k, Awaiting(j)) /\ j.conceded = k.conceded \cup ({u} \ {w})
<1> DEFINE F == k.failed \ {u}
           D == k.conceded \cup ({u} \ {w})
           R == [k.result EXCEPT ![u] = w]
           g == Awaiting(j)
<1>1. k.a \in User /\ k.b \in User /\ k.a # k.b /\ u \in User /\ w \in User
  BY DEF Sound
<1>2. F \in SUBSET User /\ D \in SUBSET User /\ R \in [User -> UserOr]
      /\ F \subseteq {k.a, k.b} /\ D \subseteq {k.a, k.b}
  BY <1>1 DEF Sound, Match, UserOr
<1>3. R[u] = w /\ \A v \in User \ {u} : R[v] = k.result[v]
  BY <1>1 DEF Match
<1>4. j = [k EXCEPT !.failed = F, !.result = R, !.conceded = D] /\ g = [j EXCEPT !.timer = TRUE]
      /\ g = Awaiting(j)
  BY DEF Report, Awaiting
<1>5. \A v \in User : R[v] # Nobody =>
        v \in {k.a, k.b} /\ R[v] \in {k.a, k.b} /\ (R[v] # v => v \in D)
  <2>1. \A v \in User : k.result[v] # Nobody =>
          v \in {k.a, k.b} /\ k.result[v] \in {k.a, k.b} /\ (k.result[v] # v => v \in k.conceded)
    BY DEF Sound
  <2>2. \A v \in User : v \in k.conceded => v \in D
    OBVIOUS
  <2>3. u # w => u \in D
    OBVIOUS
  <2> HIDE DEF R, D
  <2> QED BY <1>3, <2>1, <2>2, <2>3
<1> HIDE DEF F, D, R, g
<1>6. /\ j \in Match /\ j.phase = k.phase /\ j.a = k.a /\ j.b = k.b
      /\ j.ranked = k.ranked /\ j.started = k.started /\ j.conceded = D
      /\ j.told = k.told /\ j.winner = k.winner /\ j.rated = k.rated
      /\ j.failed = F /\ j.result = R /\ j.eos = k.eos /\ j.puid = k.puid
  BY <1>2, <1>4 DEF Match
<1>7. /\ g \in Match /\ g.phase = k.phase /\ g.a = k.a /\ g.b = k.b
      /\ g.ranked = k.ranked /\ g.started = k.started /\ g.conceded = D
      /\ g.told = k.told /\ g.winner = k.winner /\ g.rated = k.rated
      /\ g.failed = F /\ g.result = R /\ g.eos = k.eos /\ g.puid = k.puid
  BY <1>4, <1>6 DEF Match
<1>8. k.winner = Nobody /\ k.told = {} /\ k.started = {k.a, k.b} /\ k.rated = 0
  BY DEF Sound
<1>9. Sound(j)
  <2>1. /\ j.phase = "playing" /\ j.winner = Nobody /\ j.told = {} /\ j.rated = 0
        /\ j.started = {j.a, j.b} /\ j.failed \subseteq {j.a, j.b}
        /\ j.conceded \subseteq {j.a, j.b} /\ {j.a, j.b} \subseteq User /\ j.a # j.b
    BY <1>1, <1>2, <1>6, <1>8
  <2>2. \A v \in User : j.result[v] # Nobody =>
          v \in {j.a, j.b} /\ j.result[v] \in {j.a, j.b} /\ (j.result[v] # v => v \in j.conceded)
    BY <1>5, <1>6
  <2> QED BY <2>1, <2>2, SoundInPlay
<1>10. Sound(g)
  <2>1. /\ g.phase = "playing" /\ g.winner = Nobody /\ g.told = {} /\ g.rated = 0
        /\ g.started = {g.a, g.b} /\ g.failed \subseteq {g.a, g.b}
        /\ g.conceded \subseteq {g.a, g.b} /\ {g.a, g.b} \subseteq User /\ g.a # g.b
    BY <1>1, <1>2, <1>7, <1>8
  <2>2. \A v \in User : g.result[v] # Nobody =>
          v \in {g.a, g.b} /\ g.result[v] \in {g.a, g.b} /\ (g.result[v] # v => v \in g.conceded)
    BY <1>5, <1>7
  <2> QED BY <2>1, <2>2, SoundInPlay
<1>11. SameOutline(k, j) /\ Yields(k, j) /\ SameOutline(k, g) /\ Yields(k, g)
  <2>1. k.conceded \subseteq D
    BY DEF D
  <2> QED BY <1>6, <1>7, <2>1 DEF SameOutline, Yields
<1> QED BY <1>4, <1>6, <1>7, <1>9, <1>10, <1>11 DEF D, Follows

\* Reports that agree make the other player the one who has conceded.
LEMMA AgreedConcedes ==
    ASSUME NEW k \in Match, Sound(k), k.phase = "playing",
           NEW u \in {k.a, k.b}, NEW v \in {k.a, k.b}, v # u, NEW w \in {k.a, k.b},
           k.result[v] = w, NEW D, D = k.conceded \cup ({u} \ {w})
    PROVE  \E l \in D : l # w
<1>1. k.a \in User /\ k.b \in User /\ Nobody \notin User
  BY ServerAssumption DEF Sound
<1>2. v # w => v \in k.conceded
  BY <1>1 DEF Sound
<1>3. v # w \/ u # w
  OBVIOUS
<1> QED BY <1>2, <1>3

\* A player names the winner: one report waits, two decide or call it off.
LEMMA MatchEndCarries ==
    ASSUME ServerInv(srv), NEW c \in Client, NEW m \in MatchId, NEW w \in User,
           MatchEnd(c, m, w)
    PROVE  Carries(srv, srv')
<1> DEFINE k == srv.match[m]
           u == srv.user[c]
           v == Opponent(srv, m, u)
           j == Report(k, u, w)
           x == WithMatches(srv, [srv.match EXCEPT ![m] = j])
           y == WithMatches(srv, [srv.match EXCEPT ![m] = Awaiting(j)])
<1>1. LoggedIn(srv, c)
  BY DEF MatchEnd, Receives
<1>2. CASE ~ InMatch(c, m)
  <2>1. ReplayTerminal(c, m)
    BY <1>2 DEF MatchEnd
  <2> QED BY <1>1, <2>1, ReplayCarries
<1>3. CASE InMatch(c, m)
  <2>1. w \in Players(srv, m)
    BY <1>3 DEF MatchEnd
  <2>8. \/ srv' = CancelMatch(srv, m)
        \/ srv' = srv
        \/ srv' = Reported(srv, m, u, w) /\ k.phase # "setup"
    <3>1. srv' = IF k.phase = "setup" THEN CancelMatch(srv, m)
                 ELSE IF k.result[u] # Nobody THEN srv ELSE Reported(srv, m, u, w)
      BY <1>3, Zenon DEF MatchEnd
    <3> HIDE DEF k, u
    <3> QED BY <3>1
  <2>2. Active(srv, m) /\ srv.matchOf[c] = m /\ k.phase \in {"setup", "playing"}
    BY <1>3 DEF InMatch, Active
  <2>3. /\ k \in Match /\ Sound(k) /\ k.a \in User /\ k.b \in User /\ k.a # k.b
        /\ u \in {k.a, k.b} /\ v \in {k.a, k.b} /\ v # u /\ w \in {k.a, k.b}
    BY <1>1, <2>1, <2>2, InMatchIs DEF Players
  <2>4. k = srv.match[m] /\ j = Report(k, u, w)
        /\ x = WithMatches(srv, [srv.match EXCEPT ![m] = j])
        /\ y = WithMatches(srv, [srv.match EXCEPT ![m] = Awaiting(j)])
        /\ v = Opponent(srv, m, u)
    OBVIOUS
  <2> HIDE DEF k, u, v, j, x, y
  <2>5. CASE srv' = CancelMatch(srv, m)
    BY <2>2, <2>5, SetupCarries
  <2>6. CASE srv' = srv
    BY <2>6 DEF Carries, Moves, StepOf
  <2>7. CASE srv' = Reported(srv, m, u, w) /\ k.phase = "playing"
    <3>1. srv \in Server /\ u \in User /\ w \in User
      BY <2>3 DEF ServerInv
    <3>2. \/ srv' = y
          \/ srv' = FinishMatch(x, m, w) /\ k.result[v] = w
          \/ srv' = CancelMatch(x, m)
      BY <2>4, <2>7, <3>1, ReportedIs
    <3>3. Follows(k, j) /\ Follows(k, Awaiting(j)) /\ j.conceded = k.conceded \cup ({u} \ {w})
      <4>1. /\ k \in Match /\ Sound(k) /\ k.phase = "playing"
            /\ u \in {k.a, k.b} /\ w \in {k.a, k.b} /\ j = Report(k, u, w)
        BY <2>3, <2>4, <2>7
      <4> QED BY <4>1, ReportSound
    <3>4. /\ ServerInv(x) /\ x.match[m] = j /\ SameRun(srv, x)
          /\ \A n \in MatchId \ {m} : x.match[n] = srv.match[n]
      BY <2>4, <3>3, RecordKeeps DEF Follows
    <3>5. /\ Active(x, m) /\ x.match[m].phase = "playing"
          /\ x.match[m].a = srv.match[m].a /\ x.match[m].b = srv.match[m].b
          /\ srv.match[m].conceded \subseteq x.match[m].conceded
          /\ srv.match[m].phase = "playing"
      BY <2>4, <2>7, <3>3, <3>4 DEF Active, Follows, Yields
    <3>6. CASE srv' = y
      BY <2>4, <3>3, <3>6, RecordCarries DEF StepOf, Follows
    <3>7. CASE srv' = FinishMatch(x, m, w) /\ k.result[v] = w
      <4>1. \E l \in x.match[m].conceded : l # w
        BY <2>3, <2>7, <3>3, <3>4, <3>7, AgreedConcedes
      <4>2. w \in Players(x, m)
        BY <2>3, <3>3, <3>4 DEF Players, Follows, Yields
      <4> QED BY <3>4, <3>5, <3>7, <4>1, <4>2, WinCarries
    <3>8. CASE srv' = CancelMatch(x, m)
      BY <2>2, <3>4, <3>5, <3>8, VoidCarries
    <3> QED BY <3>2, <3>6, <3>7, <3>8
  <2> QED BY <2>8, <2>2, <2>5, <2>6, <2>7
<1> QED BY <1>2, <1>3

-----------------------------------------------------------------------------
(* The server: its handlers, its timers, its beginning.                      *)

\* Who takes part in a run, and what they send, is of the right kind.
LEMMA TrafficIs ==
    ASSUME ServerInv(srv)
    PROVE  /\ srv.traffic.clients \subseteq Client /\ srv.traffic.users \subseteq User
           /\ srv.traffic.manifests \subseteq Manifest
<1>1. srv.traffic \in TrafficType
  BY DEF ServerInv, Server
<1> QED BY <1>1 DEF TrafficType

LEMMA SessionCarries ==
    ASSUME ServerInv(srv), NEW c \in Client, Session(c)
    PROVE  Carries(srv, srv')
<1>1. CASE Connect(c)
  BY <1>1, ConnectCarries
<1>2. CASE Disconnect(c)
  BY <1>2, DisconnectCarries
<1>3. CASE LeaveQueue(c)
  BY <1>3, LeaveQueueCarries
<1>4. ASSUME NEW u \in srv.traffic.users, Login(c, u) PROVE Carries(srv, srv')
  BY <1>4, TrafficIs, LoginCarries
<1>5. ASSUME NEW f \in srv.traffic.manifests, MapManifest(c, f) PROVE Carries(srv, srv')
  BY <1>5, TrafficIs, MapManifestCarries
<1>6. ASSUME NEW p \in Puid, AskIdentity(c, p) PROVE Carries(srv, srv')
  BY <1>6, AskIdentityCarries
<1>7. ASSUME NEW ranked \in BOOLEAN, JoinQueue(c, ranked) PROVE Carries(srv, srv')
  BY <1>7, JoinQueueCarries
<1> QED BY <1>1, <1>2, <1>3, <1>4, <1>5, <1>6, <1>7, Zenon DEF Session

LEMMA SocialCarries ==
    ASSUME ServerInv(srv), NEW c \in Client, Social(c)
    PROVE  Carries(srv, srv')
<1>1. ASSUME NEW v \in User, FriendRequest(c, v) PROVE Carries(srv, srv')
  BY <1>1, FriendRequestCarries
<1>2. ASSUME NEW v \in User, FriendAccept(c, v) PROVE Carries(srv, srv')
  BY <1>2, FriendAcceptCarries
<1>3. ASSUME NEW v \in User, FriendDecline(c, v) PROVE Carries(srv, srv')
  BY <1>3, FriendDeclineCarries
<1>4. ASSUME NEW v \in User, FriendRemove(c, v) PROVE Carries(srv, srv')
  BY <1>4, FriendRemoveCarries
<1>5. ASSUME NEW v \in User, FriendBlock(c, v) PROVE Carries(srv, srv')
  BY <1>5, FriendBlockCarries
<1>6. ASSUME NEW v \in User, FriendUnblock(c, v) PROVE Carries(srv, srv')
  BY <1>6, FriendUnblockCarries
<1>7. ASSUME NEW v \in User, NEW k \in Map, Challenge(c, v, k) PROVE Carries(srv, srv')
  BY <1>7, ChallengeCarries
<1>8. ASSUME NEW h \in srv.challenges, ChallengeAccept(c, h) PROVE Carries(srv, srv')
  BY <1>8, ChallengeAcceptCarries
<1>9. ASSUME NEW h \in srv.challenges, ChallengeDecline(c, h) PROVE Carries(srv, srv')
  <2>1. srv' = [srv EXCEPT !.challenges = srv.challenges \ {h}]
    BY <1>9 DEF ChallengeDecline
  <2> QED BY <2>1, DropCarries
<1> QED BY <1>1, <1>2, <1>3, <1>4, <1>5, <1>6, <1>7, <1>8, <1>9, Zenon DEF Social

LEMMA PlayCarries ==
    ASSUME ServerInv(srv), NEW c \in Client, Play(c)
    PROVE  Carries(srv, srv')
<1>1. ASSUME NEW m \in MatchId, MatchStarted(c, m) PROVE Carries(srv, srv')
  BY <1>1, MatchStartedCarries
<1>2. ASSUME NEW m \in MatchId, MatchAbort(c, m) PROVE Carries(srv, srv')
  BY <1>2, MatchAbortCarries
<1>3. ASSUME NEW m \in MatchId, TransportFailure(c, m) PROVE Carries(srv, srv')
  BY <1>3, TransportFailureCarries
<1>4. ASSUME NEW m \in MatchId, NEW w \in User, MatchEnd(c, m, w) PROVE Carries(srv, srv')
  BY <1>4, MatchEndCarries
<1>5. ASSUME NEW r \in srv.rematches, RematchRequest(c, r) PROVE Carries(srv, srv')
  BY <1>5, RematchRequestCarries
<1>6. ASSUME NEW r \in srv.rematches, RematchDecline(c, r) PROVE Carries(srv, srv')
  <2>1. srv' = CloseRematches(srv, {r})
    BY <1>6 DEF RematchDecline
  <2> QED BY <2>1, CloseCarries
<1> QED BY <1>1, <1>2, <1>3, <1>4, <1>5, <1>6, Zenon DEF Play

LEMMA ClockCarries ==
    ASSUME ServerInv(srv), Clock
    PROVE  Carries(srv, srv')
<1>1. ASSUME NEW m \in MatchId, ResolutionTimer(m) PROVE Carries(srv, srv')
  BY <1>1, ResolutionTimerCarries
<1>2. ASSUME NEW m \in MatchId, SetupLapses(m) PROVE Carries(srv, srv')
  BY <1>2, SetupLapsesCarries
<1>3. ASSUME NEW h \in srv.challenges, ChallengeLapses(h) PROVE Carries(srv, srv')
  BY <1>3, ChallengeLapsesCarries
<1>4. ASSUME NEW r \in srv.rematches, RematchLapses(r) PROVE Carries(srv, srv')
  BY <1>4, RematchLapsesCarries
<1>5. CASE Sweep
  BY <1>5, SweepCarries
<1> QED BY <1>1, <1>2, <1>3, <1>4, <1>5, Zenon DEF Clock

LEMMA NextCarries ==
    ASSUME ServerInv(srv), [Next]_vars
    PROVE  Carries(srv, srv')
<1>1. ASSUME NEW c \in srv.traffic.clients, Session(c) \/ Social(c) \/ Play(c)
      PROVE  Carries(srv, srv')
  BY <1>1, TrafficIs, SessionCarries, SocialCarries, PlayCarries
<1>2. ASSUME NEW p \in srv.pending, IdentityProved(p) PROVE Carries(srv, srv')
  BY <1>2, IdentityProvedCarries
<1>3. ASSUME NEW p \in srv.pending, IdentityRefused(p) PROVE Carries(srv, srv')
  BY <1>3, IdentityRefusedCarries
<1>4. CASE Clock
  BY <1>4, ClockCarries
<1>5. CASE UNCHANGED vars
  <2>1. srv' = srv
    BY <1>5 DEF vars
  <2> QED BY <2>1 DEF Carries, Moves, StepOf
<1> QED BY <1>1, <1>2, <1>3, <1>4, <1>5, Zenon DEF Next

\* A record of every field.
FieldsOf(s, traffic, clients, user, online, manifest) ==
    s = [traffic |-> traffic, clients |-> clients, user |-> user, online |-> online,
         manifest |-> manifest, verified |-> [c \in Client |-> NoPuid],
         pending |-> {}, casual |-> <<>>, competitive |-> <<>>,
         matchOf |-> [c \in Client |-> 0],
         terminal |-> [c \in Client |-> NoTerminal],
         friends |-> {p \in User \X User : p[1] # p[2]}, asked |-> {}, blocked |-> {},
         challenges |-> {}, match |-> [m \in MatchId |-> NoMatch], next |-> 1,
         rematches |-> {}, hung |-> FALSE]

LEMMA BlankRecord == NoMatch \in Match /\ Sound(NoMatch) /\ NoMatch.phase = "none"
<1>1. Nobody \in UserOr /\ [u \in User |-> Nobody] \in [User -> UserOr]
      /\ [u \in User |-> NoPuid] \in [User -> Puid \cup {NoPuid}]
  BY DEF UserOr
<1>2. NoMatch \in Match
  BY <1>1 DEF NoMatch, Match, Phase
<1>3. /\ NoMatch.phase = "none" /\ NoMatch.told = {} /\ NoMatch.winner = Nobody
      /\ NoMatch.started = {} /\ NoMatch.failed = {} /\ NoMatch.conceded = {}
      /\ NoMatch.rated = 0 /\ \A u \in User : NoMatch.result[u] = Nobody
  BY DEF NoMatch
<1>4. Sound(NoMatch)
  BY <1>3, Zenon DEF Sound
<1> QED BY <1>2, <1>3, <1>4

\* A server on which some have signed in, and nothing else has happened yet.
LEMMA BeginningInv ==
    ASSUME NEW traffic \in TrafficType, NEW clients \in SUBSET Client,
           NEW user \in [Client -> UserOr], NEW online \in [User -> Client \cup {NoClient}],
           NEW manifest \in [Client -> Manifest],
           \A c \in Client : user[c] # Nobody => c \in clients /\ online[user[c]] = c,
           \A u \in User : online[u] # NoClient => user[online[u]] = u,
           NEW s, FieldsOf(s, traffic, clients, user, online, manifest)
    PROVE  ServerInv(s)
<1>1. NoTerminal \in Answer /\ NoTerminal.id = 0 /\ NoTerminal.rematch = FALSE
  BY ServerAssumption DEF NoTerminal, Answer
<1>2. /\ s.traffic = traffic /\ s.clients = clients /\ s.user = user /\ s.online = online
      /\ s.manifest = manifest /\ s.verified = [c \in Client |-> NoPuid]
      /\ s.pending = {} /\ s.casual = <<>> /\ s.competitive = <<>>
      /\ s.matchOf = [c \in Client |-> 0] /\ s.terminal = [c \in Client |-> NoTerminal]
      /\ s.friends = {p \in User \X User : p[1] # p[2]} /\ s.asked = {} /\ s.blocked = {}
      /\ s.challenges = {} /\ s.match = [m \in MatchId |-> NoMatch] /\ s.next = 1
      /\ s.rematches = {} /\ s.hung = FALSE
  BY DEF FieldsOf
<1>3. s \in Server
  <2>1. 1 \in 1 .. MaxMatch + 1 /\ 0 \in 0 .. MaxMatch
    BY ServerAssumption
  <2>2. [c \in Client |-> NoPuid] \in [Client -> Puid \cup {NoPuid}]
        /\ [c \in Client |-> 0] \in [Client -> 0 .. MaxMatch]
        /\ [c \in Client |-> NoTerminal] \in [Client -> Answer]
        /\ [m \in MatchId |-> NoMatch] \in [MatchId -> Match]
        /\ {p \in User \X User : p[1] # p[2]} \in SUBSET (User \X User)
        /\ <<>> \in Seq(Client)
    BY <1>1, <2>1, BlankRecord
  <2> QED BY <2>1, <2>2 DEF FieldsOf, Server
<1>4. Presence(s) /\ Blank(s)
  BY <1>2 DEF Presence, Blank
<1>5. Waiting(s)
  BY <1>2 DEF Waiting, Once, In
<1>6. Bound(s) /\ Identified(s) /\ Records(s)
  <2>1. \A m \in MatchId : s.match[m] = NoMatch
    BY <1>2
  <2>2. \A m \in MatchId : ~ Active(s, m)
    BY <2>1, BlankRecord DEF Active
  <2>3. \A m \in MatchId : m >= s.next
    BY <1>2 DEF MatchId
  <2>4. \A c \in Client : s.matchOf[c] = 0
    BY <1>2
  <2> QED BY <2>1, <2>2, <2>3, <2>4, BlankRecord DEF Bound, Identified, Records
<1>7. Answers(s) /\ Promised(s)
  <2>1. \A c \in Client : s.terminal[c] = NoTerminal
    BY <1>2
  <2> QED BY <1>1, <2>1 DEF Answers, Promised
<1>8. OfferNames(s) /\ Playable(s) /\ Offered(s) /\ Challenged(s)
  BY <1>2 DEF OfferNames, Playable, Offered, Challenged
<1>9. Befriended(s)
  BY <1>2 DEF Befriended
<1> QED BY <1>2, <1>3, <1>4, <1>5, <1>6, <1>7, <1>8, <1>9 DEF ServerInv

BeginsWith(s, traffic, f) ==
    FieldsOf(s, traffic,
             {c \in Client : \E u \in User : Signed(traffic, c, u)},
             [c \in Client |-> IF \E u \in User : Signed(traffic, c, u)
                               THEN CHOOSE u \in User : Signed(traffic, c, u) ELSE Nobody],
             [u \in User |-> IF \E c \in Client : Signed(traffic, c, u)
                             THEN CHOOSE c \in Client : Signed(traffic, c, u) ELSE NoClient],
             [c \in Client |-> IF \E u \in User : Signed(traffic, c, u)
                               THEN f ELSE NewManifest])

\* The players who have signed in before the run, one connection each.
LEMMA InitInv ==
    ASSUME Init
    PROVE  ServerInv(srv)
<1>1. PICK traffic \in Traffic : \E f \in traffic.manifests : BeginsWith(srv, traffic, f)
  BY Zenon DEF Init, FieldsOf, BeginsWith
<1>12. PICK f \in traffic.manifests : BeginsWith(srv, traffic, f)
  BY <1>1
<1> DEFINE clients == {c \in Client : \E u \in User : Signed(traffic, c, u)}
           user == [c \in Client |-> IF \E u \in User : Signed(traffic, c, u)
                                     THEN CHOOSE u \in User : Signed(traffic, c, u) ELSE Nobody]
           online == [u \in User |-> IF \E c \in Client : Signed(traffic, c, u)
                                     THEN CHOOSE c \in Client : Signed(traffic, c, u)
                                     ELSE NoClient]
           manifest == [c \in Client |-> IF \E u \in User : Signed(traffic, c, u)
                                         THEN f ELSE NewManifest]
<1>2. FieldsOf(srv, traffic, clients, user, online, manifest)
  BY <1>12 DEF BeginsWith
<1>3. traffic \in TrafficType
  BY ServerAssumption DEF TrafficType, Manifest
<1>4. \A c, d \in Client, u, v \in User :
        Signed(traffic, c, u) /\ Signed(traffic, d, v) => (c = d <=> u = v)
  <2>1. \A x, y \in traffic.signed : x[1] = y[1] <=> x[2] = y[2]
    BY ServerAssumption
  <2> QED BY <2>1 DEF Signed
<1>5. \A c \in Client : user[c] \in UserOr /\ (user[c] # Nobody => Signed(traffic, c, user[c]))
  BY DEF UserOr
<1>6. \A u \in User : online[u] \in Client \cup {NoClient}
        /\ (online[u] # NoClient => Signed(traffic, online[u], u))
  OBVIOUS
<1>7. \A c \in Client, u \in User : Signed(traffic, c, u) => user[c] = u /\ online[u] = c
  <2>1. ASSUME NEW c \in Client, NEW u \in User, Signed(traffic, c, u)
        PROVE  user[c] = u /\ online[u] = c
    <3>1. Signed(traffic, c, user[c]) /\ user[c] \in User
      BY <2>1
    <3>2. Signed(traffic, online[u], u) /\ online[u] \in Client
      BY <2>1
    <3> QED BY <1>4, <2>1, <3>1, <3>2
  <2> QED BY <2>1
<1>8. /\ user \in [Client -> UserOr] /\ online \in [User -> Client \cup {NoClient}]
      /\ clients \in SUBSET Client
  BY <1>5, <1>6
<1>9. manifest \in [Client -> Manifest]
  <2>1. f \in Manifest
    BY <1>3 DEF TrafficType
  <2>2. NewManifest \in Manifest
    BY DEF NewManifest, Manifest
  <2> QED BY <2>1, <2>2
<1>10. \A c \in Client : user[c] # Nobody => c \in clients /\ online[user[c]] = c
  <2>1. ASSUME NEW c \in Client, user[c] # Nobody
        PROVE  c \in clients /\ online[user[c]] = c
    <3>1. Signed(traffic, c, user[c]) /\ user[c] \in User
      BY <1>5, <2>1 DEF UserOr
    <3> QED BY <1>7, <3>1
  <2> QED BY <2>1
<1>11. \A u \in User : online[u] # NoClient => user[online[u]] = u
  <2>1. ASSUME NEW u \in User, online[u] # NoClient
        PROVE  user[online[u]] = u
    <3>1. Signed(traffic, online[u], u) /\ online[u] \in Client
      BY <1>6, <2>1
    <3> QED BY <1>7, <3>1
  <2> QED BY <2>1
<1> HIDE DEF clients, user, online, manifest
<1> QED BY <1>2, <1>3, <1>8, <1>9, <1>10, <1>11, BeginningInv

-----------------------------------------------------------------------------
(* What follows for every number of players, maps and matches.               *)

\* The server's state is always as ServerInv describes it: connections and
\* accounts, queues, matches, kept answers, offers and challenges agree.
THEOREM ServerIsSound == Spec => []ServerInv(srv)
<1>1. Init => ServerInv(srv)
  BY InitInv
<1>2. ServerInv(srv) /\ [Next]_vars => ServerInv(srv)'
  BY NextCarries DEF Carries
<1> QED BY <1>1, <1>2, PTL DEF Spec

LEMMA QueuedIs ==
    ASSUME NEW s, NEW c
    PROVE  Queued(s, c) <=> In(s.casual, c) \/ In(s.competitive, c)
  BY DEF Queued, In

\* Two queues that share nobody, one after the other, have each client once.
LEMMA OnceInBoth ==
    ASSUME NEW p \in Seq(Client), NEW q \in Seq(Client), Once(p), Once(q),
           \A c \in Client : ~ (In(p, c) /\ In(q, c))
    PROVE  Once(p \o q)
<1> DEFINE w == p \o q
           n == Len(p)
<1>1. n \in Nat /\ Len(q) \in Nat /\ Len(w) = n + Len(q)
  OBVIOUS
<1>2. \A i \in 1 .. Len(w) : w[i] = IF i <= n THEN p[i] ELSE q[i - n]
  OBVIOUS
<1>3. (\A i \in 1 .. n : p[i] \in Client) /\ (\A i \in 1 .. Len(q) : q[i] \in Client)
  OBVIOUS
<1>4. ASSUME NEW i \in 1 .. Len(w), NEW j \in 1 .. Len(w), w[i] = w[j]
      PROVE  i = j
  <2>1. CASE i <= n /\ j <= n
    <3>1. i \in 1 .. n /\ j \in 1 .. n /\ p[i] = p[j]
      BY <1>1, <1>2, <1>4, <2>1
    <3> QED BY <3>1 DEF Once
  <2>2. CASE i <= n /\ ~ j <= n
    <3>1. i \in 1 .. n /\ j - n \in 1 .. Len(q) /\ p[i] = q[j - n]
      BY <1>1, <1>2, <1>4, <2>2
    <3> QED BY <1>3, <3>1 DEF In
  <2>3. CASE ~ i <= n /\ j <= n
    <3>1. j \in 1 .. n /\ i - n \in 1 .. Len(q) /\ p[j] = q[i - n]
      BY <1>1, <1>2, <1>4, <2>3
    <3> QED BY <1>3, <3>1 DEF In
  <2>4. CASE ~ i <= n /\ ~ j <= n
    <3>1. i - n \in 1 .. Len(q) /\ j - n \in 1 .. Len(q) /\ q[i - n] = q[j - n]
      BY <1>1, <1>2, <1>4, <2>4
    <3>2. i - n = j - n
      BY <3>1 DEF Once
    <3> QED BY <1>1, <3>2
  <2> QED BY <1>1, <2>1, <2>2, <2>3, <2>4
<1> HIDE DEF w
<1> QED BY <1>4 DEF Once, w

\* A match that has not ended has both its players, bound to it and nothing
\* else, and nobody waits twice: whatever the order of joins, accepts, ends,
\* departures and timers.
THEOREM PlayersAreAtHand == Spec => []MatchesHavePlayers
<1>1. ServerInv(srv) => MatchesHavePlayers
  <2> SUFFICES ASSUME ServerInv(srv) PROVE MatchesHavePlayers
    OBVIOUS
  <2>1. srv \in Server /\ Waiting(srv) /\ Bound(srv)
    BY DEF ServerInv
  <2>2. ASSUME NEW m \in MatchId, Active(srv, m), NEW u \in Players(srv, m)
        PROVE  /\ Online(srv, u) /\ srv.matchOf[srv.online[u]] = m
               /\ ~ Queued(srv, srv.online[u])
    <3>1. Online(srv, u) /\ srv.matchOf[srv.online[u]] = m
      BY <2>1, <2>2 DEF Bound
    <3>2. srv.online[u] \in Client
      BY <2>1, <3>1, Fields DEF Online
    <3>3. m # 0
      BY DEF MatchId
    <3> QED BY <2>1, <3>1, <3>2, <3>3, QueuedIs DEF Waiting
  <2>3. \A c \in Client : srv.matchOf[c] # 0 =>
          Active(srv, srv.matchOf[c]) /\ srv.user[c] \in Players(srv, srv.matchOf[c])
    BY <2>1 DEF Bound
  <2>4. Once(srv.casual \o srv.competitive)
    <3>1. srv.casual \in Seq(Client) /\ srv.competitive \in Seq(Client)
      BY <2>1, Fields
    <3> QED BY <2>1, <3>1, OnceInBoth DEF Waiting
  <2> QED BY <2>2, <2>3, <2>4, Zenon DEF MatchesHavePlayers, Once
<1> QED BY <1>1, ServerIsSound, PTL

\* All answers about a match name one outcome, and a ranked win is rated once.
THEOREM OneOutcomeTold == Spec => []ToldOneOutcome
<1>1. ServerInv(srv) => ToldOneOutcome
  <2> SUFFICES ASSUME ServerInv(srv), NEW m \in MatchId
               PROVE  LET r == srv.match[m]
                      IN /\ \A x \in r.told :
                              r.phase = "ended"
                              /\ x[2] = (IF r.winner = Nobody THEN Void ELSE r.winner)
                         /\ r.rated = IF r.ranked /\ r.winner # Nobody THEN 1 ELSE 0
                         /\ r.winner # Nobody => r.started = Players(srv, m)
    BY Zenon DEF ToldOneOutcome
  <2>1. Sound(srv.match[m])
    BY DEF ServerInv, Records
  <2> QED BY <2>1 DEF Sound, OutcomeOf, Players
<1> QED BY <1>1, ServerIsSound, PTL

\* An offer or a challenge that is open could be played now, and a kept answer
\* offers what stands.
THEOREM OffersStand == Spec => []OffersAreLive
<1>1. ServerInv(srv) => OffersAreLive
  <2> SUFFICES ASSUME ServerInv(srv) PROVE OffersAreLive
    OBVIOUS
  <2>1. Playable(srv) /\ Promised(srv) /\ Offered(srv) /\ Challenged(srv)
    BY DEF ServerInv
  <2>2. RematchIsPlayable
    BY <2>1, QueuedIs DEF RematchIsPlayable, Playable
  <2>3. OfferMatchesAnswer
    BY <2>1, Zenon DEF OfferMatchesAnswer, Promised, Offered, Answered
  <2>4. ChallengesAreLive
    BY <2>1 DEF ChallengesAreLive, Challenged
  <2> QED BY <2>2, <2>3, <2>4 DEF OffersAreLive
<1> QED BY <1>1, ServerIsSound, PTL

\* No verification that was under way changes an identity a match began with.
THEOREM IdentityIsFixed == Spec => []IdentityFixedInMatch
<1>1. ServerInv(srv) => IdentityFixedInMatch
  BY Zenon DEF ServerInv, Identified, IdentityFixedInMatch
<1> QED BY <1>1, ServerIsSound, PTL

\* What the loops test before makeMatch is what makeMatch tests.
THEOREM LoopsEnd == Spec => []MatchmakingEnds
<1>1. ServerInv(srv) => MatchmakingEnds
  BY DEF ServerInv, MatchmakingEnds
<1> QED BY <1>1, ServerIsSound, PTL

-----------------------------------------------------------------------------
(* The server implements MatchOutcome.                                       *)

\* What MatchOutcome sees of a record.
Shape(players, phase, winner, conceded) ==
    [players |-> players, phase |-> phase, winner |-> winner, conceded |-> conceded]
Seen(k) == Shape({k.a, k.b} \ {Nobody}, k.phase, k.winner, k.conceded)

\* The ways of a match, on what is seen of its record.
Ended(p, C) == [p EXCEPT !.phase = "ended", !.conceded = C]
EndedFor(p, w, C) == [p EXCEPT !.phase = "ended", !.winner = w, !.conceded = C]
Opens(p, q) ==
    /\ p.phase = "none"
    /\ \E a, b \in User :
        a # b /\ q = [Outcome!NoMatch EXCEPT !.players = {a, b}, !.phase = "setup"]
Commits(p, q) == p.phase = "setup" /\ q = [p EXCEPT !.phase = "playing"]
Concedes(p, q) ==
    /\ p.phase = "playing"
    /\ \E C \in SUBSET p.players : q = [p EXCEPT !.conceded = p.conceded \cup C]
WonBy(p, q, w, l, C) ==
    /\ w # l
    /\ l \in p.conceded \cup C
    /\ q = EndedFor(p, w, p.conceded \cup C)
IsWon(p, q) ==
    /\ p.phase = "playing"
    /\ \E w, l \in p.players, C \in SUBSET p.players : WonBy(p, q, w, l, C)
IsVoid(p, q) ==
    /\ p.phase \in {"setup", "playing"}
    /\ \E C \in SUBSET p.players : q = Ended(p, p.conceded \cup C)

LEMMA SeenIs ==
    ASSUME NEW k \in Match, Sound(k), NEW p, p = Seen(k)
    PROVE  /\ p = Shape(p.players, k.phase, k.winner, k.conceded)
           /\ p.phase = k.phase /\ p.winner = k.winner /\ p.conceded = k.conceded
           /\ k.phase = "none" => p = Outcome!NoMatch
           /\ k.phase # "none" =>
                p.players = {k.a, k.b} /\ k.a \in User /\ k.b \in User /\ k.a # k.b
           /\ k.conceded \subseteq {k.a, k.b}
           /\ k.phase # "ended" => k.winner = Nobody
           /\ k.winner # Nobody => k.winner \in {k.a, k.b} /\ \E l \in k.conceded : l # k.winner
<1>1. /\ k.phase = "none" => k = NoMatch
      /\ k.phase # "none" => {k.a, k.b} \subseteq User /\ k.a # k.b
      /\ k.conceded \subseteq {k.a, k.b}
      /\ k.phase # "ended" => k.winner = Nobody
      /\ k.winner # Nobody => k.winner \in {k.a, k.b} /\ \E l \in k.conceded : l # k.winner
  BY DEF Sound
<1>2. k.phase = "none" => p = Outcome!NoMatch
  <2>1. /\ NoMatch.a = Nobody /\ NoMatch.b = Nobody /\ NoMatch.phase = "none"
        /\ NoMatch.winner = Nobody /\ NoMatch.conceded = {}
    BY DEF NoMatch
  <2> QED BY <1>1, <2>1 DEF Seen, Shape, Outcome!NoMatch
<1>3. k.phase # "none" => p.players = {k.a, k.b}
  BY <1>1, ServerAssumption DEF Seen, Shape
<1>4. /\ p.players = {k.a, k.b} \ {Nobody} /\ p.phase = k.phase /\ p.winner = k.winner
      /\ p.conceded = k.conceded
  BY DEF Seen, Shape
<1>5. p = Shape(p.players, k.phase, k.winner, k.conceded)
  BY <1>4, Zenon DEF Seen
<1> QED BY <1>1, <1>2, <1>3, <1>4, <1>5

\* Records that differ in what a way changes.
LEMMA SeenEnds ==
    ASSUME NEW A, NEW ph, NEW w, NEW D, NEW p, p = Shape(A, ph, w, D), NEW v, NEW E
    PROVE  Ended(p, E) = Shape(A, "ended", w, E) /\ EndedFor(p, v, E) = Shape(A, "ended", v, E)
<1> DEFINE x == [p EXCEPT !.phase = "ended"]
           y == [x EXCEPT !.winner = v]
<1>1. x = Shape(A, "ended", w, D)
  BY DEF Shape
<1>2. Ended(p, E) = [x EXCEPT !.conceded = E]
  BY Zenon DEF Ended
<1>3. EndedFor(p, v, E) = [y EXCEPT !.conceded = E]
  BY Zenon DEF EndedFor
<1> HIDE DEF x
<1>4. y = Shape(A, "ended", v, D)
  BY <1>1 DEF Shape
<1> HIDE DEF y
<1>5. [x EXCEPT !.conceded = E] = Shape(A, "ended", w, E)
  BY <1>1 DEF Shape
<1>6. [y EXCEPT !.conceded = E] = Shape(A, "ended", v, E)
  BY <1>4 DEF Shape
<1> QED BY <1>2, <1>3, <1>5, <1>6, Zenon

LEMMA SeenOpens ==
    ASSUME NEW A
    PROVE  [Outcome!NoMatch EXCEPT !.players = A, !.phase = "setup"]
             = Shape(A, "setup", Nobody, {})
<1> DEFINE n == Outcome!NoMatch
           x == [n EXCEPT !.players = A]
<1>1. n = Shape({}, "none", Nobody, {})
  BY Zenon DEF Outcome!NoMatch, Shape
<1>2. [Outcome!NoMatch EXCEPT !.players = A, !.phase = "setup"] = [x EXCEPT !.phase = "setup"]
  BY Zenon
<1> HIDE DEF n
<1>3. x = Shape(A, "none", Nobody, {})
  BY <1>1 DEF Shape
<1> HIDE DEF x
<1>4. [x EXCEPT !.phase = "setup"] = Shape(A, "setup", Nobody, {})
  BY <1>3 DEF Shape
<1> QED BY <1>2, <1>4, Zenon

\* A step of a record is a step of the match.
LEMMA SeenStep ==
    ASSUME NEW k \in Match, NEW j \in Match, Sound(k), Sound(j), StepOf(k, j),
           NEW p, p = Seen(k), NEW q, q = Seen(j)
    PROVE  \/ q = p \/ Opens(p, q) \/ Commits(p, q) \/ Concedes(p, q)
           \/ IsWon(p, q) \/ IsVoid(p, q)
<1>1. /\ p = Shape(p.players, k.phase, k.winner, k.conceded)
      /\ p.phase = k.phase /\ p.winner = k.winner /\ p.conceded = k.conceded
      /\ k.phase = "none" => p = Outcome!NoMatch
      /\ k.phase # "none" => p.players = {k.a, k.b}
      /\ k.phase # "ended" => k.winner = Nobody
  BY SeenIs
<1>2. /\ q = Shape(q.players, j.phase, j.winner, j.conceded)
      /\ j.phase # "none" =>
           q.players = {j.a, j.b} /\ j.a \in User /\ j.b \in User /\ j.a # j.b
      /\ j.conceded \subseteq {j.a, j.b}
      /\ j.winner # Nobody => j.winner \in {j.a, j.b} /\ \E l \in j.conceded : l # j.winner
  BY SeenIs
<1>3. k.a = j.a /\ k.b = j.b => p.players = q.players
  BY DEF Seen, Shape
<1>9. p = Shape(p.players, k.phase, k.winner, k.conceded)
  BY <1>1
<1>4. CASE j = k
  BY <1>4
<1>5. CASE Begins(k, j)
  <2>1. q = [Outcome!NoMatch EXCEPT !.players = {j.a, j.b}, !.phase = "setup"]
    <3>1. q = Shape({j.a, j.b}, "setup", Nobody, {})
      <4>1. q.players = {j.a, j.b} /\ j.phase = "setup" /\ j.winner = Nobody /\ j.conceded = {}
        BY <1>2, <1>5 DEF Begins
      <4> QED BY <1>2, <4>1, Zenon
    <3> QED BY <3>1, SeenOpens, Zenon
  <2>2. p.phase = "none" /\ j.a \in User /\ j.b \in User /\ j.a # j.b
    BY <1>1, <1>2, <1>5 DEF Begins
  <2>3. Opens(p, q)
    BY <2>1, <2>2 DEF Opens
  <2> QED BY <2>3
<1>6. CASE GoesOn(k, j)
  <2>1. p.players = q.players /\ j.winner = k.winner /\ j.conceded = k.conceded
    BY <1>3, <1>6 DEF GoesOn
  <2>2. CASE j.phase = k.phase
    BY <1>1, <1>2, <2>1, <2>2
  <2>3. CASE k.phase = "setup" /\ j.phase = "playing"
    BY <1>1, <1>2, <2>1, <2>3 DEF Commits, Shape
  <2> QED BY <1>6, <2>2, <2>3 DEF GoesOn
<1>7. CASE Yields(k, j)
  <2>1. /\ p.players = q.players /\ j.winner = k.winner /\ p.phase = "playing"
        /\ j.phase = "playing" /\ j.conceded \in SUBSET p.players
        /\ j.conceded = k.conceded \cup j.conceded /\ k.phase = "playing"
    BY <1>1, <1>2, <1>3, <1>7 DEF Yields
  <2>2. q = [p EXCEPT !.conceded = p.conceded \cup j.conceded]
    <3>1. p.conceded \cup j.conceded = j.conceded
      BY <1>1, <2>1
    <3>2. [p EXCEPT !.conceded = j.conceded] = Shape(p.players, k.phase, k.winner, j.conceded)
      BY <1>1 DEF Shape
    <3> QED BY <1>2, <2>1, <3>1, <3>2, Zenon
  <2>3. Concedes(p, q)
    BY <2>1, <2>2 DEF Concedes
  <2> QED BY <2>3
<1>8. CASE IsOver(k, j)
  <2>1. /\ p.players = q.players /\ j.phase = "ended" /\ k.winner = Nobody
        /\ p.phase = k.phase /\ k.phase \in {"setup", "playing"}
        /\ p.players = {j.a, j.b}
        /\ j.conceded \in SUBSET p.players /\ j.conceded = k.conceded \cup j.conceded
        /\ j.winner # Nobody => p.phase = "playing"
    BY <1>1, <1>2, <1>3, <1>8 DEF IsOver
  <2>4. p.conceded \cup j.conceded = j.conceded
    BY <1>1, <2>1
  <2>2. CASE j.winner = Nobody
    <3>1. Ended(p, j.conceded) = Shape(p.players, "ended", k.winner, j.conceded)
      BY <1>9, SeenEnds
    <3>3. q = Ended(p, p.conceded \cup j.conceded)
      BY <1>2, <2>1, <2>2, <2>4, <3>1, Zenon
    <3>2. IsVoid(p, q)
      BY <2>1, <3>3 DEF IsVoid
    <3> QED BY <3>2
  <2>3. CASE j.winner # Nobody
    <3>1. q = EndedFor(p, j.winner, p.conceded \cup j.conceded)
      <4>1. EndedFor(p, j.winner, j.conceded) = Shape(p.players, "ended", j.winner, j.conceded)
        BY <1>9, SeenEnds
      <4> QED BY <1>2, <2>1, <2>4, <4>1, Zenon
    <3>2. PICK l \in j.conceded : l # j.winner
      BY <1>2, <2>3
    <3>3. j.winner \in p.players /\ l \in p.players /\ l \in p.conceded \cup j.conceded
      BY <1>2, <2>1, <2>3, <3>2
    <3>4. WonBy(p, q, j.winner, l, j.conceded)
      BY <3>1, <3>2, <3>3, Zenon DEF WonBy
    <3>5. IsWon(p, q)
      BY <2>1, <2>3, <3>3, <3>4 DEF IsWon
    <3> QED BY <3>5
  <2> QED BY <2>2, <2>3
<1> QED BY <1>4, <1>5, <1>6, <1>7, <1>8 DEF StepOf

\* Two matches that have not ended share no player.
LEMMA ApartWhileActive ==
    ASSUME NEW s, ServerInv(s), NEW m \in MatchId, NEW n \in MatchId, n # m,
           Active(s, m), Active(s, n)
    PROVE  {s.match[n].a, s.match[n].b} \cap {s.match[m].a, s.match[m].b} = {}
<1>1. ASSUME NEW u \in Players(s, m) \cap Players(s, n) PROVE FALSE
  <2>1. s.matchOf[s.online[u]] = m /\ s.matchOf[s.online[u]] = n
    BY <1>1 DEF ServerInv, Bound
  <2> QED BY <2>1
<1> QED BY <1>1 DEF Players

\* A step of the server is a step of MatchOutcome.
LEMMA ServerSteps ==
    ASSUME ServerInv(srv), ServerInv(srv'), Moves(srv, srv')
    PROVE  Outcome!OutcomeNext
<1> DEFINE f == [m \in MatchId |->
                  [players |-> Players(srv, m) \ {Nobody}, phase |-> srv.match[m].phase,
                   winner |-> srv.match[m].winner, conceded |-> srv.match[m].conceded]]
           g == [m \in MatchId |->
                  [players |-> Players(srv', m) \ {Nobody}, phase |-> srv'.match[m].phase,
                   winner |-> srv'.match[m].winner, conceded |-> srv'.match[m].conceded]]
<1>1. f' = g
  OBVIOUS
<1>2. \A m \in MatchId : f[m] = Seen(srv.match[m]) /\ g[m] = Seen(srv'.match[m])
  BY Zenon DEF Seen, Shape, Players
<1>3. /\ \A m \in MatchId : srv.match[m] \in Match /\ srv'.match[m] \in Match
      /\ \A m \in MatchId : Sound(srv.match[m]) /\ Sound(srv'.match[m])
      /\ \A m \in MatchId : StepOf(srv.match[m], srv'.match[m])
  BY Fields DEF ServerInv, Records, Moves
<1>4. g \in [MatchId -> {g[m] : m \in MatchId}]
  OBVIOUS
<1>5. ASSUME NEW m \in MatchId, f[m].phase = "none", g[m].phase = "setup",
             NEW n \in MatchId \ {m}, g[n].phase \in {"setup", "playing"}
      PROVE  g[n].players \cap g[m].players = {}
  <2> HIDE DEF f, g
  <2> DEFINE k == srv'.match[m]
             j == srv'.match[n]
  <2>1. k \in Match /\ j \in Match /\ Sound(k) /\ Sound(j) /\ g[m] = Seen(k) /\ g[n] = Seen(j)
    BY <1>2, <1>3
  <2> HIDE DEF k, j
  <2>2. g[m].phase = k.phase /\ (k.phase # "none" => g[m].players = {k.a, k.b})
    BY <2>1, SeenIs
  <2>3. g[n].phase = j.phase /\ (j.phase # "none" => g[n].players = {j.a, j.b})
    BY <2>1, SeenIs
  <2>4. Active(srv', m) /\ Active(srv', n)
    BY <1>5, <2>2, <2>3 DEF Active, k, j
  <2>5. {j.a, j.b} \cap {k.a, k.b} = {}
    BY <2>4, ApartWhileActive DEF k, j
  <2> QED BY <1>5, <2>2, <2>3, <2>5
<1>6. ASSUME NEW m \in MatchId
      PROVE  \/ g[m] = f[m] \/ Opens(f[m], g[m]) \/ Commits(f[m], g[m])
             \/ Concedes(f[m], g[m]) \/ IsWon(f[m], g[m]) \/ IsVoid(f[m], g[m])
  <2> HIDE DEF f, g
  <2> QED BY <1>2, <1>3, SeenStep
<1>7. ASSUME NEW m \in MatchId
      PROVE  Outcome!Keeps(m) \/ Outcome!Step(m)
  <2> USE <1>1
  <2>1. CASE g[m] = f[m]
    <3>1. Outcome!Keeps(m)
      BY <2>1, Zenon DEF Outcome!Keeps
    <3> QED BY <3>1
  <2>2. CASE Opens(f[m], g[m])
    <3>1. f[m].phase = "none"
      BY <2>2, Zenon DEF Opens
    <3>2. \E a, b \in User :
            a # b /\ g[m] = [Outcome!NoMatch EXCEPT !.players = {a, b}, !.phase = "setup"]
      BY <2>2, Zenon DEF Opens
    <3>3. g[m].phase = "setup"
      <4> HIDE DEF g
      <4> QED BY <3>2, SeenOpens DEF Shape
    <3>4. \A n \in MatchId \ {m} :
            g[n].phase \in Outcome!Open => g[n].players \cap g[m].players = {}
      <4> HIDE DEF f, g
      <4> QED BY <1>5, <3>1, <3>3 DEF Outcome!Open
    <3>5. Outcome!Start(m)
      BY <3>1, <3>2, <3>4, Zenon DEF Outcome!Start
    <3> QED BY <3>5 DEF Outcome!Step
  <2>3. CASE Commits(f[m], g[m])
    <3>1. Outcome!Begin(m)
      BY <2>3, Zenon DEF Commits, Outcome!Begin
    <3> QED BY <3>1 DEF Outcome!Step
  <2>4. CASE Concedes(f[m], g[m])
    <3>1. Outcome!Concede(m)
      BY <2>4, Zenon DEF Concedes, Outcome!Concede
    <3> QED BY <3>1 DEF Outcome!Step
  <2>5. CASE IsWon(f[m], g[m])
    <3>1. Outcome!Win(m)
      BY <2>5, Zenon DEF IsWon, WonBy, EndedFor, Outcome!Win
    <3> QED BY <3>1 DEF Outcome!Step
  <2>6. CASE IsVoid(f[m], g[m])
    <3>1. Outcome!Void(m)
      BY <2>6, Zenon DEF IsVoid, Ended, Outcome!Void, Outcome!Open
    <3> QED BY <3>1 DEF Outcome!Step
  <2> QED BY <1>6, <2>1, <2>2, <2>3, <2>4, <2>5, <2>6
<1> QED BY <1>1, <1>4, <1>7, Zenon DEF Outcome!OutcomeNext

LEMMA ServerStarts ==
    ASSUME Init
    PROVE  Outcome!OutcomeInit
<1>1. ServerInv(srv) /\ \A m \in MatchId : srv.match[m] = NoMatch
  <2>1. PICK traffic \in Traffic : \E f \in traffic.manifests : BeginsWith(srv, traffic, f)
    BY Zenon DEF Init, FieldsOf, BeginsWith
  <2>2. PICK f \in traffic.manifests : BeginsWith(srv, traffic, f)
    BY <2>1
  <2>3. srv.match = [m \in MatchId |-> NoMatch]
    BY <2>2 DEF BeginsWith, FieldsOf
  <2> QED BY <2>3, InitInv
<1>2. ASSUME NEW m \in MatchId
      PROVE  [players |-> Players(srv, m) \ {Nobody}, phase |-> srv.match[m].phase,
              winner |-> srv.match[m].winner, conceded |-> srv.match[m].conceded]
               = Outcome!NoMatch
  <2>1. Seen(NoMatch) = Outcome!NoMatch
    BY BlankRecord, SeenIs
  <2> QED BY <1>1, <2>1, Zenon DEF Seen, Shape, Players
<1> QED BY <1>2, Zenon DEF Outcome!OutcomeInit

\* Every match of the server goes the way of MatchOutcome, whatever the
\* clients send and in whatever order the timers fire.
THEOREM ServerImplementsOutcome == Spec => ImplementsOutcome
<1>1. Init => Outcome!OutcomeInit
  BY ServerStarts
<1>2. ServerInv(srv) /\ ServerInv(srv)' /\ [Next]_vars => Outcome!OutcomeNext
  BY NextCarries, ServerSteps DEF Carries
<1> QED BY <1>1, <1>2, ServerIsSound, PTL DEF Spec, ImplementsOutcome, Outcome!OutcomeSpec
=============================================================================
