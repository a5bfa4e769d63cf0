-------------------------- MODULE MatchServerLemmas --------------------------
(***************************************************************************)
(* The match server's inductive invariant, and that the operators its      *)
(* handlers are built from keep it: queues, offers, the end and the making *)
(* of a match, matchmaking, the sweep, and destroyClient.                  *)
(***************************************************************************)
EXTENDS MatchServer, BoundLemmas, SequenceTheorems, FiniteSetTheorems

-----------------------------------------------------------------------------
(* Types. *)

UserOr == User \cup {Nobody}

Manifest == [build : Nat, maps : SUBSET Map, caps : SUBSET {"udp", "eos"}]
TrafficType ==
    [clients : SUBSET Client, users : SUBSET User, types : SUBSET STRING,
     manifests : SUBSET Manifest, signed : SUBSET (Client \X User),
     matches : 0 .. MaxMatch]
Proof == [client : Client, user : User, puid : Puid]
Answer == [id : 0 .. MaxMatch, outcome : UserOr \cup {Void}, rematch : BOOLEAN]
Offer == [from : User, to : User, map : Map, expired : BOOLEAN]
Rematch ==
    [id : MatchId, a : User, b : User, map : Map \cup {NoMap},
     accepted : SUBSET User, expired : BOOLEAN]
Phase == {"none", "setup", "playing", "ended"}
Match ==
    [phase : Phase, a : UserOr, b : UserOr, ranked : BOOLEAN, eos : BOOLEAN,
     puid : [User -> Puid \cup {NoPuid}], map : Map \cup {NoMap},
     started : SUBSET User, result : [User -> UserOr], failed : SUBSET User,
     timer : BOOLEAN, stale : BOOLEAN, winner : UserOr,
     conceded : SUBSET User, rated : Nat,
     told : SUBSET (User \X (UserOr \cup {Void}))]

Server ==
    [traffic : TrafficType, clients : SUBSET Client,
     user : [Client -> UserOr], online : [User -> Client \cup {NoClient}],
     manifest : [Client -> Manifest], verified : [Client -> Puid \cup {NoPuid}],
     pending : SUBSET Proof, casual : Seq(Client), competitive : Seq(Client),
     matchOf : [Client -> 0 .. MaxMatch], terminal : [Client -> Answer],
     friends : SUBSET (User \X User), asked : SUBSET (User \X User),
     blocked : SUBSET (User \X User), challenges : SUBSET Offer,
     match : [MatchId -> Match], next : 1 .. MaxMatch + 1,
     rematches : SUBSET Rematch, hung : BOOLEAN]

-----------------------------------------------------------------------------
(* The inductive invariant. *)

\* A connection and the account on it name each other.
Presence(s) ==
    /\ \A c \in Client : s.user[c] # Nobody =>
        c \in s.clients /\ s.online[s.user[c]] = c
    /\ \A u \in User : s.online[u] # NoClient => s.user[s.online[u]] = u

\* A connection without an account is in no match and remembers none.
Blank(s) ==
    \A c \in Client : s.user[c] = Nobody =>
        s.matchOf[c] = 0 /\ s.terminal[c] = NoTerminal

\* A queue has a client once.
Once(q) == \A i, j \in 1 .. Len(q) : q[i] = q[j] => i = j
In(q, c) == \E i \in 1 .. Len(q) : q[i] = c

\* Who waits has an account, no match, and one place in one queue.
Waiting(s) ==
    /\ Once(s.casual) /\ Once(s.competitive)
    /\ \A c \in Client : ~ (In(s.casual, c) /\ In(s.competitive, c))
    /\ \A c \in Client : In(s.casual, c) \/ In(s.competitive, c) =>
        s.user[c] # Nobody /\ s.matchOf[c] = 0

\* A match and its players name each other.
Bound(s) ==
    /\ \A m \in MatchId : Active(s, m) => \A u \in Players(s, m) :
        Online(s, u) /\ s.matchOf[s.online[u]] = m
    /\ \A c \in Client : s.matchOf[c] # 0 =>
        Active(s, s.matchOf[c]) /\ s.user[c] \in Players(s, s.matchOf[c])

OutcomeOf(r) == IF r.winner = Nobody THEN Void ELSE r.winner

\* What a match's record says of itself.
Sound(r) ==
    LET players == {r.a, r.b}
    IN /\ r.phase = "none" => r = NoMatch
       /\ r.phase # "none" => players \subseteq User /\ r.a # r.b
       /\ r.phase # "ended" => r.told = {} /\ r.winner = Nobody
       /\ r.phase = "playing" => r.started = players
       /\ r.started \subseteq players /\ r.failed \subseteq players
       /\ r.conceded \subseteq players
       /\ r.winner # Nobody =>
            /\ r.winner \in players /\ r.started = players
            /\ \E l \in r.conceded : l # r.winner
       /\ r.rated = IF r.ranked /\ r.winner # Nobody THEN 1 ELSE 0
       /\ \A x \in r.told : x[2] = OutcomeOf(r)
       /\ \A u \in User : r.result[u] # Nobody =>
            u \in players /\ r.result[u] \in players
            /\ (r.result[u] # u => u \in r.conceded)

Records(s) ==
    \A m \in MatchId :
        Sound(s.match[m]) /\ (m >= s.next <=> s.match[m].phase = "none")

\* A kept answer is about a match that has ended, and says how.
Answers(s) ==
    \A c \in Client : s.terminal[c].id # 0 =>
        LET r == s.match[s.terminal[c].id]
        IN r.phase = "ended" /\ s.terminal[c].outcome = OutcomeOf(r)

\* The identities an EOS match began with are those its players have.
Identified(s) ==
    \A m \in MatchId : Active(s, m) /\ s.match[m].eos => \A u \in Players(s, m) :
        /\ s.match[m].puid[u] # NoPuid
        /\ s.verified[s.online[u]] = s.match[m].puid[u]

\* An offer is of the match it names, which has no other.
OfferNames(s) ==
    /\ \A r \in s.rematches :
        LET k == s.match[r.id]
        IN r.a # r.b /\ k.phase = "ended" /\ k.a = r.a /\ k.b = r.b
    /\ \A r, q \in s.rematches : r.id = q.id => r = q

Playable(s) ==
    \A r \in s.rematches :
        /\ ~ BlockEachOther(s, r.a, r.b)
        /\ \A u \in {r.a, r.b} :
            /\ Online(s, u)
            /\ s.matchOf[s.online[u]] = 0
            /\ ~ In(s.casual, s.online[u]) /\ ~ In(s.competitive, s.online[u])

\* An answer that offers a rematch has one to offer ...
Promised(s) ==
    \A c \in Client : s.terminal[c].rematch =>
        \E r \in s.rematches : r.id = s.terminal[c].id /\ s.user[c] \in {r.a, r.b}

\* ... and each rematch is in the answers of both its players.
Answered(s, r, u) ==
    /\ s.terminal[s.online[u]].id = r.id
    /\ ~ r.expired => s.terminal[s.online[u]].rematch
Offered(s) == \A r \in s.rematches : \A u \in {r.a, r.b} : Answered(s, r, u)

Challenged(s) ==
    \A h \in s.challenges :
        /\ h.from # h.to
        /\ Online(s, h.from) /\ Online(s, h.to) /\ ~ BlockEachOther(s, h.from, h.to)

Befriended(s) == \A u \in User : <<u, u>> \notin s.friends /\ <<u, u>> \notin s.asked

ServerInv(s) ==
    /\ s \in Server
    /\ Presence(s) /\ Blank(s) /\ Waiting(s) /\ Bound(s)
    /\ Records(s) /\ Answers(s) /\ Identified(s)
    /\ OfferNames(s) /\ Playable(s) /\ Promised(s) /\ Offered(s)
    /\ Challenged(s) /\ Befriended(s) /\ ~ s.hung

-----------------------------------------------------------------------------
(* Iteration: what the matchmaking loops and the sweep's loop compute. *)

\* The first n steps of an iteration that stays in S.
Runs(S, a, step, n) ==
    {g \in [0 .. n -> S] : g[0] = a /\ \A i \in 0 .. n - 1 : g[i + 1] = step[i][g[i]]}

LEMMA RunsExist ==
    ASSUME NEW S, NEW a \in S, NEW step \in [Nat -> [S -> S]], NEW n \in Nat
    PROVE  Runs(S, a, step, n) # {}
<1> DEFINE Bad == {i \in Nat : Runs(S, a, step, i) = {}}
<1> SUFFICES ASSUME Bad # {} PROVE FALSE
  OBVIOUS
<1>1. PICK k \in Bad : \A i \in Bad : k <= i
  <2>1. Bad \subseteq Nat
    OBVIOUS
  <2> HIDE DEF Bad
  <2> QED BY <2>1, Least
<1>2. k # 0
  <2> DEFINE g == [i \in 0 .. 0 |-> a]
  <2>1. g \in Runs(S, a, step, 0)
    BY DEF Runs
  <2> QED BY <1>1, <2>1
<1>3. k - 1 \in Nat /\ k - 1 \notin Bad
  <2>1. k \in Nat /\ k - 1 \in Nat /\ ~ (k <= k - 1)
    BY <1>1, <1>2
  <2> QED BY <1>1, <2>1
<1>4. PICK g : g \in Runs(S, a, step, k - 1)
  BY <1>3
<1> DEFINE h == [i \in 0 .. k |-> IF i = k THEN step[k - 1][g[k - 1]] ELSE g[i]]
<1>5. g \in [0 .. k - 1 -> S] /\ g[0] = a
      /\ \A i \in 0 .. k - 2 : g[i + 1] = step[i][g[i]]
  <2>1. (k - 1) - 1 = k - 2
    BY <1>3
  <2> QED BY <1>4, <2>1 DEF Runs
<1>6. h \in [0 .. k -> S]
  <2>1. step[k - 1] \in [S -> S] /\ g[k - 1] \in S
    BY <1>3, <1>5
  <2>2. \A i \in 0 .. k : i # k => g[i] \in S
    BY <1>3, <1>5
  <2> QED BY <2>1, <2>2
<1>7. h[0] = a
  BY <1>2, <1>3, <1>5
<1>8. ASSUME NEW i \in 0 .. k - 1 PROVE h[i + 1] = step[i][h[i]]
  <2>1. i \in 0 .. k /\ i + 1 \in 0 .. k /\ i # k
    BY <1>3
  <2>2. h[i] = g[i]
    BY <2>1
  <2>3. CASE i = k - 1
    <3>1. i + 1 = k
      BY <1>3, <2>3
    <3> QED BY <2>1, <2>2, <2>3, <3>1
  <2>4. CASE i # k - 1
    <3>1. i \in 0 .. k - 2 /\ i + 1 # k
      BY <1>3, <2>4
    <3> QED BY <1>5, <2>1, <2>2, <3>1
  <2> QED BY <2>3, <2>4
<1>9. h \in Runs(S, a, step, k)
  <2> HIDE DEF h
  <2> QED BY <1>6, <1>7, <1>8 DEF Runs
<1> QED BY <1>1, <1>9

LEMMA RunsAgree ==
    ASSUME NEW S, NEW a \in S, NEW step \in [Nat -> [S -> S]],
           NEW n \in Nat, NEW g \in Runs(S, a, step, n),
           NEW h \in Runs(S, a, step, n + 1)
    PROVE  g[n] = h[n]
<1>1. /\ g \in [0 .. n -> S] /\ g[0] = a
      /\ \A i \in 0 .. n - 1 : g[i + 1] = step[i][g[i]]
  BY DEF Runs
<1>2. /\ h[0] = a
      /\ \A i \in 0 .. n : h[i + 1] = step[i][h[i]]
  <2>1. (n + 1) - 1 = n
    OBVIOUS
  <2> QED BY <2>1 DEF Runs
<1> DEFINE Bad == {i \in 0 .. n : g[i] # h[i]}
<1>3. SUFFICES ASSUME Bad # {} PROVE FALSE
  BY n \in 0 .. n
<1>4. PICK k \in Bad : \A i \in Bad : k <= i
  <2>1. Bad \subseteq Nat
    OBVIOUS
  <2> HIDE DEF Bad
  <2> QED BY <1>3, <2>1, Least
<1>5. k \in 0 .. n /\ k # 0
  BY <1>1, <1>2, <1>4
<1>6. k - 1 \in 0 .. n - 1 /\ k - 1 \in 0 .. n /\ ~ (k <= k - 1) /\ (k - 1) + 1 = k
  BY <1>5
<1>7. g[k - 1] = h[k - 1]
  BY <1>4, <1>6
<1>8. g[k] = h[k]
  BY <1>1, <1>2, <1>6, <1>7
<1> QED BY <1>4, <1>8

Iterated(S, a, step) ==
    \E f \in [Nat -> S] : f[0] = a /\ \A n \in Nat : f[n + 1] = step[n][f[n]]

\* A step that stays in S can be iterated in S.
LEMMA Iterates ==
    ASSUME NEW S, NEW a \in S, NEW step \in [Nat -> [S -> S]]
    PROVE  Iterated(S, a, step)
<1> DEFINE G(n) == CHOOSE g : g \in Runs(S, a, step, n)
           f == [n \in Nat |-> G(n)[n]]
<1>1. ASSUME NEW n \in Nat PROVE G(n) \in Runs(S, a, step, n)
  BY RunsExist
<1> HIDE DEF G
<1>2. f \in [Nat -> S]
  <2>1. ASSUME NEW n \in Nat PROVE G(n)[n] \in S
    <3>1. G(n) \in [0 .. n -> S] /\ n \in 0 .. n
      BY <1>1 DEF Runs
    <3> QED BY <3>1
  <2> QED BY <2>1
<1>3. f[0] = a
  <2>1. G(0)[0] = a
    BY <1>1 DEF Runs
  <2> QED BY <2>1
<1>4. ASSUME NEW n \in Nat PROVE f[n + 1] = step[n][f[n]]
  <2>1. n + 1 \in Nat /\ n \in 0 .. (n + 1) - 1
    OBVIOUS
  <2>2. G(n + 1)[n + 1] = step[n][G(n + 1)[n]]
    BY <1>1, <2>1 DEF Runs
  <2>3. G(n)[n] = G(n + 1)[n]
    BY <1>1, <2>1, RunsAgree
  <2> QED BY <2>1, <2>2, <2>3
<1> HIDE DEF f
<1> QED BY <1>2, <1>3, <1>4 DEF Iterated

\* A loop over a queue stays in S if a turn of it does.
LEMMA LoopStays ==
    ASSUME NEW S, NEW s \in S, NEW ranked, NEW near, NEW pick,
           \A x \in S : PairUp(x, ranked, near, pick) \in S
    PROVE  Loop(s, ranked, near, pick) \in S
<1> DEFINE step == [n \in Nat |-> [x \in S |-> PairUp(x, ranked, near, pick)]]
           turn == CHOOSE turn : turn =
               [n \in Nat |-> IF n = 0 THEN s ELSE PairUp(turn[n - 1], ranked, near, pick)]
           k == Cardinality(Client) \div 2
<1>1. PICK f \in [Nat -> S] : f[0] = s /\ \A n \in Nat : f[n + 1] = step[n][f[n]]
  <2>1. step \in [Nat -> [S -> S]]
    OBVIOUS
  <2> HIDE DEF step
  <2>2. Iterated(S, s, step)
    BY <2>1, Iterates
  <2> QED BY <2>2 DEF Iterated
<1>2. \A n \in Nat : f[n + 1] = PairUp(f[n], ranked, near, pick)
  BY <1>1
<1>3. f = [n \in Nat |-> IF n = 0 THEN s ELSE PairUp(f[n - 1], ranked, near, pick)]
  <2> HIDE DEF step
  <2>1. ASSUME NEW n \in Nat \ {0}
        PROVE  f[n] = PairUp(f[n - 1], ranked, near, pick)
    <3>1. n - 1 \in Nat /\ (n - 1) + 1 = n
      OBVIOUS
    <3> QED BY <1>2, <3>1
  <2> QED BY <1>1, <2>1
<1>4. turn = [n \in Nat |-> IF n = 0 THEN s ELSE PairUp(turn[n - 1], ranked, near, pick)]
  <2> HIDE DEF step
  <2> QED BY <1>3
<1>5. Loop(s, ranked, near, pick) = turn[k]
  BY DEF Loop
<1>6. k \in Nat
  <2>1. Cardinality(Client) \in Nat
    BY ServerAssumption, FS_CardinalityType
  <2> QED BY <2>1
<1> HIDE DEF turn, step, k
<1>7. \A n \in Nat : turn[n] \in S
  <2> DEFINE Bad == {n \in Nat : turn[n] \notin S}
  <2> SUFFICES ASSUME Bad # {} PROVE FALSE
    OBVIOUS
  <2>1. PICK n \in Bad : \A i \in Bad : n <= i
    <3>1. Bad \subseteq Nat
      OBVIOUS
    <3> HIDE DEF Bad
    <3> QED BY <3>1, Least
  <2>2. n # 0
    BY <1>4, <2>1
  <2>3. n - 1 \in Nat /\ ~ (n <= n - 1)
    BY <2>1, <2>2
  <2>4. turn[n - 1] \in S
    BY <2>1, <2>3
  <2>5. turn[n] = PairUp(turn[n - 1], ranked, near, pick)
    BY <1>4, <2>1, <2>2
  <2> QED BY <2>1, <2>4, <2>5
<1> QED BY <1>5, <1>6, <1>7

-----------------------------------------------------------------------------
(* Queues. *)

\* removeFromQueues takes a client out, and no one else.
LEMMA WithoutLeaves ==
    ASSUME NEW q \in Seq(Client), Once(q), NEW c
    PROVE  /\ Without(q, c) \in Seq(Client) /\ Once(Without(q, c))
           /\ \A d : In(Without(q, c), d) <=> In(q, d) /\ d # c
<1>1. CASE \A i \in 1 .. Len(q) : q[i] # c
  <2>1. Without(q, c) = q
    BY <1>1 DEF Without
  <2> QED BY <1>1, <2>1 DEF In
<1>2. CASE ~ \A i \in 1 .. Len(q) : q[i] # c
  <2> DEFINE P(i) == i \in 1 .. Len(q) /\ q[i] = c /\ \A j \in 1 .. i - 1 : q[j] # c
  <2>1. PICK i0 \in 1 .. Len(q) : q[i0] = c
    BY <1>2
  <2>2. \A j \in 1 .. i0 - 1 : q[j] # c
    <3>1. \A j \in 1 .. i0 - 1 : j \in 1 .. Len(q) /\ j # i0
      OBVIOUS
    <3> QED BY <2>1, <3>1 DEF Once
  <2>3. \E i \in 1 .. Len(q) : q[i] = c /\ \A j \in 1 .. i - 1 : q[j] # c
    BY <2>1, <2>2
  <2>4. PICK i \in 1 .. Len(q) : q[i] = c /\ Without(q, c) = RemoveAt(q, i)
    BY <1>2, <2>3 DEF Without
  <2> DEFINE r == Without(q, c)
             n == Len(q)
  <2>5. r = SubSeq(q, 1, i - 1) \o SubSeq(q, i + 1, n)
    BY <2>4 DEF RemoveAt
  <2>6. n \in Nat /\ \A k \in 1 .. n : q[k] \in Client
    OBVIOUS
  <2>7. /\ r \in Seq(Client) /\ Len(r) = n - 1
        /\ \A k \in 1 .. n - 1 : r[k] = IF k < i THEN q[k] ELSE q[k + 1]
    <3> DEFINE x == SubSeq(q, 1, i - 1)
               y == SubSeq(q, i + 1, n)
    <3>1. x \in Seq(Client) /\ Len(x) = i - 1 /\ \A k \in 1 .. i - 1 : x[k] = q[k]
      <4> HIDE DEF r
      <4> QED OBVIOUS
    <3>2. y \in Seq(Client) /\ Len(y) = n - i /\ \A k \in 1 .. n - i : y[k] = q[k + i]
      <4> HIDE DEF r
      <4> QED OBVIOUS
    <3> HIDE DEF x, y, r
    <3>3. r = x \o y
      BY <2>5 DEF x, y
    <3>4. Len(r) = n - 1 /\ r \in Seq(Client)
      <4>1. r \in Seq(Client) /\ Len(r) = Len(x) + Len(y)
        BY <3>1, <3>2, <3>3, ConcatProperties
      <4> QED BY <3>1, <3>2, <4>1, <2>6
    <3>5. ASSUME NEW k \in 1 .. n - 1 PROVE r[k] = IF k < i THEN q[k] ELSE q[k + 1]
      <4>1. CASE k < i
        BY <3>1, <3>2, <3>3, <2>6, <4>1
      <4>2. CASE ~ (k < i)
        <5>1. r[k] = y[k - (i - 1)] /\ k - (i - 1) \in 1 .. n - i
          BY <3>1, <3>2, <3>3, <2>6, <4>2
        <5>2. y[k - (i - 1)] = q[(k - (i - 1)) + i] /\ (k - (i - 1)) + i = k + 1
          BY <3>2, <5>1, <2>6
        <5> QED BY <4>2, <5>1, <5>2
      <4> QED BY <4>1, <4>2
    <3> QED BY <3>4, <3>5
  <2> HIDE DEF r, n
  <2>8. i \in 1 .. n /\ \A j, k \in 1 .. n : q[j] = q[k] => j = k
    BY DEF Once, n
  <2>9. Once(r)
    <3>1. ASSUME NEW j \in 1 .. n - 1, NEW k \in 1 .. n - 1, r[j] = r[k]
          PROVE  j = k
      <4> DEFINE jj == IF j < i THEN j ELSE j + 1
                 kk == IF k < i THEN k ELSE k + 1
      <4>1. jj \in 1 .. n /\ kk \in 1 .. n /\ (jj = kk => j = k)
        BY <2>6, <2>8
      <4>2. r[j] = q[jj] /\ r[k] = q[kk]
        BY <2>7
      <4> HIDE DEF jj, kk
      <4> QED BY <2>8, <3>1, <4>1, <4>2
    <3> QED BY <2>7, <3>1 DEF Once
  <2>10. ASSUME NEW d PROVE In(r, d) <=> In(q, d) /\ d # c
    <3>1. ASSUME In(r, d) PROVE In(q, d) /\ d # c
      <4>1. PICK k \in 1 .. n - 1 : r[k] = d
        BY <2>7, <3>1 DEF In
      <4> DEFINE kk == IF k < i THEN k ELSE k + 1
      <4>2. kk \in 1 .. n /\ kk # i
        BY <2>6, <2>8
      <4>3. q[kk] = d
        BY <2>7, <4>1
      <4> HIDE DEF kk
      <4> QED BY <2>4, <2>8, <4>2, <4>3 DEF In, n
    <3>2. ASSUME In(q, d), d # c PROVE In(r, d)
      <4>1. PICK k \in 1 .. n : q[k] = d
        BY <3>2 DEF In, n
      <4>2. k # i
        BY <2>4, <3>2, <4>1
      <4> DEFINE kk == IF k < i THEN k ELSE k - 1
      <4>3. kk \in 1 .. n - 1 /\ (IF kk < i THEN kk ELSE kk + 1) = k
        BY <2>6, <2>8, <4>2
      <4> HIDE DEF kk
      <4>4. r[kk] = q[k]
        BY <2>7, <4>3
      <4> QED BY <2>7, <4>1, <4>3, <4>4 DEF In
    <3> QED BY <3>1, <3>2
  <2> QED BY <2>7, <2>9, <2>10 DEF r
<1> QED BY <1>1, <1>2

\* The pair the loops try is one that fits.
LEMMA FirstIsIn ==
    ASSUME NEW P, P \subseteq Nat \X Nat, P # {}
    PROVE  First(P) \in P
<1> DEFINE Heads == {p[1] : p \in P}
<1>1. PICK x \in Heads : \A y \in Heads : x <= y
  <2>1. Heads \subseteq Nat /\ Heads # {}
    OBVIOUS
  <2> HIDE DEF Heads
  <2> QED BY <2>1, Least
<1> DEFINE Tails == {p[2] : p \in {p \in P : p[1] = x}}
<1>2. PICK z \in Tails : \A y \in Tails : z <= y
  <2>1. Tails \subseteq Nat /\ Tails # {}
    BY <1>1
  <2> HIDE DEF Heads, Tails
  <2> QED BY <2>1, Least
<1>3. PICK p \in P : p[1] = x /\ p[2] = z
  BY <1>2
<1>4. \A q \in P : p[1] < q[1] \/ (p[1] = q[1] /\ p[2] <= q[2])
  <2> SUFFICES ASSUME NEW q \in P PROVE p[1] < q[1] \/ (p[1] = q[1] /\ p[2] <= q[2])
    OBVIOUS
  <2>1. q[1] \in Heads /\ x <= q[1] /\ q[1] \in Nat /\ q[2] \in Nat /\ x \in Nat
    <3>1. q[1] \in Heads
      OBVIOUS
    <3>2. q[1] \in Nat /\ q[2] \in Nat /\ p[1] \in Nat
      OBVIOUS
    <3> QED BY <1>1, <1>3, <3>1, <3>2
  <2>2. q[1] = x => q[2] \in Tails
    OBVIOUS
  <2> HIDE DEF Heads, Tails
  <2> QED BY <1>2, <1>3, <2>1, <2>2
<1> QED BY <1>3, <1>4 DEF First

-----------------------------------------------------------------------------
(* What an update of some of the server's collections leaves alone. *)

SameRun(s, t) == t.traffic = s.traffic /\ t.hung = s.hung
SamePeople(s, t) == t.clients = s.clients /\ t.user = s.user /\ t.online = s.online
SameProofs(s, t) ==
    t.manifest = s.manifest /\ t.verified = s.verified /\ t.pending = s.pending
SameFriends(s, t) ==
    t.friends = s.friends /\ t.asked = s.asked /\ t.blocked = s.blocked
SameQueues(s, t) == t.casual = s.casual /\ t.competitive = s.competitive
SameRecords(s, t) == t.match = s.match /\ t.next = s.next

LEMMA Fields ==
    ASSUME NEW s \in Server
    PROVE  /\ s.traffic \in TrafficType /\ s.clients \subseteq Client
           /\ s.user \in [Client -> UserOr]
           /\ s.online \in [User -> Client \cup {NoClient}]
           /\ s.manifest \in [Client -> Manifest]
           /\ s.verified \in [Client -> Puid \cup {NoPuid}]
           /\ s.pending \subseteq Proof
           /\ s.casual \in Seq(Client) /\ s.competitive \in Seq(Client)
           /\ s.matchOf \in [Client -> 0 .. MaxMatch]
           /\ s.terminal \in [Client -> Answer]
           /\ s.friends \subseteq User \X User /\ s.asked \subseteq User \X User
           /\ s.blocked \subseteq User \X User
           /\ s.challenges \subseteq Offer
           /\ s.match \in [MatchId -> Match]
           /\ s.next \in 1 .. MaxMatch + 1
           /\ s.rematches \subseteq Rematch
           /\ s.hung \in BOOLEAN
  BY DEF Server

WithQueues(s, q, p) ==
    [s EXCEPT !.casual = q, !.competitive = p]

LEMMA SetQueues ==
    ASSUME NEW s \in Server, NEW q \in Seq(Client), NEW p \in Seq(Client),
           NEW t, t = WithQueues(s, q, p)
    PROVE  /\ t \in Server /\ t.casual = q /\ t.competitive = p
           /\ SameRun(s, t) /\ SamePeople(s, t) /\ SameProofs(s, t) /\ SameFriends(s, t)
           /\ SameRecords(s, t) /\ t.matchOf = s.matchOf /\ t.terminal = s.terminal
           /\ t.rematches = s.rematches /\ t.challenges = s.challenges
  BY DEF WithQueues, Server, SameRun, SamePeople, SameProofs, SameFriends, SameRecords

WithOffers(s, R, T) ==
    [s EXCEPT !.rematches = R, !.terminal = T]

LEMMA SetOffers ==
    ASSUME NEW s \in Server, NEW R \in SUBSET Rematch, NEW T \in [Client -> Answer],
           NEW t, t = WithOffers(s, R, T)
    PROVE  /\ t \in Server /\ t.rematches = R /\ t.terminal = T
           /\ SameRun(s, t) /\ SamePeople(s, t) /\ SameProofs(s, t) /\ SameFriends(s, t)
           /\ SameRecords(s, t) /\ SameQueues(s, t) /\ t.matchOf = s.matchOf
           /\ t.challenges = s.challenges
  BY DEF WithOffers, Server, SameRun, SamePeople, SameProofs, SameFriends, SameRecords, SameQueues

WithRematches(s, R) ==
    [s EXCEPT !.rematches = R]

LEMMA SetRematches ==
    ASSUME NEW s \in Server, NEW R \in SUBSET Rematch,
           NEW t, t = WithRematches(s, R)
    PROVE  /\ t \in Server /\ t.rematches = R
           /\ SameRun(s, t) /\ SamePeople(s, t) /\ SameProofs(s, t) /\ SameFriends(s, t)
           /\ SameRecords(s, t) /\ SameQueues(s, t) /\ t.matchOf = s.matchOf
           /\ t.terminal = s.terminal /\ t.challenges = s.challenges
  BY DEF WithRematches, Server, SameRun, SamePeople, SameProofs, SameFriends, SameRecords, SameQueues

WithChallenges(s, H) ==
    [s EXCEPT !.challenges = H]

LEMMA SetChallenges ==
    ASSUME NEW s \in Server, NEW H \in SUBSET Offer,
           NEW t, t = WithChallenges(s, H)
    PROVE  /\ t \in Server /\ t.challenges = H
           /\ SameRun(s, t) /\ SamePeople(s, t) /\ SameProofs(s, t) /\ SameFriends(s, t)
           /\ SameRecords(s, t) /\ SameQueues(s, t) /\ t.matchOf = s.matchOf
           /\ t.terminal = s.terminal /\ t.rematches = s.rematches
  BY DEF WithChallenges, Server, SameRun, SamePeople, SameProofs, SameFriends, SameRecords, SameQueues

WithMatches(s, f) ==
    [s EXCEPT !.match = f]

LEMMA SetMatches ==
    ASSUME NEW s \in Server, NEW f \in [MatchId -> Match],
           NEW t, t = WithMatches(s, f)
    PROVE  /\ t \in Server /\ t.match = f /\ t.next = s.next
           /\ SameRun(s, t) /\ SamePeople(s, t) /\ SameProofs(s, t) /\ SameFriends(s, t)
           /\ SameQueues(s, t) /\ t.matchOf = s.matchOf /\ t.challenges = s.challenges
           /\ t.terminal = s.terminal /\ t.rematches = s.rematches
  BY DEF WithMatches, Server, SameRun, SamePeople, SameProofs, SameFriends, SameQueues

WithBound(s, b, T, f) ==
    [s EXCEPT !.matchOf = b, !.terminal = T, !.match = f]

LEMMA SetBound ==
    ASSUME NEW s \in Server, NEW b \in [Client -> 0 .. MaxMatch],
           NEW T \in [Client -> Answer], NEW f \in [MatchId -> Match],
           NEW t, t = WithBound(s, b, T, f)
    PROVE  /\ t \in Server /\ t.matchOf = b /\ t.terminal = T
           /\ t.match = f /\ t.next = s.next
           /\ SameRun(s, t) /\ SamePeople(s, t) /\ SameProofs(s, t) /\ SameFriends(s, t)
           /\ SameQueues(s, t) /\ t.challenges = s.challenges
           /\ t.rematches = s.rematches
  BY DEF WithBound, Server, SameRun, SamePeople, SameProofs, SameFriends, SameQueues

-----------------------------------------------------------------------------
(* removeFromQueues and the closing of offers keep the invariant. *)

Leaves(s, t, c) ==
    /\ Once(t.casual) /\ Once(t.competitive)
    /\ \A d : In(t.casual, d) <=> In(s.casual, d) /\ d # c
    /\ \A d : In(t.competitive, d) <=> In(s.competitive, d) /\ d # c

LEMMA RemoveEffect ==
    ASSUME NEW s \in Server, Once(s.casual), Once(s.competitive), NEW c,
           NEW t, t = RemoveFromQueues(s, c)
    PROVE  /\ t \in Server /\ Leaves(s, t, c)
           /\ SameRun(s, t) /\ SamePeople(s, t) /\ SameProofs(s, t) /\ SameFriends(s, t)
           /\ SameRecords(s, t) /\ t.matchOf = s.matchOf /\ t.terminal = s.terminal
           /\ t.rematches = s.rematches /\ t.challenges = s.challenges
<1> DEFINE q == Without(s.casual, c)
           p == Without(s.competitive, c)
<1>1. s.casual \in Seq(Client) /\ s.competitive \in Seq(Client)
  BY Fields
<1>2. /\ q \in Seq(Client) /\ Once(q)
      /\ \A d : In(q, d) <=> In(s.casual, d) /\ d # c
  BY <1>1, WithoutLeaves
<1>3. /\ p \in Seq(Client) /\ Once(p)
      /\ \A d : In(p, d) <=> In(s.competitive, d) /\ d # c
  BY <1>1, WithoutLeaves
<1>4. t = WithQueues(s, q, p)
  BY DEF RemoveFromQueues, WithQueues
<1> HIDE DEF q, p
<1> QED BY <1>2, <1>3, <1>4, SetQueues DEF Leaves

\* An offer stays one that can be played while its players stay free.
LEMMA PlayableKept ==
    ASSUME NEW s, NEW t, Playable(s), t.rematches \subseteq s.rematches,
           SamePeople(s, t), SameFriends(s, t),
           \A r \in s.rematches : \A u \in {r.a, r.b} :
                t.matchOf[s.online[u]] = s.matchOf[s.online[u]],
           \A d : In(t.casual, d) => In(s.casual, d),
           \A d : In(t.competitive, d) => In(s.competitive, d)
    PROVE  Playable(t)
<1> USE DEF SamePeople, SameFriends
<1> SUFFICES ASSUME NEW r \in s.rematches
             PROVE  /\ ~ BlockEachOther(t, r.a, r.b)
                    /\ \A u \in {r.a, r.b} :
                          /\ Online(t, u) /\ t.matchOf[t.online[u]] = 0
                          /\ ~ In(t.casual, t.online[u])
                          /\ ~ In(t.competitive, t.online[u])
  BY DEF Playable
<1>1. ~ BlockEachOther(t, r.a, r.b)
  BY DEF Playable, BlockEachOther
<1>2. ASSUME NEW u \in {r.a, r.b}
      PROVE  /\ Online(t, u) /\ t.matchOf[t.online[u]] = 0
             /\ ~ In(t.casual, t.online[u]) /\ ~ In(t.competitive, t.online[u])
  BY DEF Playable, Online
<1> QED BY <1>1, <1>2

LEMMA OfferedKept ==
    ASSUME NEW s, NEW t, Promised(s), Offered(s), SamePeople(s, t),
           t.terminal = s.terminal, t.rematches = s.rematches
    PROVE  Promised(t) /\ Offered(t)
<1>1. Promised(t)
  BY DEF Promised, SamePeople
<1>2. ASSUME NEW r, NEW u PROVE Answered(t, r, u) <=> Answered(s, r, u)
  BY DEF Answered, SamePeople
<1>3. Offered(t)
  BY <1>2 DEF Offered
<1> QED BY <1>1, <1>3

LEMMA BoundKept ==
    ASSUME NEW s, NEW t, Bound(s), SamePeople(s, t),
           t.match = s.match, t.matchOf = s.matchOf
    PROVE  Bound(t)
<1>1. ASSUME NEW m PROVE Active(t, m) = Active(s, m) /\ Players(t, m) = Players(s, m)
  BY DEF Active, Players
<1>2. ASSUME NEW u PROVE Online(t, u) <=> Online(s, u)
  BY DEF Online, SamePeople
<1> QED BY <1>1, <1>2 DEF Bound, SamePeople

LEMMA RemoveKeeps ==
    ASSUME NEW s, ServerInv(s), NEW c, NEW t, t = RemoveFromQueues(s, c)
    PROVE  /\ ServerInv(t) /\ Leaves(s, t, c)
           /\ SameRun(s, t) /\ SamePeople(s, t) /\ SameProofs(s, t) /\ SameFriends(s, t)
           /\ SameRecords(s, t) /\ t.matchOf = s.matchOf /\ t.terminal = s.terminal
           /\ t.rematches = s.rematches /\ t.challenges = s.challenges
<1>1. s \in Server /\ Once(s.casual) /\ Once(s.competitive)
  BY DEF ServerInv, Waiting
<1>2. /\ t \in Server /\ Leaves(s, t, c)
      /\ SameRun(s, t) /\ SamePeople(s, t) /\ SameProofs(s, t) /\ SameFriends(s, t)
      /\ SameRecords(s, t) /\ t.matchOf = s.matchOf /\ t.terminal = s.terminal
      /\ t.rematches = s.rematches /\ t.challenges = s.challenges
  BY <1>1, RemoveEffect
<1> USE <1>2 DEF SameRun, SamePeople, SameProofs, SameFriends, SameRecords
<1>3. Presence(t) /\ Blank(t)
  BY DEF ServerInv, Presence, Blank
<1>4. Waiting(t)
  BY DEF ServerInv, Waiting, Leaves
<1>5. Bound(t)
  BY BoundKept DEF ServerInv
<1>6. Records(t) /\ Answers(t)
  BY DEF ServerInv, Records, Answers
<1>7. Identified(t)
  BY DEF ServerInv, Identified, Active, Players
<1>8. OfferNames(t) /\ Promised(t) /\ Offered(t)
  BY OfferedKept DEF ServerInv, OfferNames
<1>9. Playable(t)
  <2>1. Playable(s)
    BY DEF ServerInv
  <2> QED BY <2>1, PlayableKept DEF Leaves
<1>10. Challenged(t) /\ Befriended(t) /\ ~ t.hung
  BY DEF ServerInv, Challenged, Befriended, Online, BlockEachOther
<1> QED BY <1>3, <1>4, <1>5, <1>6, <1>7, <1>8, <1>9, <1>10 DEF ServerInv

\* The answers whose offer is dropped with R.
Closes(s, R, c) ==
    \E r \in R \cap s.rematches :
        /\ s.user[c] \in {r.a, r.b} /\ s.online[s.user[c]] = c
        /\ s.terminal[c].id = r.id

LEMMA CloseEffect ==
    ASSUME NEW s \in Server, NEW R, NEW t, t = CloseRematches(s, R)
    PROVE  /\ t \in Server /\ t.rematches = s.rematches \ R
           /\ \A c \in Client :
                /\ t.terminal[c].id = s.terminal[c].id
                /\ t.terminal[c].outcome = s.terminal[c].outcome
                /\ t.terminal[c].rematch <=> s.terminal[c].rematch /\ ~ Closes(s, R, c)
                /\ ~ Closes(s, R, c) => t.terminal[c] = s.terminal[c]
           /\ SameRun(s, t) /\ SamePeople(s, t) /\ SameProofs(s, t) /\ SameFriends(s, t)
           /\ SameRecords(s, t) /\ SameQueues(s, t) /\ t.matchOf = s.matchOf
           /\ t.challenges = s.challenges
<1> DEFINE T == [c \in Client |-> IF Closes(s, R, c)
                                  THEN [s.terminal[c] EXCEPT !.rematch = FALSE]
                                  ELSE s.terminal[c]]
           Q == s.rematches \ R
<1>1. Q \in SUBSET Rematch
  BY Fields
<1>2. s.terminal \in [Client -> Answer]
  BY Fields
<1>3. ASSUME NEW c \in Client
      PROVE  /\ T[c] \in Answer /\ T[c].id = s.terminal[c].id
             /\ T[c].outcome = s.terminal[c].outcome
             /\ T[c].rematch <=> s.terminal[c].rematch /\ ~ Closes(s, R, c)
             /\ ~ Closes(s, R, c) => T[c] = s.terminal[c]
  <2>1. s.terminal[c] \in Answer
    BY <1>2
  <2>2. CASE Closes(s, R, c)
    <3>1. T[c] = [s.terminal[c] EXCEPT !.rematch = FALSE]
      BY <2>2
    <3> HIDE DEF T
    <3> QED BY <2>1, <2>2, <3>1 DEF Answer
  <2>3. CASE ~ Closes(s, R, c)
    <3>1. T[c] = s.terminal[c]
      BY <2>3
    <3> HIDE DEF T
    <3> QED BY <2>1, <2>3, <3>1 DEF Answer
  <2> QED BY <2>2, <2>3
<1>4. t = WithOffers(s, Q, T)
  BY DEF CloseRematches, Closes, WithOffers
<1>5. T \in [Client -> Answer]
  BY <1>3
<1> HIDE DEF Q, T
<1>6. /\ t \in Server /\ t.rematches = Q /\ t.terminal = T
      /\ SameRun(s, t) /\ SamePeople(s, t) /\ SameProofs(s, t) /\ SameFriends(s, t)
      /\ SameRecords(s, t) /\ SameQueues(s, t) /\ t.matchOf = s.matchOf
      /\ t.challenges = s.challenges
  BY <1>1, <1>4, <1>5, SetOffers
<1> QED BY <1>3, <1>6 DEF Q

LEMMA CloseKeeps ==
    ASSUME NEW s, ServerInv(s), NEW R, NEW t, t = CloseRematches(s, R)
    PROVE  ServerInv(t)
<1>1. s \in Server
  BY DEF ServerInv
<1>2. /\ t \in Server /\ t.rematches = s.rematches \ R
      /\ \A c \in Client :
           /\ t.terminal[c].id = s.terminal[c].id
           /\ t.terminal[c].outcome = s.terminal[c].outcome
           /\ t.terminal[c].rematch <=> s.terminal[c].rematch /\ ~ Closes(s, R, c)
           /\ ~ Closes(s, R, c) => t.terminal[c] = s.terminal[c]
      /\ SameRun(s, t) /\ SamePeople(s, t) /\ SameProofs(s, t) /\ SameFriends(s, t)
      /\ SameRecords(s, t) /\ SameQueues(s, t) /\ t.matchOf = s.matchOf
      /\ t.challenges = s.challenges
  BY <1>1, CloseEffect
<1>3. /\ SameRun(s, t) /\ SamePeople(s, t) /\ SameProofs(s, t) /\ SameFriends(s, t)
      /\ SameRecords(s, t) /\ SameQueues(s, t) /\ t.matchOf = s.matchOf
      /\ t.challenges = s.challenges
  BY <1>2
<1> USE <1>3 DEF SameRun, SamePeople, SameProofs, SameFriends, SameRecords, SameQueues
<1>a. /\ s.user \in [Client -> UserOr] /\ s.online \in [User -> Client \cup {NoClient}]
      /\ s.rematches \subseteq Rematch
  BY <1>1, Fields
<1>b. \A r \in s.rematches : r.a \in User /\ r.b \in User
  BY <1>a DEF Rematch
<1>c. Presence(t)
  BY DEF ServerInv, Presence
<1>4. Blank(t)
  <2>1. ASSUME NEW c \in Client, s.user[c] = Nobody PROVE ~ Closes(s, R, c)
    BY <1>b, <2>1, ServerAssumption DEF Closes
  <2> QED BY <1>2, <2>1 DEF ServerInv, Blank
<1>5. Waiting(t)
  BY DEF ServerInv, Waiting
<1>6. Bound(t)
  BY BoundKept DEF ServerInv
<1>7. Records(t) /\ Answers(t)
  BY <1>2 DEF ServerInv, Records, Answers
<1>8. Identified(t)
  BY DEF ServerInv, Identified, Active, Players
<1>9. OfferNames(t)
  BY <1>2 DEF ServerInv, OfferNames
<1>10. Playable(t)
  <2>1. Playable(s) /\ t.rematches \subseteq s.rematches
    BY <1>2 DEF ServerInv
  <2> QED BY <2>1, PlayableKept
<1>11. Promised(t) /\ Offered(t)
  <2>1. ASSUME NEW c \in Client, t.terminal[c].rematch
        PROVE  \E r \in t.rematches : r.id = t.terminal[c].id /\ t.user[c] \in {r.a, r.b}
    <3>1. PICK r \in s.rematches : r.id = s.terminal[c].id /\ s.user[c] \in {r.a, r.b}
      BY <1>2, <2>1 DEF ServerInv, Promised
    <3>2. s.online[s.user[c]] = c
      BY <3>1, <1>b, ServerAssumption DEF ServerInv, Presence
    <3>3. r \notin R
      BY <1>2, <2>1, <3>1, <3>2 DEF Closes
    <3> QED BY <1>2, <3>1, <3>3
  <2>2. ASSUME NEW r \in t.rematches, NEW u \in {r.a, r.b}
        PROVE  Answered(t, r, u)
    <3> DEFINE c == s.online[u]
    <3>1. r \in s.rematches /\ r \notin R
      BY <1>2
    <3>2. c \in Client
      BY <1>a, <1>b, <3>1 DEF ServerInv, Playable, Online
    <3>3. s.terminal[c].id = r.id /\ (~ r.expired => s.terminal[c].rematch)
      BY <3>1 DEF ServerInv, Offered, Answered
    <3>4. ~ Closes(s, R, c)
      BY <3>1, <3>3 DEF Closes, ServerInv, OfferNames
    <3> QED BY <1>2, <3>2, <3>3, <3>4 DEF Answered
  <2>3. Promised(t)
    BY <2>1 DEF Promised
  <2>4. Offered(t)
    BY <2>2 DEF Offered
  <2> QED BY <2>3, <2>4
<1>12. Challenged(t) /\ Befriended(t) /\ ~ t.hung
  BY DEF ServerInv, Challenged, Befriended, Online, BlockEachOther
<1> QED
  BY <1>2, <1>c, <1>4, <1>5, <1>6, <1>7, <1>8, <1>9, <1>10, <1>11, <1>12 DEF ServerInv

-----------------------------------------------------------------------------
(* The end of a match. *)

\* What is left of match k: its players, who started and conceded, the winner.
Settled(k, g) ==
    /\ g.phase = "ended" /\ g.a = k.a /\ g.b = k.b
    /\ g.ranked = k.ranked /\ g.started = k.started /\ g.conceded = k.conceded
    /\ g.winner = k.winner /\ g.rated = k.rated
    /\ g.failed = {} /\ ~ g.eos /\ \A u \in User : g.result[u] = Nobody

LEMMA NoMatchType == NoMatch \in Match /\ NoMatch.phase = "none"
<1> DEFINE puid == [u \in User |-> NoPuid]
           result == [u \in User |-> Nobody]
<1>1. puid \in [User -> Puid \cup {NoPuid}] /\ result \in [User -> UserOr]
  BY DEF UserOr
<1>2. NoMatch =
        [phase |-> "none", a |-> Nobody, b |-> Nobody, ranked |-> FALSE,
         eos |-> FALSE, puid |-> puid, map |-> NoMap,
         started |-> {}, result |-> result, failed |-> {},
         timer |-> FALSE, stale |-> FALSE, winner |-> Nobody, conceded |-> {},
         rated |-> 0, told |-> {}]
  BY DEF NoMatch
<1> HIDE DEF puid, result
<1> QED BY <1>1, <1>2 DEF Match, Phase, UserOr

LEMMA GoneEffect ==
    ASSUME NEW k \in Match, NEW X \in SUBSET (User \X (UserOr \cup {Void})),
           NEW g, g = [Gone(k) EXCEPT !.told = X]
    PROVE  g \in Match /\ Settled(k, g) /\ g.told = X
<1> DEFINE result == NoMatch.result
           puid == NoMatch.puid
<1>1. /\ result \in [User -> UserOr] /\ \A u \in User : result[u] = Nobody
      /\ puid \in [User -> Puid \cup {NoPuid}]
  BY DEF NoMatch, UserOr
<1> DEFINE g1 == [k EXCEPT !.phase = "ended", !.result = result, !.failed = {}]
           g2 == [g1 EXCEPT !.timer = FALSE, !.stale = FALSE, !.eos = FALSE]
           g3 == [g2 EXCEPT !.puid = puid, !.map = NoMap, !.told = X]
<1>2. g = g3
  BY DEF Gone
<1> HIDE DEF result, puid
<1>3. /\ g1 \in Match /\ g1.phase = "ended" /\ g1.result = result /\ g1.failed = {}
      /\ g1.a = k.a /\ g1.b = k.b /\ g1.ranked = k.ranked /\ g1.started = k.started
      /\ g1.conceded = k.conceded /\ g1.winner = k.winner /\ g1.rated = k.rated
  BY <1>1 DEF Match, Phase
<1> HIDE DEF g1
<1>4. /\ g2 \in Match /\ ~ g2.eos /\ g2.phase = g1.phase /\ g2.result = g1.result
      /\ g2.failed = g1.failed
      /\ g2.a = g1.a /\ g2.b = g1.b /\ g2.ranked = g1.ranked /\ g2.started = g1.started
      /\ g2.conceded = g1.conceded /\ g2.winner = g1.winner /\ g2.rated = g1.rated
  BY <1>3 DEF Match, Phase
<1> HIDE DEF g2
<1>5. /\ g3 \in Match /\ g3.told = X /\ g3.eos = g2.eos
      /\ g3.phase = g2.phase /\ g3.result = g2.result /\ g3.failed = g2.failed
      /\ g3.a = g2.a /\ g3.b = g2.b /\ g3.ranked = g2.ranked /\ g3.started = g2.started
      /\ g3.conceded = g2.conceded /\ g3.winner = g2.winner /\ g3.rated = g2.rated
  BY <1>1, <1>4 DEF Match, Phase
<1> HIDE DEF g3
<1>6. ~ g.eos
  BY <1>2, <1>4, <1>5, Zenon
<1>7. \A u \in User : g.result[u] = Nobody
  <2>1. g.result = result
    BY <1>2, <1>3, <1>4, <1>5, Zenon
  <2> QED BY <1>1, <2>1
<1>8. /\ g.phase = "ended" /\ g.a = k.a /\ g.b = k.b
      /\ g.ranked = k.ranked /\ g.started = k.started /\ g.conceded = k.conceded
      /\ g.winner = k.winner /\ g.rated = k.rated /\ g.failed = {}
  BY <1>2, <1>3, <1>4, <1>5, Zenon
<1> QED BY <1>2, <1>5, <1>6, <1>7, <1>8, Zenon DEF Settled

\* The connections that are told of the end of match m.
Hears(s, m, c) ==
    \E u \in Players(s, m) : Online(s, u) /\ s.online[u] = c /\ s.matchOf[c] = m

LEMMA ConcludeEffect ==
    ASSUME NEW s \in Server, NEW m \in MatchId, Players(s, m) \subseteq User,
           NEW outcome \in UserOr \cup {Void}, NEW rematch \in BOOLEAN,
           NEW t, t = Conclude(s, m, outcome, rematch)
    PROVE  /\ t \in Server
           /\ \A c \in Client :
                /\ t.matchOf[c] = IF Hears(s, m, c) THEN 0 ELSE s.matchOf[c]
                /\ Hears(s, m, c) =>
                    t.terminal[c] = [id |-> m, outcome |-> outcome, rematch |-> rematch]
                /\ ~ Hears(s, m, c) => t.terminal[c] = s.terminal[c]
           /\ \A n \in MatchId \ {m} : t.match[n] = s.match[n]
           /\ Settled(s.match[m], t.match[m])
           /\ \A x \in t.match[m].told : x \in s.match[m].told \/ x[2] = outcome
           /\ SameRun(s, t) /\ SamePeople(s, t) /\ SameProofs(s, t) /\ SameFriends(s, t)
           /\ SameQueues(s, t) /\ t.challenges = s.challenges
           /\ t.rematches = s.rematches /\ t.next = s.next
<1> DEFINE told == {u \in Players(s, m) : Online(s, u) /\ s.matchOf[s.online[u]] = m}
           H(c) == \E u \in told : s.online[u] = c
           b == [c \in Client |-> IF H(c) THEN 0 ELSE s.matchOf[c]]
           a == [id |-> m, outcome |-> outcome, rematch |-> rematch]
           T == [c \in Client |-> IF H(c) THEN a ELSE s.terminal[c]]
           X == s.match[m].told \cup {<<u, outcome>> : u \in told}
           g == [Gone(s.match[m]) EXCEPT !.told = X]
           f == [s.match EXCEPT ![m] = g]
<1>1. t = WithBound(s, b, T, f)
  BY DEF Conclude, WithBound
<1>2. /\ s.matchOf \in [Client -> 0 .. MaxMatch] /\ s.terminal \in [Client -> Answer]
      /\ s.match \in [MatchId -> Match] /\ s.match[m] \in Match
  BY Fields
<1>3. ASSUME NEW c PROVE H(c) <=> Hears(s, m, c)
  BY DEF Hears
<1>4. X \in SUBSET (User \X (UserOr \cup {Void}))
      /\ \A x \in X : x \in s.match[m].told \/ x[2] = outcome
  <2>1. s.match[m].told \subseteq User \X (UserOr \cup {Void})
    BY <1>2 DEF Match
  <2>2. told \subseteq User
    OBVIOUS
  <2>3. \A x \in {<<u, outcome>> : u \in told} :
            x \in User \X (UserOr \cup {Void}) /\ x[2] = outcome
    BY <2>2
  <2> QED BY <2>1, <2>3
<1>5. a \in Answer
  BY DEF Answer, MatchId
<1> HIDE DEF H, told, a, X
<1>6. g \in Match /\ Settled(s.match[m], g) /\ g.told = X
  BY <1>2, <1>4, GoneEffect
<1> HIDE DEF g
<1>7. /\ f \in [MatchId -> Match] /\ f[m] = g
      /\ \A n \in MatchId \ {m} : f[n] = s.match[n]
  BY <1>2, <1>6
<1>8. b \in [Client -> 0 .. MaxMatch] /\ T \in [Client -> Answer]
  BY <1>2, <1>5, ServerAssumption
<1>9. \A c \in Client :
        /\ b[c] = IF Hears(s, m, c) THEN 0 ELSE s.matchOf[c]
        /\ Hears(s, m, c) => T[c] = a
        /\ ~ Hears(s, m, c) => T[c] = s.terminal[c]
  BY <1>3
<1> HIDE DEF b, T, f
<1>10. /\ t \in Server /\ t.matchOf = b /\ t.terminal = T
       /\ t.match = f /\ t.next = s.next
       /\ SameRun(s, t) /\ SamePeople(s, t) /\ SameProofs(s, t) /\ SameFriends(s, t)
       /\ SameQueues(s, t) /\ t.challenges = s.challenges
       /\ t.rematches = s.rematches
  BY <1>1, <1>7, <1>8, SetBound
<1> QED BY <1>4, <1>6, <1>7, <1>9, <1>10 DEF a

\* Match m is over in t, with this outcome, and its players are free; an offer
\* to play again is made of it or not.
Ends(s, t, m, outcome, rematch) ==
    /\ \A c \in Client :
        /\ t.matchOf[c] = IF s.matchOf[c] = m THEN 0 ELSE s.matchOf[c]
        /\ s.matchOf[c] = m =>
            t.terminal[c] = [id |-> m, outcome |-> outcome, rematch |-> rematch]
        /\ s.matchOf[c] # m => t.terminal[c] = s.terminal[c]
    /\ \A n \in MatchId \ {m} : t.match[n] = s.match[n]
    /\ t.match[m].a = s.match[m].a /\ t.match[m].b = s.match[m].b
    /\ t.match[m].phase = "ended" /\ Sound(t.match[m])
    /\ outcome = OutcomeOf(t.match[m])
    /\ t.next = s.next
    /\ ~ rematch => t.rematches = s.rematches
    /\ rematch => \E r \in Rematch :
        /\ t.rematches = s.rematches \cup {r}
        /\ r.id = m /\ r.a = s.match[m].a /\ r.b = s.match[m].b /\ ~ r.expired
        /\ ~ BlockEachOther(s, r.a, r.b)

LEMMA EndKeeps ==
    ASSUME NEW s, ServerInv(s), NEW m \in MatchId, Active(s, m),
           NEW outcome, NEW rematch \in BOOLEAN,
           NEW t \in Server, Ends(s, t, m, outcome, rematch),
           SameRun(s, t), SamePeople(s, t), SameProofs(s, t), SameFriends(s, t),
           SameQueues(s, t), t.challenges = s.challenges
    PROVE  ServerInv(t)
<1> USE DEF SameRun, SamePeople, SameProofs, SameFriends, SameQueues
<1>1. /\ s.user \in [Client -> UserOr] /\ s.online \in [User -> Client \cup {NoClient}]
      /\ s.matchOf \in [Client -> 0 .. MaxMatch] /\ s.terminal \in [Client -> Answer]
      /\ s.match \in [MatchId -> Match] /\ s.rematches \subseteq Rematch
  BY Fields DEF ServerInv
<1>2. /\ Presence(s) /\ Blank(s) /\ Waiting(s) /\ Bound(s)
      /\ Records(s) /\ Answers(s) /\ Identified(s)
      /\ OfferNames(s) /\ Playable(s) /\ Promised(s) /\ Offered(s)
      /\ Challenged(s) /\ Befriended(s)
  BY DEF ServerInv
<1>3. \A r \in s.rematches : r.a \in User /\ r.b \in User /\ r.id \in MatchId /\ r.id # m
  <2>1. \A r \in s.rematches : s.match[r.id].phase = "ended"
    BY <1>2 DEF OfferNames
  <2> QED BY <1>1, <2>1 DEF Rematch, Active
<1>4. m # 0 /\ \A n \in 0 .. MaxMatch : n # 0 => n \in MatchId
  BY DEF MatchId
<1>5. \A n \in MatchId : Active(t, n) <=> n # m /\ Active(s, n)
  BY DEF Ends, Active
<1>6. \A n \in MatchId : Players(t, n) = Players(s, n)
  BY DEF Ends, Players
<1>7. Presence(t) /\ Blank(t)
  BY <1>2, <1>4 DEF Presence, Blank, Ends
<1>8. Waiting(t)
  BY <1>2, <1>4 DEF Waiting, Ends
<1>9. Bound(t)
  <2>1. ASSUME NEW n \in MatchId, Active(t, n), NEW u \in Players(t, n)
        PROVE  Online(t, u) /\ t.matchOf[t.online[u]] = n
    <3>1. n # m /\ Online(s, u) /\ s.matchOf[s.online[u]] = n
      BY <1>2, <1>5, <1>6, <2>1 DEF Bound
    <3>2. s.online[u] \in Client
      BY <1>1, <3>1 DEF Online
    <3> QED BY <3>1, <3>2 DEF Online, Ends
  <2>2. ASSUME NEW c \in Client, t.matchOf[c] # 0
        PROVE  Active(t, t.matchOf[c]) /\ t.user[c] \in Players(t, t.matchOf[c])
    <3>1. t.matchOf[c] = s.matchOf[c] /\ s.matchOf[c] # m
      BY <2>2 DEF Ends
    <3>2. s.matchOf[c] \in MatchId
      BY <1>1, <1>4, <2>2, <3>1
    <3> QED BY <1>2, <1>5, <1>6, <2>2, <3>1, <3>2 DEF Bound
  <2> QED BY <2>1, <2>2 DEF Bound
<1>10. Records(t)
  <2>1. \A n \in MatchId : n # m => t.match[n] = s.match[n]
    BY DEF Ends
  <2>2. Sound(t.match[m]) /\ t.match[m].phase = "ended" /\ t.next = s.next
        /\ s.match[m].phase # "none"
    BY DEF Ends, Active
  <2> QED BY <1>2, <2>1, <2>2 DEF Records
<1>11. Answers(t)
  <2> SUFFICES ASSUME NEW c \in Client, t.terminal[c].id # 0
               PROVE  /\ t.match[t.terminal[c].id].phase = "ended"
                      /\ t.terminal[c].outcome = OutcomeOf(t.match[t.terminal[c].id])
    BY DEF Answers
  <2>1. CASE s.matchOf[c] = m
    BY <2>1 DEF Ends
  <2>2. CASE s.matchOf[c] # m
    <3>1. t.terminal[c] = s.terminal[c]
      BY <2>2 DEF Ends
    <3> DEFINE n == s.terminal[c].id
    <3>2. n \in MatchId
      BY <1>1, <1>4, <3>1 DEF Answer
    <3>3. s.match[n].phase = "ended" /\ s.terminal[c].outcome = OutcomeOf(s.match[n])
      BY <1>2, <3>1 DEF Answers
    <3>4. n # m
      BY <3>3 DEF Active
    <3>5. t.match[n] = s.match[n]
      BY <3>2, <3>4 DEF Ends
    <3> QED BY <3>1, <3>3, <3>5
  <2> QED BY <2>1, <2>2
<1>12. Identified(t)
  <2>1. \A n \in MatchId : n # m => t.match[n] = s.match[n]
    BY DEF Ends
  <2> QED BY <1>2, <1>5, <1>6, <2>1 DEF Identified
<1>13. ASSUME ~ rematch
       PROVE  OfferNames(t) /\ Playable(t) /\ Promised(t) /\ Offered(t)
  <2>1. t.rematches = s.rematches
    BY <1>13 DEF Ends
  <2>2. OfferNames(t)
    <3>1. \A r \in s.rematches : t.match[r.id] = s.match[r.id]
      BY <1>3 DEF Ends
    <3> QED BY <1>2, <2>1, <3>1 DEF OfferNames
  <2>3. \A r \in s.rematches : \A u \in {r.a, r.b} :
            /\ s.online[u] \in Client /\ s.matchOf[s.online[u]] = 0
            /\ t.matchOf[s.online[u]] = 0 /\ t.terminal[s.online[u]] = s.terminal[s.online[u]]
    <3> SUFFICES ASSUME NEW r \in s.rematches, NEW u \in {r.a, r.b}
                 PROVE  /\ s.online[u] \in Client /\ s.matchOf[s.online[u]] = 0
                        /\ t.matchOf[s.online[u]] = 0
                        /\ t.terminal[s.online[u]] = s.terminal[s.online[u]]
      OBVIOUS
    <3>1. s.online[u] \in Client /\ s.matchOf[s.online[u]] = 0
      BY <1>1, <1>2, <1>3 DEF Playable, Online
    <3> QED BY <1>4, <3>1 DEF Ends
  <2>4. Playable(t)
    BY <1>2, <2>1, <2>3, PlayableKept
  <2>5. Promised(t)
    <3>1. \A c \in Client : t.terminal[c].rematch => t.terminal[c] = s.terminal[c]
      BY <1>13 DEF Ends
    <3> QED BY <1>2, <2>1, <3>1 DEF Promised
  <2>6. Offered(t)
    BY <1>2, <2>1, <2>3 DEF Offered, Answered
  <2> QED BY <2>2, <2>4, <2>5, <2>6
<1>14. ASSUME rematch
       PROVE  OfferNames(t) /\ Playable(t) /\ Promised(t) /\ Offered(t)
  <2>1. PICK p \in Rematch :
            /\ t.rematches = s.rematches \cup {p}
            /\ p.id = m /\ p.a = s.match[m].a /\ p.b = s.match[m].b /\ ~ p.expired
            /\ ~ BlockEachOther(s, p.a, p.b)
    BY <1>14 DEF Ends
  <2>2. \A r \in s.rematches : t.match[r.id] = s.match[r.id]
    BY <1>3 DEF Ends
  <2>3. p.a # p.b /\ {p.a, p.b} = Players(s, m) /\ p.a \in User /\ p.b \in User
    BY <1>2, <2>1 DEF Records, Sound, Active, Players
  <2>4. OfferNames(t)
    <3>1. t.match[m].phase = "ended" /\ t.match[m].a = p.a /\ t.match[m].b = p.b
      BY <2>1 DEF Ends
    <3>2. ASSUME NEW r \in t.rematches
          PROVE  /\ r.a # r.b /\ t.match[r.id].phase = "ended"
                 /\ t.match[r.id].a = r.a /\ t.match[r.id].b = r.b
      BY <1>2, <2>1, <2>2, <2>3, <3>1 DEF OfferNames
    <3>3. ASSUME NEW r \in t.rematches, NEW q \in t.rematches, r.id = q.id
          PROVE  r = q
      BY <1>2, <1>3, <2>1, <3>3 DEF OfferNames
    <3> QED BY <3>2, <3>3 DEF OfferNames
  <2>5. \A r \in s.rematches : \A u \in {r.a, r.b} :
            /\ s.online[u] \in Client /\ s.matchOf[s.online[u]] = 0
            /\ t.matchOf[s.online[u]] = 0 /\ t.terminal[s.online[u]] = s.terminal[s.online[u]]
    <3> SUFFICES ASSUME NEW r \in s.rematches, NEW u \in {r.a, r.b}
                 PROVE  /\ s.online[u] \in Client /\ s.matchOf[s.online[u]] = 0
                        /\ t.matchOf[s.online[u]] = 0
                        /\ t.terminal[s.online[u]] = s.terminal[s.online[u]]
      OBVIOUS
    <3>1. s.online[u] \in Client /\ s.matchOf[s.online[u]] = 0
      BY <1>1, <1>2, <1>3 DEF Playable, Online
    <3> QED BY <1>4, <3>1 DEF Ends
  <2>6. ASSUME NEW u \in {p.a, p.b}
        PROVE  /\ Online(s, u) /\ s.online[u] \in Client /\ s.matchOf[s.online[u]] = m
               /\ t.matchOf[s.online[u]] = 0
               /\ t.terminal[s.online[u]] = [id |-> m, outcome |-> outcome, rematch |-> TRUE]
               /\ ~ In(s.casual, s.online[u]) /\ ~ In(s.competitive, s.online[u])
    <3>1. Online(s, u) /\ s.matchOf[s.online[u]] = m
      BY <1>2, <2>3 DEF Bound
    <3>2. s.online[u] \in Client
      BY <1>1, <3>1 DEF Online
    <3>3. ~ In(s.casual, s.online[u]) /\ ~ In(s.competitive, s.online[u])
      BY <1>2, <1>4, <3>1, <3>2 DEF Waiting
    <3>4. rematch = TRUE
      BY <1>14
    <3> QED BY <3>1, <3>2, <3>3, <3>4 DEF Ends
  <2>7. Playable(t)
    <3> SUFFICES ASSUME NEW r \in t.rematches
                 PROVE  /\ ~ BlockEachOther(t, r.a, r.b)
                        /\ \A u \in {r.a, r.b} :
                              /\ Online(t, u) /\ t.matchOf[t.online[u]] = 0
                              /\ ~ In(t.casual, t.online[u])
                              /\ ~ In(t.competitive, t.online[u])
      BY DEF Playable
    <3>1. CASE r \in s.rematches
      BY <1>2, <2>5, <3>1 DEF Playable, Online, BlockEachOther
    <3>2. CASE r = p
      BY <2>1, <2>6, <3>2 DEF Online, BlockEachOther
    <3> QED BY <2>1, <3>1, <3>2
  <2>8. Promised(t) /\ Offered(t)
    <3>1. ASSUME NEW c \in Client, t.terminal[c].rematch
          PROVE  \E r \in t.rematches : r.id = t.terminal[c].id /\ t.user[c] \in {r.a, r.b}
      <4>1. CASE s.matchOf[c] = m
        <5>1. t.terminal[c].id = m /\ s.user[c] \in Players(s, m)
          BY <1>2, <1>4, <4>1 DEF Ends, Bound
        <5> QED BY <2>1, <2>3, <5>1
      <4>2. CASE s.matchOf[c] # m
        <5>1. t.terminal[c] = s.terminal[c]
          BY <4>2 DEF Ends
        <5> QED BY <1>2, <2>1, <3>1, <5>1 DEF Promised
      <4> QED BY <4>1, <4>2
    <3>2. ASSUME NEW r \in t.rematches, NEW u \in {r.a, r.b}
          PROVE  Answered(t, r, u)
      <4>1. CASE r \in s.rematches
        BY <1>2, <2>5, <4>1 DEF Offered, Answered
      <4>2. CASE r = p
        BY <2>1, <2>6, <4>2 DEF Answered
      <4> QED BY <2>1, <4>1, <4>2
    <3>3. Promised(t)
      BY <3>1 DEF Promised
    <3>4. Offered(t)
      BY <3>2 DEF Offered
    <3> QED BY <3>3, <3>4
  <2> QED BY <2>4, <2>7, <2>8
<1>15. Challenged(t) /\ Befriended(t) /\ ~ t.hung
  BY <1>2 DEF ServerInv, Challenged, Befriended, Online, BlockEachOther
<1> QED
  BY <1>7, <1>8, <1>9, <1>10, <1>11, <1>12, <1>13, <1>14, <1>15 DEF ServerInv

\* While a match is open its two players, and no one else, hear of its end.
LEMMA HearsAre ==
    ASSUME NEW s, ServerInv(s), NEW m \in MatchId, Active(s, m), NEW c \in Client
    PROVE  Hears(s, m, c) <=> s.matchOf[c] = m
<1>1. Bound(s) /\ Presence(s) /\ Records(s) /\ s.user \in [Client -> UserOr]
  BY Fields DEF ServerInv
<1>2. Players(s, m) \subseteq User
  BY <1>1 DEF Records, Sound, Active, Players
<1>3. ASSUME s.matchOf[c] = m PROVE Hears(s, m, c)
  <2>1. s.user[c] \in Players(s, m)
    BY <1>1, <1>3 DEF Bound, MatchId
  <2>2. s.online[s.user[c]] = c
    BY <1>1, <1>2, <2>1, ServerAssumption DEF Presence
  <2>3. Online(s, s.user[c])
    BY <1>2, <2>1, <2>2, ServerAssumption DEF Online
  <2> QED BY <1>3, <2>1, <2>2, <2>3 DEF Hears
<1> QED BY <1>3 DEF Hears

LEMMA ActivePlayers ==
    ASSUME NEW s, ServerInv(s), NEW m \in MatchId, Active(s, m)
    PROVE  /\ s.match[m] \in Match /\ Sound(s.match[m])
           /\ s.match[m].a \in User /\ s.match[m].b \in User /\ s.match[m].a # s.match[m].b
           /\ Players(s, m) \subseteq User
           /\ s.match[m].winner = Nobody /\ s.match[m].told = {} /\ s.match[m].rated = 0
<1>1. Records(s) /\ s.match \in [MatchId -> Match]
  BY Fields DEF ServerInv
<1>2. s.match[m] \in Match /\ Sound(s.match[m])
  BY <1>1 DEF Records
<1> QED BY <1>2 DEF Sound, Active, Players

\* Record g says that the match of record k ended, and how.
Decided(k, g, w) ==
    /\ g.phase = "ended" /\ g.a = k.a /\ g.b = k.b /\ g.ranked = k.ranked
    /\ g.started = k.started /\ g.conceded = k.conceded /\ g.failed = {}
    /\ \A u \in User : g.result[u] = Nobody
    /\ g.winner = w
    /\ w # Nobody => /\ w \in {k.a, k.b} /\ k.started = {k.a, k.b}
                     /\ \E l \in k.conceded : l # w
    /\ g.rated = IF k.ranked /\ w # Nobody THEN 1 ELSE 0
    /\ \A x \in g.told : x[2] = IF w = Nobody THEN Void ELSE w

LEMMA DecidedSound ==
    ASSUME NEW k, Sound(k), k.phase \in {"setup", "playing"},
           NEW g, NEW w, Decided(k, g, w)
    PROVE  Sound(g)
<1>1. \A x \in g.told : x[2] = OutcomeOf(g)
  BY DEF Decided, OutcomeOf
<1>2. g.rated = IF g.ranked /\ g.winner # Nobody THEN 1 ELSE 0
  BY Zenon DEF Decided
<1>3. {g.a, g.b} = {k.a, k.b}
  BY DEF Decided
<1> QED BY <1>1, <1>2, <1>3 DEF Sound, Decided

\* The match is called off.
Voids(s, t, m) ==
    /\ Settled(s.match[m], t.match[m])
    /\ \A n \in MatchId \ {m} : t.match[n] = s.match[n]
    /\ t.next = s.next /\ t.rematches = s.rematches /\ SameRun(s, t)

LEMMA CancelKeeps ==
    ASSUME NEW s, ServerInv(s), NEW m \in MatchId, Active(s, m),
           NEW t, t = CancelMatch(s, m)
    PROVE  ServerInv(t) /\ Voids(s, t, m)
<1>1. /\ s.match[m] \in Match /\ Sound(s.match[m]) /\ Players(s, m) \subseteq User
      /\ s.match[m].winner = Nobody /\ s.match[m].told = {} /\ s.match[m].rated = 0
  BY ActivePlayers
<1>2. s \in Server
  BY DEF ServerInv
<1> DEFINE no == FALSE
<1>3. t = Conclude(s, m, Void, no) /\ no \in BOOLEAN /\ Void \in UserOr \cup {Void}
  BY DEF CancelMatch
<1> HIDE DEF no
<1>4. /\ t \in Server
      /\ \A c \in Client :
           /\ t.matchOf[c] = IF Hears(s, m, c) THEN 0 ELSE s.matchOf[c]
           /\ Hears(s, m, c) =>
               t.terminal[c] = [id |-> m, outcome |-> Void, rematch |-> no]
           /\ ~ Hears(s, m, c) => t.terminal[c] = s.terminal[c]
      /\ \A n \in MatchId \ {m} : t.match[n] = s.match[n]
      /\ Settled(s.match[m], t.match[m])
      /\ \A x \in t.match[m].told : x \in s.match[m].told \/ x[2] = Void
      /\ SameRun(s, t) /\ SamePeople(s, t) /\ SameProofs(s, t) /\ SameFriends(s, t)
      /\ SameQueues(s, t) /\ t.challenges = s.challenges
      /\ t.rematches = s.rematches /\ t.next = s.next
  BY <1>1, <1>2, <1>3, ConcludeEffect
<1>5. Sound(t.match[m])
  <2>1. \A x \in t.match[m].told : x[2] = Void
    BY <1>1, <1>4
  <2>2. Decided(s.match[m], t.match[m], Nobody)
    BY <1>1, <1>4, <2>1 DEF Decided, Settled
  <2> QED BY <1>1, <2>2, DecidedSound DEF Active
<1>6. Ends(s, t, m, Void, no)
  <2>1. Void = OutcomeOf(t.match[m])
    BY <1>1, <1>4 DEF OutcomeOf, Settled
  <2>2. \A c \in Client :
           /\ t.matchOf[c] = IF s.matchOf[c] = m THEN 0 ELSE s.matchOf[c]
           /\ s.matchOf[c] = m =>
               t.terminal[c] = [id |-> m, outcome |-> Void, rematch |-> no]
           /\ s.matchOf[c] # m => t.terminal[c] = s.terminal[c]
    BY <1>4, HearsAre
  <2> QED BY <1>4, <1>5, <2>1, <2>2 DEF Ends, Settled, no
<1>7. ServerInv(t)
  BY <1>3, <1>4, <1>6, EndKeeps
<1> QED BY <1>4, <1>7 DEF Voids

\* The match has a winner.
Wins(s, t, m, w) ==
    /\ t.match[m].phase = "ended" /\ t.match[m].winner = w
    /\ t.match[m].a = s.match[m].a /\ t.match[m].b = s.match[m].b
    /\ t.match[m].conceded = s.match[m].conceded
    /\ \A n \in MatchId \ {m} : t.match[n] = s.match[n]
    /\ t.next = s.next /\ SameRun(s, t)

LEMMA FinishKeeps ==
    ASSUME NEW s, ServerInv(s), NEW m \in MatchId, s.match[m].phase = "playing",
           NEW w \in Players(s, m), \E l \in s.match[m].conceded : l # w,
           NEW t, t = FinishMatch(s, m, w)
    PROVE  ServerInv(t) /\ Wins(s, t, m, w)
<1> DEFINE k == s.match[m]
           offer == MayOfferRematch(s, m)
           R == RematchesOf(s, k.a) \cup RematchesOf(s, k.b)
           p == CloseRematches(s, R)
           r == [id |-> m, a |-> k.a, b |-> k.b, map |-> k.map,
                 accepted |-> {}, expired |-> FALSE]
           o == IF offer THEN OfferRematch(s, m) ELSE s
           j == [k EXCEPT !.winner = w, !.rated = k.rated + (IF k.ranked THEN 1 ELSE 0)]
           f == [s.match EXCEPT ![m] = j]
           q == WithMatches(o, f)
<1>a. Active(s, m) /\ s \in Server
  BY DEF Active, ServerInv
<1>1. /\ k \in Match /\ Sound(k) /\ Players(s, m) \subseteq User
      /\ k.a \in User /\ k.b \in User /\ k.a # k.b
      /\ k.winner = Nobody /\ k.told = {} /\ k.rated = 0
  BY <1>a, ActivePlayers
<1>2. s.match \in [MatchId -> Match] /\ s.online \in [User -> Client \cup {NoClient}]
      /\ s.rematches \subseteq Rematch
  BY <1>a, Fields
<1>3. /\ o \in Server /\ SameRun(s, o) /\ SamePeople(s, o) /\ SameProofs(s, o)
      /\ SameFriends(s, o) /\ SameRecords(s, o) /\ SameQueues(s, o)
      /\ o.matchOf = s.matchOf /\ o.challenges = s.challenges
      /\ \A c \in Client : o.terminal[c] = s.terminal[c]
      /\ ~ offer => o.rematches = s.rematches
      /\ offer => o.rematches = s.rematches \cup {r}
  <2>1. CASE ~ offer
    BY <2>1, <1>a DEF SameRun, SamePeople, SameProofs, SameFriends, SameRecords, SameQueues
  <2>2. CASE offer
    <3>1. R \cap s.rematches = {}
      <4> SUFFICES ASSUME NEW x \in s.rematches, NEW u \in {k.a, k.b}, u \in {x.a, x.b}
                   PROVE  FALSE
        BY DEF RematchesOf
      <4>1. s.matchOf[s.online[u]] = 0
        BY DEF ServerInv, Playable
      <4>2. s.matchOf[s.online[u]] = m
        BY <1>a DEF ServerInv, Bound, Players
      <4> QED BY <4>1, <4>2 DEF MatchId
    <3> HIDE DEF R
    <3>2. /\ p \in Server /\ p.rematches = s.rematches \ R
          /\ \A c \in Client : ~ Closes(s, R, c) => p.terminal[c] = s.terminal[c]
          /\ SameRun(s, p) /\ SamePeople(s, p) /\ SameProofs(s, p) /\ SameFriends(s, p)
          /\ SameRecords(s, p) /\ SameQueues(s, p) /\ p.matchOf = s.matchOf
          /\ p.challenges = s.challenges
      BY <1>a, CloseEffect
    <3>3. p.rematches = s.rematches /\ \A c \in Client : p.terminal[c] = s.terminal[c]
      BY <3>1, <3>2 DEF Closes
    <3>4. o = WithRematches(p, s.rematches \cup {r})
      BY <2>2, <3>3 DEF OfferRematch, WithRematches, R
    <3>5. r \in Rematch
      BY <1>1 DEF Rematch, Match
    <3> HIDE DEF p, r, o
    <3>6. s.rematches \cup {r} \in SUBSET Rematch
      BY <1>2, <3>5
    <3>7. /\ o \in Server /\ o.rematches = s.rematches \cup {r}
          /\ SameRun(p, o) /\ SamePeople(p, o) /\ SameProofs(p, o) /\ SameFriends(p, o)
          /\ SameRecords(p, o) /\ SameQueues(p, o) /\ o.matchOf = p.matchOf
          /\ o.terminal = p.terminal /\ o.challenges = p.challenges
      BY <3>2, <3>4, <3>6, SetRematches
    <3> QED BY <2>2, <3>2, <3>3, <3>7
            DEF SameRun, SamePeople, SameProofs, SameFriends, SameRecords, SameQueues
  <2> QED BY <2>1, <2>2
<1>4. /\ j \in Match /\ j.winner = w /\ j.rated = IF k.ranked THEN 1 ELSE 0
      /\ j.phase = k.phase /\ j.a = k.a /\ j.b = k.b /\ j.ranked = k.ranked
      /\ j.started = k.started /\ j.conceded = k.conceded /\ j.told = k.told
  <2> DEFINE x == k.rated + (IF k.ranked THEN 1 ELSE 0)
  <2>1. x \in Nat /\ x = IF k.ranked THEN 1 ELSE 0
    BY <1>1
  <2>2. j = [k EXCEPT !.winner = w, !.rated = x] /\ w \in UserOr
    BY <1>1 DEF UserOr
  <2> HIDE DEF x, k, j
  <2> QED BY <1>1, <2>1, <2>2 DEF Match
<1>5. f \in [MatchId -> Match] /\ f[m] = j /\ \A n \in MatchId \ {m} : f[n] = s.match[n]
  <2> HIDE DEF j
  <2> QED BY <1>2, <1>4
<1>6. t = Conclude(q, m, w, offer)
  BY <1>3 DEF FinishMatch, WithMatches, SameRecords
<1>7. offer \in BOOLEAN
  BY DEF MayOfferRematch
<1>8. offer => Online(s, k.a) /\ Online(s, k.b) /\ ~ BlockEachOther(s, k.a, k.b)
  BY DEF MayOfferRematch
<1>9. r \in Rematch /\ r.id = m /\ r.a = k.a /\ r.b = k.b /\ ~ r.expired
  BY <1>1 DEF Rematch, Match
<1> HIDE DEF o, j, f, r, offer
<1>10. /\ q \in Server /\ q.match = f /\ q.next = o.next
       /\ SameRun(o, q) /\ SamePeople(o, q) /\ SameProofs(o, q) /\ SameFriends(o, q)
       /\ SameQueues(o, q) /\ q.matchOf = o.matchOf /\ q.challenges = o.challenges
       /\ q.terminal = o.terminal /\ q.rematches = o.rematches
  BY <1>3, <1>5, SetMatches
<1> HIDE DEF q
<1>11. \A c : Hears(q, m, c) <=> Hears(s, m, c)
  BY <1>3, <1>4, <1>5, <1>10 DEF Hears, Players, Online, SamePeople
<1>12. w \in UserOr \cup {Void} /\ Players(q, m) \subseteq User /\ w \in User
  BY <1>1, <1>4, <1>5, <1>10 DEF UserOr, Players
<1>13. /\ t \in Server
       /\ \A c \in Client :
            /\ t.matchOf[c] = IF Hears(q, m, c) THEN 0 ELSE q.matchOf[c]
            /\ Hears(q, m, c) => t.terminal[c] = [id |-> m, outcome |-> w, rematch |-> offer]
            /\ ~ Hears(q, m, c) => t.terminal[c] = q.terminal[c]
       /\ \A n \in MatchId \ {m} : t.match[n] = q.match[n]
       /\ Settled(q.match[m], t.match[m])
       /\ \A x \in t.match[m].told : x \in q.match[m].told \/ x[2] = w
       /\ SameRun(q, t) /\ SamePeople(q, t) /\ SameProofs(q, t) /\ SameFriends(q, t)
       /\ SameQueues(q, t) /\ t.challenges = q.challenges
       /\ t.rematches = q.rematches /\ t.next = q.next
  BY <1>6, <1>7, <1>10, <1>12, ConcludeEffect
<1>14. /\ SameRun(s, t) /\ SamePeople(s, t) /\ SameProofs(s, t) /\ SameFriends(s, t)
       /\ SameQueues(s, t) /\ t.challenges = s.challenges
       /\ t.rematches = o.rematches /\ t.next = s.next
  BY <1>3, <1>10, <1>13
     DEF SameRun, SamePeople, SameProofs, SameFriends, SameRecords, SameQueues
<1>15. Settled(j, t.match[m]) /\ \A n \in MatchId \ {m} : t.match[n] = s.match[n]
  BY <1>5, <1>10, <1>13
<1>16. Sound(t.match[m])
  <2>1. \A x \in t.match[m].told : x[2] = IF w = Nobody THEN Void ELSE w
    BY <1>1, <1>4, <1>5, <1>10, <1>12, <1>13, ServerAssumption
  <2>2. k.started = {k.a, k.b}
    BY <1>1 DEF Sound
  <2>3. t.match[m].rated = IF k.ranked /\ w # Nobody THEN 1 ELSE 0
    BY <1>4, <1>12, <1>15, ServerAssumption DEF Settled
  <2> HIDE DEF k
  <2>4. k.phase \in {"setup", "playing"} /\ w \in {k.a, k.b}
        /\ \E l \in k.conceded : l # w
    BY DEF k, Players
  <2>5. Decided(k, t.match[m], w)
    BY <1>4, <1>15, <2>1, <2>2, <2>3, <2>4 DEF Decided, Settled
  <2> QED BY <1>1, <2>4, <2>5, DecidedSound
<1>17. Ends(s, t, m, w, offer)
  <2>1. w = OutcomeOf(t.match[m])
    BY <1>4, <1>12, <1>15, ServerAssumption DEF OutcomeOf, Settled
  <2>2. \A c \in Client :
           /\ t.matchOf[c] = IF s.matchOf[c] = m THEN 0 ELSE s.matchOf[c]
           /\ s.matchOf[c] = m =>
               t.terminal[c] = [id |-> m, outcome |-> w, rematch |-> offer]
           /\ s.matchOf[c] # m => t.terminal[c] = s.terminal[c]
    BY <1>a, <1>3, <1>10, <1>11, <1>13, HearsAre
  <2>3. t.match[m].a = s.match[m].a /\ t.match[m].b = s.match[m].b
        /\ t.match[m].phase = "ended"
    BY <1>4, <1>15 DEF Settled
  <2>4. /\ ~ offer => t.rematches = s.rematches
        /\ offer => \E x \in Rematch :
            /\ t.rematches = s.rematches \cup {x}
            /\ x.id = m /\ x.a = s.match[m].a /\ x.b = s.match[m].b /\ ~ x.expired
            /\ ~ BlockEachOther(s, x.a, x.b)
    BY <1>3, <1>8, <1>9, <1>14
  <2> QED BY <1>14, <1>15, <1>16, <2>1, <2>2, <2>3, <2>4 DEF Ends
<1>18. ServerInv(t)
  BY <1>a, <1>7, <1>13, <1>14, <1>17, EndKeeps
<1>19. Wins(s, t, m, w)
  BY <1>4, <1>14, <1>15 DEF Wins, Settled
<1> QED BY <1>18, <1>19

-----------------------------------------------------------------------------
(* A match goes on, and a match begins. *)

\* Record j is of the same match as k, as far as others refer to it.
SameOutline(k, j) ==
    /\ j.a = k.a /\ j.b = k.b /\ j.winner = k.winner
    /\ j.eos = k.eos /\ j.puid = k.puid
    /\ j.phase = k.phase \/ {j.phase, k.phase} \subseteq {"setup", "playing"}

LEMMA RecordKeeps ==
    ASSUME NEW s, ServerInv(s), NEW m \in MatchId,
           NEW j \in Match, Sound(j), SameOutline(s.match[m], j),
           NEW t, t = WithMatches(s, [s.match EXCEPT ![m] = j])
    PROVE  /\ ServerInv(t) /\ t.match[m] = j /\ t.next = s.next
           /\ \A n \in MatchId \ {m} : t.match[n] = s.match[n]
           /\ SameRun(s, t) /\ SamePeople(s, t) /\ SameProofs(s, t) /\ SameFriends(s, t)
           /\ SameQueues(s, t) /\ t.matchOf = s.matchOf /\ t.challenges = s.challenges
           /\ t.terminal = s.terminal /\ t.rematches = s.rematches
<1> DEFINE f == [s.match EXCEPT ![m] = j]
<1>1. s \in Server /\ s.match \in [MatchId -> Match] /\ s.rematches \subseteq Rematch
      /\ s.terminal \in [Client -> Answer]
  BY Fields DEF ServerInv
<1>2. f \in [MatchId -> Match] /\ f[m] = j /\ \A n \in MatchId \ {m} : f[n] = s.match[n]
  BY <1>1
<1>3. t = WithMatches(s, f)
  OBVIOUS
<1> HIDE DEF f
<1>4. /\ t \in Server /\ t.match = f /\ t.next = s.next
      /\ SameRun(s, t) /\ SamePeople(s, t) /\ SameProofs(s, t) /\ SameFriends(s, t)
      /\ SameQueues(s, t) /\ t.matchOf = s.matchOf /\ t.challenges = s.challenges
      /\ t.terminal = s.terminal /\ t.rematches = s.rematches
  BY <1>1, <1>2, <1>3, SetMatches
<1> USE <1>4 DEF SameRun, SamePeople, SameProofs, SameFriends, SameQueues
<1>5. ASSUME NEW n \in MatchId
      PROVE  /\ SameOutline(s.match[n], t.match[n])
             /\ (Active(t, n) <=> Active(s, n)) /\ Players(t, n) = Players(s, n)
  <2>1. SameOutline(s.match[n], t.match[n])
    BY <1>2 DEF SameOutline
  <2> QED BY <2>1 DEF SameOutline, Active, Players
<1>6. Presence(t) /\ Blank(t)
  BY DEF ServerInv, Presence, Blank
<1>7. Waiting(t)
  BY DEF ServerInv, Waiting
<1>8. Bound(t)
  <2>1. Bound(s)
    BY DEF ServerInv
  <2>2. \A u : Online(t, u) <=> Online(s, u)
    BY DEF Online
  <2>3. s.matchOf \in [Client -> 0 .. MaxMatch]
    BY <1>1, Fields
  <2>4. \A c \in Client : s.matchOf[c] # 0 => s.matchOf[c] \in MatchId
    BY <2>3 DEF MatchId
  <2> QED BY <1>5, <2>1, <2>2, <2>4 DEF Bound
<1>9. Records(t)
  <2>1. Records(s)
    BY DEF ServerInv
  <2>2. ASSUME NEW n \in MatchId
        PROVE  Sound(t.match[n]) /\ (n >= t.next <=> t.match[n].phase = "none")
    <3>1. Sound(t.match[n])
      BY <1>2, <2>1 DEF Records
    <3>2. t.match[n].phase = "none" <=> s.match[n].phase = "none"
      BY <1>5 DEF SameOutline
    <3> QED BY <2>1, <3>1, <3>2 DEF Records
  <2> QED BY <2>2 DEF Records
<1>10. Answers(t)
  <2>1. Answers(s)
    BY DEF ServerInv
  <2> SUFFICES ASSUME NEW c \in Client, s.terminal[c].id # 0
               PROVE  /\ t.match[s.terminal[c].id].phase = "ended"
                      /\ s.terminal[c].outcome = OutcomeOf(t.match[s.terminal[c].id])
    BY DEF Answers
  <2> DEFINE n == s.terminal[c].id
  <2>2. n \in MatchId
    BY <1>1 DEF Answer, MatchId
  <2>3. SameOutline(s.match[n], t.match[n])
    BY <1>5, <2>2
  <2>4. s.match[n].phase = "ended" /\ s.terminal[c].outcome = OutcomeOf(s.match[n])
    BY <2>1 DEF Answers
  <2> QED BY <2>3, <2>4 DEF SameOutline, OutcomeOf
<1>11. Identified(t)
  <2>1. Identified(s)
    BY DEF ServerInv
  <2>2. ASSUME NEW n \in MatchId, Active(t, n), t.match[n].eos, NEW u \in Players(t, n)
        PROVE  /\ t.match[n].puid[u] # NoPuid
               /\ t.verified[t.online[u]] = t.match[n].puid[u]
    <3>1. Active(s, n) /\ u \in Players(s, n) /\ t.match[n].puid = s.match[n].puid
          /\ t.match[n].eos = s.match[n].eos
      BY <1>5, <2>2 DEF SameOutline
    <3>2. s.match[n].eos
      BY <2>2, <3>1
    <3> QED BY <2>1, <3>1, <3>2 DEF Identified
  <2> QED BY <2>2 DEF Identified
<1>12. OfferNames(t)
  <2>1. OfferNames(s)
    BY DEF ServerInv
  <2>2. ASSUME NEW r \in s.rematches
        PROVE  SameOutline(s.match[r.id], t.match[r.id])
    BY <1>1, <1>5 DEF Rematch
  <2>3. ASSUME NEW r \in s.rematches
        PROVE  /\ r.a # r.b /\ t.match[r.id].phase = "ended"
               /\ t.match[r.id].a = r.a /\ t.match[r.id].b = r.b
    BY <2>1, <2>2 DEF OfferNames, SameOutline
  <2> QED BY <2>1, <2>3 DEF OfferNames
<1>13. Playable(t)
  BY PlayableKept DEF ServerInv
<1>14. Promised(t) /\ Offered(t)
  BY OfferedKept DEF ServerInv
<1>15. Challenged(t) /\ Befriended(t) /\ ~ t.hung
  BY DEF ServerInv, Challenged, Befriended, Online, BlockEachOther
<1>16. ServerInv(t)
  BY <1>6, <1>7, <1>8, <1>9, <1>10, <1>11, <1>12, <1>13, <1>14, <1>15 DEF ServerInv
<1> QED BY <1>2, <1>16

WithEntry(s, f, b, n, T) ==
    [s EXCEPT !.match = f, !.matchOf = b, !.next = n, !.terminal = T]

LEMMA SetEntry ==
    ASSUME NEW s \in Server, NEW f \in [MatchId -> Match],
           NEW b \in [Client -> 0 .. MaxMatch], NEW n \in 1 .. MaxMatch + 1,
           NEW T \in [Client -> Answer],
           NEW t, t = WithEntry(s, f, b, n, T)
    PROVE  /\ t \in Server /\ t.match = f /\ t.matchOf = b /\ t.next = n /\ t.terminal = T
           /\ SameRun(s, t) /\ SamePeople(s, t) /\ SameProofs(s, t) /\ SameFriends(s, t)
           /\ SameQueues(s, t) /\ t.challenges = s.challenges
           /\ t.rematches = s.rematches
  BY DEF WithEntry, Server, SameRun, SamePeople, SameProofs, SameFriends, SameQueues

\* The record makeMatch enters.
Entry(a, b, ranked, map, eos, p, q) ==
    [NoMatch EXCEPT !.phase = "setup", !.a = a, !.b = b, !.ranked = ranked,
                    !.map = map, !.eos = eos,
                    !.puid = [NoMatch.puid EXCEPT ![a] = p, ![b] = q]]

LEMMA EntryEffect ==
    ASSUME NEW a \in User, NEW b \in User, a # b, NEW ranked \in BOOLEAN,
           NEW map \in Map, NEW eos \in BOOLEAN,
           NEW p \in Puid \cup {NoPuid}, NEW q \in Puid \cup {NoPuid},
           NEW k, k = Entry(a, b, ranked, map, eos, p, q)
    PROVE  /\ k \in Match /\ Sound(k) /\ k.phase = "setup" /\ k.a = a /\ k.b = b
           /\ (k.eos <=> eos) /\ k.puid[a] = p /\ k.puid[b] = q
           /\ k.winner = Nobody /\ k.conceded = {}
<1> DEFINE puid == [NoMatch.puid EXCEPT ![a] = p, ![b] = q]
           k1 == [NoMatch EXCEPT !.phase = "setup", !.a = a, !.b = b]
           k2 == [k1 EXCEPT !.ranked = ranked, !.map = map, !.eos = eos, !.puid = puid]
<1>1. /\ NoMatch \in Match /\ NoMatch.started = {} /\ NoMatch.failed = {}
      /\ NoMatch.conceded = {} /\ NoMatch.told = {} /\ NoMatch.winner = Nobody
      /\ NoMatch.rated = 0 /\ \A u \in User : NoMatch.result[u] = Nobody
      /\ NoMatch.puid = [u \in User |-> NoPuid]
  BY NoMatchType DEF NoMatch
<1>2. puid \in [User -> Puid \cup {NoPuid}] /\ puid[a] = p /\ puid[b] = q
  BY <1>1
<1>3. k = k2
  BY DEF Entry
<1> HIDE DEF puid
<1>4. /\ k1 \in Match /\ k1.phase = "setup" /\ k1.a = a /\ k1.b = b
      /\ k1.started = NoMatch.started /\ k1.failed = NoMatch.failed
      /\ k1.conceded = NoMatch.conceded /\ k1.told = NoMatch.told
      /\ k1.winner = NoMatch.winner /\ k1.rated = NoMatch.rated
      /\ k1.result = NoMatch.result
  BY <1>1 DEF Match, Phase, UserOr
<1> HIDE DEF k1
<1>5. /\ k2 \in Match /\ k2.phase = "setup" /\ k2.a = a /\ k2.b = b
      /\ k2.started = k1.started /\ k2.failed = k1.failed
      /\ k2.conceded = k1.conceded /\ k2.told = k1.told
      /\ k2.winner = k1.winner /\ k2.rated = k1.rated /\ k2.result = k1.result
      /\ k2.puid = puid
  BY <1>2, <1>4 DEF Match, Phase
<1>6. k2.eos <=> eos
  BY <1>4, Zenon DEF Match
<1> HIDE DEF k2
<1>7. Sound(k)
  BY <1>1, <1>3, <1>4, <1>5 DEF Sound
<1> QED BY <1>1, <1>2, <1>3, <1>4, <1>5, <1>6, <1>7

\* Match m begins.
Starts(s, t, m) ==
    /\ s.match[m].phase = "none"
    /\ t.match[m].phase = "setup" /\ t.match[m].winner = Nobody
    /\ t.match[m].a \in User /\ t.match[m].b \in User /\ t.match[m].a # t.match[m].b
    /\ t.match[m].conceded = {}
    /\ \A n \in MatchId \ {m} : t.match[n] = s.match[n]

\* Two who are free may be put into match m, with record k.
MayEnter(s, m, c, d, k) ==
    /\ m = s.next /\ c # d
    /\ \A x \in {c, d} :
        /\ s.user[x] # Nobody /\ s.matchOf[x] = 0
        /\ ~ In(s.casual, x) /\ ~ In(s.competitive, x)
        /\ \A r \in s.rematches : s.user[x] \notin {r.a, r.b}
    /\ Sound(k) /\ k.phase = "setup" /\ k.winner = Nobody /\ k.conceded = {}
    /\ k.a = s.user[c] /\ k.b = s.user[d]
    /\ k.eos => /\ s.verified[c] # NoPuid /\ s.verified[d] # NoPuid
                /\ k.puid[k.a] = s.verified[c] /\ k.puid[k.b] = s.verified[d]

\* They are in it, and it is all that changed.
Enters(s, t, m, c, d, k) ==
    /\ t \in Server
    /\ t.match[m] = k /\ \A n \in MatchId \ {m} : t.match[n] = s.match[n]
    /\ t.matchOf[c] = m /\ t.matchOf[d] = m
    /\ \A x \in Client \ {c, d} : t.matchOf[x] = s.matchOf[x]
    /\ t.terminal[c] = NoTerminal /\ t.terminal[d] = NoTerminal
    /\ \A x \in Client \ {c, d} : t.terminal[x] = s.terminal[x]
    /\ t.next = m + 1
    /\ SameRun(s, t) /\ SamePeople(s, t) /\ SameProofs(s, t) /\ SameFriends(s, t)
    /\ SameQueues(s, t) /\ t.challenges = s.challenges
    /\ t.rematches = s.rematches

LEMMA EnterEffect ==
    ASSUME NEW s \in Server, NEW m \in MatchId,
           NEW c \in Client, NEW d \in Client, NEW k \in Match, NEW t,
           t = WithEntry(s, [s.match EXCEPT ![m] = k],
                         [[s.matchOf EXCEPT ![c] = m] EXCEPT ![d] = m], m + 1,
                         [[s.terminal EXCEPT ![c] = NoTerminal] EXCEPT ![d] = NoTerminal])
    PROVE  Enters(s, t, m, c, d, k)
<1> DEFINE f == [s.match EXCEPT ![m] = k]
           b == [[s.matchOf EXCEPT ![c] = m] EXCEPT ![d] = m]
           T == [[s.terminal EXCEPT ![c] = NoTerminal] EXCEPT ![d] = NoTerminal]
<1>1. /\ s.match \in [MatchId -> Match] /\ s.terminal \in [Client -> Answer]
      /\ s.matchOf \in [Client -> 0 .. MaxMatch]
  BY Fields
<1>2. NoTerminal \in Answer
  BY ServerAssumption DEF NoTerminal, Answer
<1>3. f \in [MatchId -> Match] /\ f[m] = k /\ \A n \in MatchId \ {m} : f[n] = s.match[n]
  BY <1>1
<1>4. /\ b \in [Client -> 0 .. MaxMatch] /\ b[c] = m /\ b[d] = m
      /\ \A x \in Client \ {c, d} : b[x] = s.matchOf[x]
  <2>1. m \in 0 .. MaxMatch
    BY DEF MatchId
  <2> QED BY <1>1, <2>1
<1>5. /\ T \in [Client -> Answer] /\ T[c] = NoTerminal /\ T[d] = NoTerminal
      /\ \A x \in Client \ {c, d} : T[x] = s.terminal[x]
  BY <1>1, <1>2
<1>6. m + 1 \in 1 .. MaxMatch + 1
  BY ServerAssumption DEF MatchId
<1>7. t = WithEntry(s, f, b, m + 1, T)
  OBVIOUS
<1> HIDE DEF f, b, T
<1>8. /\ t \in Server /\ t.match = f /\ t.matchOf = b /\ t.next = m + 1 /\ t.terminal = T
      /\ SameRun(s, t) /\ SamePeople(s, t) /\ SameProofs(s, t) /\ SameFriends(s, t)
      /\ SameQueues(s, t) /\ t.challenges = s.challenges
      /\ t.rematches = s.rematches
  BY <1>3, <1>4, <1>5, <1>6, <1>7, SetEntry
<1> QED BY <1>3, <1>4, <1>5, <1>8 DEF Enters

LEMMA EnterKeeps ==
    ASSUME NEW s, ServerInv(s), NEW m \in MatchId,
           NEW c \in Client, NEW d \in Client, NEW k \in Match,
           MayEnter(s, m, c, d, k), NEW t, Enters(s, t, m, c, d, k)
    PROVE  ServerInv(t) /\ Starts(s, t, m)
<1>1. /\ s \in Server /\ s.match \in [MatchId -> Match] /\ s.rematches \subseteq Rematch
      /\ s.terminal \in [Client -> Answer] /\ s.matchOf \in [Client -> 0 .. MaxMatch]
      /\ s.user \in [Client -> UserOr] /\ s.online \in [User -> Client \cup {NoClient}]
  BY Fields DEF ServerInv
<1>2. /\ Presence(s) /\ Blank(s) /\ Waiting(s) /\ Bound(s)
      /\ Records(s) /\ Answers(s) /\ Identified(s)
      /\ OfferNames(s) /\ Playable(s) /\ Promised(s) /\ Offered(s)
      /\ Challenged(s) /\ Befriended(s) /\ ~ s.hung
  BY DEF ServerInv
<1>3. NoTerminal \in Answer /\ NoTerminal.id = 0 /\ ~ NoTerminal.rematch
  BY ServerAssumption DEF NoTerminal, Answer
<1>4. /\ m = s.next /\ c # d
      /\ s.matchOf[c] = 0 /\ s.matchOf[d] = 0
      /\ ~ In(s.casual, c) /\ ~ In(s.competitive, c)
      /\ ~ In(s.casual, d) /\ ~ In(s.competitive, d)
      /\ Sound(k) /\ k.phase = "setup" /\ k.winner = Nobody /\ k.conceded = {}
  BY DEF MayEnter
<1>5. t.next = m + 1 /\ t \in Server
  BY DEF Enters
<1>6. /\ t.matchOf[c] = m /\ t.matchOf[d] = m
      /\ \A x \in Client \ {c, d} : t.matchOf[x] = s.matchOf[x]
  BY DEF Enters
<1>7. /\ t.terminal[c] = NoTerminal /\ t.terminal[d] = NoTerminal
      /\ \A x \in Client \ {c, d} : t.terminal[x] = s.terminal[x]
  BY DEF Enters
<1>8. t.match[m] = k /\ \A n \in MatchId \ {m} : t.match[n] = s.match[n]
  BY DEF Enters
<1>9. /\ SameRun(s, t) /\ SamePeople(s, t) /\ SameProofs(s, t) /\ SameFriends(s, t)
      /\ SameQueues(s, t) /\ t.challenges = s.challenges
      /\ t.rematches = s.rematches
  BY DEF Enters
<1> DEFINE u == s.user[c]
           v == s.user[d]
<1>10. /\ u \in User /\ v \in User /\ u # v /\ s.online[u] = c /\ s.online[v] = d
       /\ u # Nobody /\ v # Nobody /\ k.a = u /\ k.b = v
       /\ s.user[c] = u /\ s.user[d] = v
  BY <1>1, <1>2 DEF Presence, UserOr, MayEnter
<1>a. \A r \in s.rematches : u \notin {r.a, r.b} /\ v \notin {r.a, r.b}
  BY DEF MayEnter
<1>b. k.eos => /\ s.verified[c] # NoPuid /\ s.verified[d] # NoPuid
               /\ k.puid[u] = s.verified[c] /\ k.puid[v] = s.verified[d]
  BY <1>10 DEF MayEnter
<1> HIDE DEF u, v
<1>11. s.match[m].phase = "none" /\ ~ Active(s, m)
  <2>1. m \in Int
    BY DEF MatchId
  <2> QED BY <1>2, <1>4, <2>1 DEF Records, Active
<1>12. m # 0
  BY DEF MatchId
<1>13. /\ \A n \in MatchId : Active(t, n) <=> n = m \/ Active(s, n)
       /\ \A n \in MatchId \ {m} : Players(t, n) = Players(s, n)
       /\ Players(t, m) = {u, v}
       /\ \A n \in MatchId \ {m} : t.match[n] = s.match[n]
       /\ t.match[m] = k
  <2>2. Active(t, m) /\ Players(t, m) = {u, v}
    BY <1>4, <1>8, <1>10 DEF Active, Players
  <2>3. ASSUME NEW n \in MatchId \ {m}
        PROVE  (Active(t, n) <=> Active(s, n)) /\ Players(t, n) = Players(s, n)
    BY <1>8 DEF Active, Players
  <2> QED BY <1>8, <2>2, <2>3
<1> USE <1>9 DEF SameRun, SamePeople, SameProofs, SameFriends, SameQueues
<1>14. Presence(t)
  BY <1>2 DEF Presence
<1>15. Blank(t)
  BY <1>2, <1>6, <1>7, <1>10 DEF Blank
<1>16. Waiting(t)
  <2>1. \A x \in Client : In(s.casual, x) \/ In(s.competitive, x) => x \notin {c, d}
    BY <1>4
  <2>2. \A x \in Client : x \notin {c, d} => t.matchOf[x] = s.matchOf[x]
    BY <1>6
  <2> QED BY <1>2, <2>1, <2>2 DEF Waiting
<1>17. Bound(t)
  <2>1. ASSUME NEW n \in MatchId, Active(t, n), NEW w \in Players(t, n)
        PROVE  Online(t, w) /\ t.matchOf[t.online[w]] = n
    <3>1. CASE n = m
      BY <1>6, <1>10, <1>13, <3>1, ServerAssumption DEF Online
    <3>2. CASE n # m
      <4>1. Active(s, n) /\ w \in Players(s, n)
        BY <1>13, <2>1, <3>2
      <4>2. Online(s, w) /\ s.matchOf[s.online[w]] = n
        BY <1>2, <4>1 DEF Bound
      <4>3. s.online[w] \in Client \ {c, d}
        <5>1. s.online[w] \in Client
          BY <1>1, <4>2 DEF Online
        <5>2. s.matchOf[s.online[w]] # 0
          BY <4>2 DEF MatchId
        <5> QED BY <1>4, <5>1, <5>2
      <4> QED BY <1>6, <4>2, <4>3 DEF Online
    <3> QED BY <3>1, <3>2
  <2>2. ASSUME NEW x \in Client, t.matchOf[x] # 0
        PROVE  Active(t, t.matchOf[x]) /\ t.user[x] \in Players(t, t.matchOf[x])
    <3>1. CASE x \in {c, d}
      BY <1>6, <1>10, <1>13, <3>1
    <3>2. CASE x \notin {c, d}
      <4>0. t.matchOf[x] = s.matchOf[x] /\ s.matchOf[x] \in 0 .. MaxMatch
        BY <1>1, <1>6, <3>2
      <4>1. t.matchOf[x] = s.matchOf[x] /\ s.matchOf[x] \in MatchId
        BY <2>2, <4>0 DEF MatchId
      <4>2. Active(s, s.matchOf[x]) /\ s.user[x] \in Players(s, s.matchOf[x])
        BY <1>2, <2>2, <4>1 DEF Bound
      <4>3. s.matchOf[x] # m
        BY <1>11, <4>2
      <4>4. Active(t, s.matchOf[x]) /\ Players(t, s.matchOf[x]) = Players(s, s.matchOf[x])
        BY <1>13, <4>1, <4>2, <4>3
      <4> QED BY <4>1, <4>2, <4>4
    <3> QED BY <3>1, <3>2
  <2> QED BY <2>1, <2>2 DEF Bound
<1>18. Records(t)
  <2>1. ASSUME NEW n \in MatchId
        PROVE  Sound(t.match[n]) /\ (n >= t.next <=> t.match[n].phase = "none")
    <3>1. CASE n = m
      <4>1. ~ (m >= m + 1)
        BY DEF MatchId
      <4> QED BY <1>4, <1>5, <1>13, <3>1, <4>1
    <3>2. CASE n # m
      <4>1. n >= m + 1 <=> n >= m
        BY <3>2 DEF MatchId
      <4> QED BY <1>2, <1>4, <1>5, <1>13, <3>2, <4>1 DEF Records
    <3> QED BY <3>1, <3>2
  <2> QED BY <2>1 DEF Records
<1>19. Answers(t)
  <2> SUFFICES ASSUME NEW x \in Client, t.terminal[x].id # 0
               PROVE  /\ t.match[t.terminal[x].id].phase = "ended"
                      /\ t.terminal[x].outcome = OutcomeOf(t.match[t.terminal[x].id])
    BY DEF Answers
  <2>1. x \notin {c, d} /\ t.terminal[x] = s.terminal[x]
    BY <1>3, <1>7
  <2> DEFINE n == s.terminal[x].id
  <2>2. n \in MatchId
    BY <1>1, <2>1 DEF Answer, MatchId
  <2>3. s.match[n].phase = "ended" /\ s.terminal[x].outcome = OutcomeOf(s.match[n])
    BY <1>2, <2>1 DEF Answers
  <2>4. t.match[n] = s.match[n]
    BY <1>11, <1>13, <2>2, <2>3
  <2> QED BY <2>1, <2>3, <2>4
<1>20. Identified(t)
  <2>1. ASSUME NEW n \in MatchId, Active(t, n), t.match[n].eos, NEW w \in Players(t, n)
        PROVE  /\ t.match[n].puid[w] # NoPuid
               /\ t.verified[t.online[w]] = t.match[n].puid[w]
    <3>1. CASE n = m
      <4>1. t.match[n] = k
        BY <1>13, <3>1
      <4>2. k.eos
        BY <2>1, <4>1
      <4>3. w = u \/ w = v
        BY <1>13, <2>1, <3>1
      <4> QED BY <1>b, <1>10, <4>1, <4>2, <4>3
    <3>2. CASE n # m
      <4>1. Active(s, n) /\ w \in Players(s, n) /\ t.match[n] = s.match[n]
        BY <1>13, <2>1, <3>2
      <4>2. s.match[n].eos
        BY <2>1, <4>1
      <4> QED BY <1>2, <4>1, <4>2 DEF Identified
    <3> QED BY <3>1, <3>2
  <2> QED BY <2>1 DEF Identified
<1>21. OfferNames(t)
  <2>1. ASSUME NEW r \in s.rematches PROVE t.match[r.id] = s.match[r.id]
    <3>1. r.id \in MatchId /\ s.match[r.id].phase = "ended"
      BY <1>1, <1>2 DEF Rematch, OfferNames
    <3> QED BY <1>11, <1>13, <3>1
  <2>2. OfferNames(s)
    BY <1>2
  <2>3. \A r \in s.rematches :
            r.a # r.b /\ t.match[r.id].phase = "ended"
                      /\ t.match[r.id].a = r.a /\ t.match[r.id].b = r.b
    BY <2>1, <2>2 DEF OfferNames
  <2> QED BY <2>2, <2>3 DEF OfferNames
<1>22. ASSUME NEW r \in s.rematches, NEW w \in {r.a, r.b}
       PROVE  s.online[w] \in Client \ {c, d}
  <2>1. Online(s, w)
    BY <1>2 DEF Playable
  <2>2. s.online[w] \in Client /\ s.user[s.online[w]] = w
    BY <1>1, <1>2, <2>1 DEF Online, Presence
  <2>3. w # u /\ w # v
    BY <1>a
  <2> QED BY <1>10, <2>2, <2>3
<1>23. Playable(t)
  <2>1. \A r \in s.rematches : \A w \in {r.a, r.b} :
            t.matchOf[s.online[w]] = s.matchOf[s.online[w]]
    BY <1>6, <1>22
  <2>2. Playable(s)
    BY <1>2
  <2> QED BY <2>1, <2>2, PlayableKept
<1>24. Promised(t)
  <2>1. ASSUME NEW x \in Client, t.terminal[x].rematch
        PROVE  \E r \in s.rematches : r.id = t.terminal[x].id /\ s.user[x] \in {r.a, r.b}
    <3>1. t.terminal[x] = s.terminal[x]
      BY <1>3, <1>7, <2>1
    <3> QED BY <1>2, <2>1, <3>1 DEF Promised
  <2> QED BY <2>1 DEF Promised
<1>25. Offered(t)
  <2>1. ASSUME NEW r \in s.rematches, NEW w \in {r.a, r.b} PROVE Answered(t, r, w)
    <3>1. t.terminal[s.online[w]] = s.terminal[s.online[w]]
      BY <1>7, <1>22
    <3>2. Answered(s, r, w)
      BY <1>2 DEF Offered
    <3> QED BY <3>1, <3>2 DEF Answered
  <2> QED BY <2>1 DEF Offered
<1>26. Challenged(t) /\ Befriended(t) /\ ~ t.hung
  BY <1>2 DEF Challenged, Befriended, Online, BlockEachOther
<1>27. ServerInv(t)
  BY <1>5, <1>14, <1>15, <1>16, <1>17, <1>18, <1>19, <1>20, <1>21, <1>23, <1>24, <1>25, <1>26
     DEF ServerInv
<1>28. Starts(s, t, m)
  BY <1>4, <1>10, <1>11, <1>13 DEF Starts
<1> QED BY <1>27, <1>28

\* Two connections that are free to play, and a match number left for them.
Free(s, c, d) ==
    /\ c # d /\ Room(s)
    /\ \A x \in {c, d} : s.user[x] # Nobody /\ s.matchOf[x] = 0

LEMMA RoomLeft ==
    ASSUME NEW s \in Server, Room(s)
    PROVE  s.next \in MatchId
<1>1. s.next \in 1 .. MaxMatch + 1 /\ s.traffic \in TrafficType
  BY Fields
<1>2. s.traffic.matches \in 0 .. MaxMatch
  BY <1>1 DEF TrafficType
<1> QED BY <1>1, <1>2, ServerAssumption DEF Room, MatchId

\* makeMatch keeps the invariant.
LEMMA MakeKeeps ==
    ASSUME NEW s, ServerInv(s), NEW c \in Client, NEW d \in Client, Free(s, c, d),
           NEW ranked \in BOOLEAN, NEW map \in Map,
           NEW t, t = MakeMatch(s, c, d, ranked, map)
    PROVE  ServerInv(t) /\ Starts(s, t, s.next) /\ SameRun(s, t)
<1> DEFINE a == s.user[c]
           b == s.user[d]
           m == s.next
           R == RematchesOf(s, a) \cup RematchesOf(s, b)
           p == CloseRematches(s, R)
           q == RemoveFromQueues(p, c)
           r == RemoveFromQueues(q, d)
           eos == UsesEos(s, c, d)
           k == Entry(a, b, ranked, map, eos, s.verified[c], s.verified[d])
<1>1. /\ s \in Server /\ s.verified \in [Client -> Puid \cup {NoPuid}]
      /\ s.user \in [Client -> UserOr] /\ Presence(s)
  BY Fields DEF ServerInv
<1>2. c # d /\ a # Nobody /\ b # Nobody /\ s.matchOf[c] = 0 /\ s.matchOf[d] = 0 /\ Room(s)
  BY DEF Free
<1>3. a \in User /\ b \in User /\ a # b
  BY <1>1, <1>2 DEF UserOr, Presence
<1>4. m \in MatchId
  BY <1>1, <1>2, RoomLeft
<1>5. eos \in BOOLEAN
      /\ (eos => s.verified[c] # NoPuid /\ s.verified[d] # NoPuid)
  BY DEF UsesEos
<1>6. \A x \in s.rematches : a \in {x.a, x.b} \/ b \in {x.a, x.b} => x \in R
  BY DEF RematchesOf
<1>7. t = WithEntry(r, [r.match EXCEPT ![m] = k],
                    [[r.matchOf EXCEPT ![c] = m] EXCEPT ![d] = m], m + 1,
                    [[r.terminal EXCEPT ![c] = NoTerminal] EXCEPT ![d] = NoTerminal])
  BY DEF MakeMatch, WithEntry, Entry
<1> HIDE DEF R, eos
<1>8. /\ p.rematches = s.rematches \ R
      /\ SameRun(s, p) /\ SamePeople(s, p) /\ SameProofs(s, p) /\ SameFriends(s, p)
      /\ SameRecords(s, p) /\ SameQueues(s, p) /\ p.matchOf = s.matchOf
  BY <1>1, CloseEffect
<1>9. ServerInv(p)
  BY CloseKeeps
<1> HIDE DEF p
<1>10. /\ ServerInv(q) /\ Leaves(p, q, c)
       /\ SameRun(p, q) /\ SamePeople(p, q) /\ SameProofs(p, q)
       /\ SameRecords(p, q) /\ q.matchOf = p.matchOf /\ q.rematches = p.rematches
  BY <1>9, RemoveKeeps
<1> HIDE DEF q
<1>11. /\ ServerInv(r) /\ Leaves(q, r, d)
       /\ SameRun(q, r) /\ SamePeople(q, r) /\ SameProofs(q, r)
       /\ SameRecords(q, r) /\ r.matchOf = q.matchOf /\ r.rematches = q.rematches
  BY <1>10, RemoveKeeps
<1> HIDE DEF r
<1>12. /\ k \in Match /\ Sound(k) /\ k.phase = "setup" /\ k.a = a /\ k.b = b
       /\ (k.eos <=> eos)
       /\ k.puid[a] = s.verified[c] /\ k.puid[b] = s.verified[d]
       /\ k.winner = Nobody /\ k.conceded = {}
  <2> DEFINE v == s.verified[c]
             w == s.verified[d]
  <2>1. v \in Puid \cup {NoPuid} /\ w \in Puid \cup {NoPuid}
    BY <1>1
  <2>2. k = Entry(a, b, ranked, map, eos, v, w)
    OBVIOUS
  <2>3. a \in User /\ b \in User /\ a # b /\ eos \in BOOLEAN
    BY <1>3, <1>5
  <2> HIDE DEF a, b, k, v, w
  <2>4. /\ k \in Match /\ Sound(k) /\ k.phase = "setup" /\ k.a = a /\ k.b = b
        /\ (k.eos <=> eos) /\ k.puid[a] = v /\ k.puid[b] = w
        /\ k.winner = Nobody /\ k.conceded = {}
    BY <2>1, <2>2, <2>3, EntryEffect
  <2> QED BY <2>4 DEF v, w
<1> HIDE DEF k
<1>13. r \in Server
  BY <1>11 DEF ServerInv
<1>14. Enters(r, t, m, c, d, k)
  BY <1>4, <1>7, <1>12, <1>13, EnterEffect
<1>15. /\ r.next = m /\ r.match = s.match /\ r.matchOf = s.matchOf /\ r.user = s.user
       /\ r.verified = s.verified /\ r.rematches = s.rematches \ R /\ SameRun(s, r)
  BY <1>8, <1>10, <1>11 DEF SameRun, SamePeople, SameProofs, SameRecords
<1>16. /\ ~ In(r.casual, c) /\ ~ In(r.competitive, c)
       /\ ~ In(r.casual, d) /\ ~ In(r.competitive, d)
  BY <1>10, <1>11 DEF Leaves
<1>17. k.eos => /\ r.verified[c] # NoPuid /\ r.verified[d] # NoPuid
                /\ k.puid[k.a] = r.verified[c] /\ k.puid[k.b] = r.verified[d]
  BY <1>5, <1>12, <1>15
<1>18. \A x \in {c, d} :
        /\ r.user[x] # Nobody /\ r.matchOf[x] = 0
        /\ ~ In(r.casual, x) /\ ~ In(r.competitive, x)
        /\ \A y \in r.rematches : r.user[x] \notin {y.a, y.b}
  BY <1>2, <1>6, <1>15, <1>16
<1>19. MayEnter(r, m, c, d, k)
  BY <1>2, <1>12, <1>15, <1>17, <1>18 DEF MayEnter
<1>20. ServerInv(t) /\ Starts(r, t, m)
  BY <1>4, <1>11, <1>12, <1>14, <1>19, EnterKeeps
<1>21. SameRun(s, t)
  BY <1>14, <1>15 DEF Enters, SameRun
<1>22. Starts(s, t, m)
  BY <1>15, <1>20 DEF Starts
<1> QED BY <1>20, <1>21, <1>22

-----------------------------------------------------------------------------
(* Matchmaking. *)

\* Between s and t, matches may have begun, and nothing else became of any.
MayStart(s, t) ==
    /\ SameRun(s, t)
    /\ \A m \in MatchId :
        \/ t.match[m] = s.match[m]
        \/ /\ s.match[m].phase = "none" /\ t.match[m].phase = "setup"
           /\ t.match[m].winner = Nobody /\ t.match[m].conceded = {}

LEMMA MayStartAgain ==
    ASSUME NEW s, NEW x, NEW t, MayStart(s, x), MayStart(x, t)
    PROVE  MayStart(s, t)
<1>1. SameRun(s, t)
  BY DEF MayStart, SameRun
<1>2. ASSUME NEW m \in MatchId
      PROVE  \/ t.match[m] = s.match[m]
             \/ /\ s.match[m].phase = "none" /\ t.match[m].phase = "setup"
                /\ t.match[m].winner = Nobody /\ t.match[m].conceded = {}
  BY DEF MayStart
<1> QED BY <1>1, <1>2 DEF MayStart

\* A turn of a loop keeps the invariant: it never finds a pair it cannot match.
LEMMA PairUpKeeps ==
    ASSUME NEW s, ServerInv(s), NEW ranked \in BOOLEAN, NEW near, NEW pick \in Map,
           NEW t, t = PairUp(s, ranked, near, pick)
    PROVE  ServerInv(t) /\ MayStart(s, t)
<1> DEFINE q == IF ranked THEN s.competitive ELSE s.casual
           fits == {p \in Pairs(q) :
                       /\ MayPair(s, q[p[1]], q[p[2]], ranked)
                       /\ ranked => {q[p[1]], q[p[2]]} \in near
                       /\ ranked \/ CanMatch(s, q[p[1]], q[p[2]], ranked)}
           f == First(fits)
           c == q[f[1]]
           d == q[f[2]]
           maps == SharedMaps(s, c, d, ranked)
           map == IF pick \in maps THEN pick ELSE CHOOSE k \in maps : TRUE
<1>1. t = IF fits = {} \/ ~ Room(s) THEN s
          ELSE IF ~ CanMatch(s, c, d, ranked) THEN [s EXCEPT !.hung = TRUE]
          ELSE MakeMatch(s, c, d, ranked, map)
  BY DEF PairUp
<1>2. CASE fits = {} \/ ~ Room(s)
  <2>1. t = s
    BY <1>1, <1>2
  <2> QED BY <2>1 DEF MayStart, SameRun
<1>3. CASE fits # {} /\ Room(s)
  <2>1. s \in Server /\ Waiting(s)
        /\ s.casual \in Seq(Client) /\ s.competitive \in Seq(Client)
        /\ s.manifest \in [Client -> Manifest]
    BY Fields DEF ServerInv
  <2>2. /\ q \in Seq(Client) /\ Once(q)
        /\ \A x \in Client : In(q, x) => s.user[x] # Nobody /\ s.matchOf[x] = 0
    BY <2>1 DEF Waiting
  <2>3. fits \subseteq Pairs(q)
    OBVIOUS
  <2>4. Pairs(q) \subseteq Nat \X Nat
    BY <2>2 DEF Pairs
  <2>5. f \in fits
    <3> HIDE DEF fits, q
    <3> QED BY <1>3, <2>3, <2>4, FirstIsIn
  <2>6. MayPair(s, c, d, ranked)
    <3> HIDE DEF q, f
    <3> QED BY <2>5
  <2>7. f \in Pairs(q)
    BY <2>5
  <2> HIDE DEF fits
  <2> HIDE DEF q, f
  <2>8. f[1] \in 1 .. Len(q) /\ f[2] \in 1 .. Len(q) /\ f[1] < f[2]
    BY <2>7 DEF Pairs
  <2>9. c \in Client /\ d \in Client /\ In(q, c) /\ In(q, d)
    BY <2>2, <2>8 DEF In
  <2>10. c # d
    BY <2>2, <2>8 DEF Once
  <2> HIDE DEF c, d
  <2>11. Free(s, c, d)
    BY <1>3, <2>2, <2>9, <2>10 DEF Free
  <2>12. CanMatch(s, c, d, ranked) /\ maps # {}
    BY <2>6 DEF MayPair, CanMatch
  <2>13. t = MakeMatch(s, c, d, ranked, map)
    BY <1>1, <1>3, <2>12
  <2>14. maps \subseteq Map
    BY ServerAssumption DEF SharedMaps
  <2>15. map \in Map
    <3> HIDE DEF maps
    <3> QED BY <2>12, <2>14
  <2> HIDE DEF map, maps
  <2>16. ServerInv(t) /\ Starts(s, t, s.next) /\ SameRun(s, t)
    BY <2>9, <2>11, <2>13, <2>15, MakeKeeps
  <2>17. MayStart(s, t)
    BY <2>16 DEF MayStart, Starts
  <2> QED BY <2>16, <2>17
<1> QED BY <1>2, <1>3

LEMMA LoopKeeps ==
    ASSUME NEW s, ServerInv(s), NEW ranked \in BOOLEAN, NEW near, NEW pick \in Map,
           NEW t, t = Loop(s, ranked, near, pick)
    PROVE  ServerInv(t) /\ MayStart(s, t)
<1> DEFINE S == {x \in Server : ServerInv(x) /\ MayStart(s, x)}
<1>1. s \in S
  BY DEF ServerInv, MayStart, SameRun
<1>2. ASSUME NEW x \in S PROVE PairUp(x, ranked, near, pick) \in S
  <2>1. ServerInv(x) /\ MayStart(s, x)
    OBVIOUS
  <2> DEFINE y == PairUp(x, ranked, near, pick)
  <2> HIDE DEF y
  <2>2. ServerInv(y) /\ MayStart(x, y)
    BY <2>1, PairUpKeeps DEF y
  <2>3. y \in Server /\ MayStart(s, y)
    BY <2>1, <2>2, MayStartAgain DEF ServerInv
  <2> QED BY <2>2, <2>3 DEF y
<1> HIDE DEF S
<1>3. t \in S
  BY <1>1, <1>2, LoopStays
<1> QED BY <1>3 DEF S

LEMMA MatchmakingKeeps ==
    ASSUME NEW s, ServerInv(s), NEW near, NEW pick \in Map,
           NEW t, t = TryMatchmaking(s, near, pick)
    PROVE  ServerInv(t) /\ MayStart(s, t)
<1> DEFINE no == FALSE
           yes == TRUE
           x == Loop(s, no, near, pick)
<1>1. no \in BOOLEAN /\ yes \in BOOLEAN /\ t = Loop(x, yes, near, pick)
  BY DEF TryMatchmaking
<1> HIDE DEF no, yes
<1>2. ServerInv(x) /\ MayStart(s, x)
  BY <1>1, LoopKeeps
<1> HIDE DEF x
<1>3. ServerInv(t) /\ MayStart(x, t)
  BY <1>1, <1>2, LoopKeeps
<1> QED BY <1>2, <1>3, MayStartAgain

LEMMA BecomesKeeps ==
    ASSUME NEW s, ServerInv(s), Becomes(s)
    PROVE  ServerInv(srv') /\ MayStart(s, srv')
  BY MatchmakingKeeps DEF Becomes

-----------------------------------------------------------------------------
(* The sweep. *)

\* Between s and t, setups may have been called off, and nothing else became
\* of any match.
MayVoid(s, t) ==
    /\ SameRun(s, t) /\ t.rematches = s.rematches
    /\ \A m \in MatchId :
        t.match[m] = s.match[m] \/ (Active(s, m) /\ Settled(s.match[m], t.match[m]))

LEMMA CancelStaleKeeps ==
    ASSUME NEW s, ServerInv(s), NEW t, t = CancelStale(s)
    PROVE  ServerInv(t) /\ MayVoid(s, t)
<1> DEFINE S == {x \in Server : ServerInv(x) /\ MayVoid(s, x)}
           stale(m) == s.match[m].phase = "setup" /\ s.match[m].stale
           Untouched(n, x) == \A m \in MatchId : m > n => x.match[m] = s.match[m]
           Step(n, x) == IF n + 1 \in MatchId /\ stale(n + 1)
                               /\ x.match[n + 1] = s.match[n + 1]
                         THEN CancelMatch(x, n + 1) ELSE x
           step == [n \in Nat |-> [x \in S |-> Step(n, x)]]
           Sweeps(h) == h = [m \in 0 .. MaxMatch |->
                                IF m = 0 THEN s
                                ELSE IF stale(m) THEN CancelMatch(h[m - 1], m) ELSE h[m - 1]]
           upTo == CHOOSE h : Sweeps(h)
<1>0. MaxMatch \in Nat /\ MatchId = 1 .. MaxMatch
  BY ServerAssumption DEF MatchId
<1>1. s \in S /\ Untouched(0, s)
  BY DEF ServerInv, MayVoid, SameRun
<1>2. ASSUME NEW x \in S, NEW m \in MatchId, stale(m), x.match[m] = s.match[m]
      PROVE  /\ CancelMatch(x, m) \in S
             /\ \A n \in MatchId \ {m} : CancelMatch(x, m).match[n] = x.match[n]
  <2> DEFINE y == CancelMatch(x, m)
  <2>1. ServerInv(x) /\ MayVoid(s, x)
    OBVIOUS
  <2>a. y = CancelMatch(x, m)
    OBVIOUS
  <2>b. Active(x, m) /\ Active(s, m)
    BY <1>2 DEF Active
  <2> HIDE DEF y, S
  <2>2. ServerInv(y) /\ Voids(x, y, m)
    BY <2>a, <2>b, <2>1, CancelKeeps
  <2>3. Settled(s.match[m], y.match[m]) /\ SameRun(x, y) /\ y.rematches = x.rematches
        /\ \A n \in MatchId \ {m} : y.match[n] = x.match[n]
    BY <1>2, <2>2 DEF Voids
  <2>4. MayVoid(s, y)
    <3>1. SameRun(s, y) /\ y.rematches = s.rematches
      BY <2>1, <2>3 DEF MayVoid, SameRun
    <3>2. ASSUME NEW n \in MatchId
          PROVE  y.match[n] = s.match[n] \/ (Active(s, n) /\ Settled(s.match[n], y.match[n]))
      <4>1. CASE n = m
        BY <2>b, <2>3, <4>1
      <4>2. CASE n # m
        BY <2>1, <2>3, <4>2 DEF MayVoid
      <4> QED BY <4>1, <4>2
    <3> QED BY <3>1, <3>2 DEF MayVoid
  <2>5. y \in S
    BY <2>2, <2>4 DEF S, ServerInv
  <2> QED BY <2>3, <2>5 DEF y
<1> HIDE DEF S
<1>3. ASSUME NEW h, h[0] = s,
             \A n \in 1 .. MaxMatch :
                h[n] = h[n - 1] \/ (stale(n) /\ h[n] = CancelMatch(h[n - 1], n))
      PROVE  \A n \in 0 .. MaxMatch : h[n] \in S /\ Untouched(n, h[n])
  <2> DEFINE Bad == {n \in 0 .. MaxMatch : ~ (h[n] \in S /\ Untouched(n, h[n]))}
  <2> SUFFICES ASSUME Bad # {} PROVE FALSE
    OBVIOUS
  <2>1. PICK n \in Bad : \A i \in Bad : n <= i
    <3>1. Bad \subseteq Nat
      BY <1>0
    <3> HIDE DEF Bad
    <3> QED BY <3>1, Least
  <2>2. n \in 1 .. MaxMatch
    BY <1>0, <1>1, <1>3, <2>1
  <2>3. n - 1 \in 0 .. MaxMatch /\ ~ (n <= n - 1)
    BY <1>0, <2>2
  <2>4. h[n - 1] \in S /\ Untouched(n - 1, h[n - 1])
    BY <2>1, <2>3
  <2> DEFINE x == h[n - 1]
  <2>5. n \in MatchId /\ x.match[n] = s.match[n]
    BY <1>0, <2>2, <2>4
  <2>6. Untouched(n, x)
    BY <1>0, <2>2, <2>4
  <2> HIDE DEF Untouched, stale
  <2>7. CASE h[n] = x
    BY <2>1, <2>4, <2>6, <2>7
  <2>8. CASE stale(n) /\ h[n] = CancelMatch(x, n)
    <3>1. h[n] \in S /\ \A k \in MatchId \ {n} : h[n].match[k] = x.match[k]
      BY <1>2, <2>4, <2>5, <2>8
    <3>2. Untouched(n, h[n])
      BY <1>0, <2>2, <2>6, <3>1 DEF Untouched
    <3> QED BY <2>1, <3>1, <3>2
  <2> QED BY <1>3, <2>2, <2>7, <2>8
<1>4. PICK f \in [Nat -> S] : f[0] = s /\ \A n \in Nat : f[n + 1] = step[n][f[n]]
  <2>1. ASSUME NEW n \in Nat, NEW x \in S PROVE Step(n, x) \in S
    <3>1. CASE n + 1 \in MatchId /\ stale(n + 1) /\ x.match[n + 1] = s.match[n + 1]
      <4> HIDE DEF stale
      <4> QED BY <1>2, <3>1
    <3>2. CASE ~ (n + 1 \in MatchId /\ stale(n + 1) /\ x.match[n + 1] = s.match[n + 1])
      BY <3>2
    <3> QED BY <3>1, <3>2
  <2> HIDE DEF Step
  <2>2. step \in [Nat -> [S -> S]]
    BY <2>1
  <2>3. s \in S
    BY <1>1
  <2> HIDE DEF step, Untouched
  <2>4. Iterated(S, s, step)
    BY <2>2, <2>3, Iterates
  <2> QED BY <2>4 DEF Iterated
<1>5. \A n \in Nat : f[n + 1] = Step(n, f[n])
  <2> HIDE DEF Step
  <2> QED BY <1>4
<1> HIDE DEF step, stale
<1>6. \A n \in 1 .. MaxMatch :
        /\ n - 1 \in Nat /\ (n - 1) + 1 = n /\ n \in MatchId
        /\ f[n] = IF stale(n) /\ f[n - 1].match[n] = s.match[n]
                  THEN CancelMatch(f[n - 1], n) ELSE f[n - 1]
  <2> SUFFICES ASSUME NEW n \in 1 .. MaxMatch
               PROVE  /\ n - 1 \in Nat /\ (n - 1) + 1 = n /\ n \in MatchId
                      /\ f[n] = IF stale(n) /\ f[n - 1].match[n] = s.match[n]
                                THEN CancelMatch(f[n - 1], n) ELSE f[n - 1]
    OBVIOUS
  <2>1. n - 1 \in Nat /\ (n - 1) + 1 = n /\ n \in MatchId
    BY <1>0
  <2>2. f[(n - 1) + 1] = Step(n - 1, f[n - 1])
    BY <1>5, <2>1
  <2> QED BY <2>1, <2>2
<1> HIDE DEF Step
<1>7. \A n \in 0 .. MaxMatch : f[n] \in S /\ Untouched(n, f[n])
  <2>1. \A n \in 1 .. MaxMatch :
            f[n] = f[n - 1] \/ (stale(n) /\ f[n] = CancelMatch(f[n - 1], n))
    BY <1>6
  <2> HIDE DEF Untouched
  <2> QED BY <1>3, <1>4, <2>1
<1>8. \A n \in 1 .. MaxMatch :
        f[n] = IF stale(n) THEN CancelMatch(f[n - 1], n) ELSE f[n - 1]
  <2> SUFFICES ASSUME NEW n \in 1 .. MaxMatch
               PROVE  f[n - 1].match[n] = s.match[n]
    BY <1>6
  <2>1. n - 1 \in 0 .. MaxMatch /\ n \in MatchId /\ n > n - 1
    BY <1>0
  <2> QED BY <1>7, <2>1
<1>9. Sweeps(upTo)
  <2> DEFINE g == [m \in 0 .. MaxMatch |-> f[m]]
  <2>1. \A m \in 0 .. MaxMatch : g[m] = f[m]
    OBVIOUS
  <2>2. \A m \in 0 .. MaxMatch : m # 0 => m \in 1 .. MaxMatch /\ m - 1 \in 0 .. MaxMatch
    BY <1>0
  <2>3. \A m \in 0 .. MaxMatch :
            g[m] = IF m = 0 THEN s
                   ELSE IF stale(m) THEN CancelMatch(g[m - 1], m) ELSE g[m - 1]
    <3> HIDE DEF g
    <3> QED BY <1>4, <1>8, <2>1, <2>2
  <2>4. Sweeps(g)
    BY <2>3
  <2> HIDE DEF g, Sweeps
  <2> QED BY <2>4
<1>10. t = upTo[MaxMatch]
  BY DEF CancelStale, stale
<1> HIDE DEF upTo
<1>11. upTo[0] = s /\ \A n \in 1 .. MaxMatch :
         upTo[n] = upTo[n - 1] \/ (stale(n) /\ upTo[n] = CancelMatch(upTo[n - 1], n))
  BY <1>0, <1>9
<1>12. upTo[MaxMatch] \in S
  <2>1. MaxMatch \in 0 .. MaxMatch
    BY <1>0
  <2> HIDE DEF Untouched
  <2> QED BY <1>3, <1>11, <2>1
<1> QED BY <1>10, <1>12 DEF S

-----------------------------------------------------------------------------
(* Who is there. *)

WithPresence(s, C, o) == [s EXCEPT !.clients = C, !.online = o]

LEMMA SetPresence ==
    ASSUME NEW s \in Server, NEW C \in SUBSET Client,
           NEW o \in [User -> Client \cup {NoClient}],
           NEW t, t = WithPresence(s, C, o)
    PROVE  /\ t \in Server /\ t.clients = C /\ t.online = o /\ t.user = s.user
           /\ SameRun(s, t) /\ SameProofs(s, t) /\ SameFriends(s, t)
           /\ SameRecords(s, t) /\ SameQueues(s, t) /\ t.matchOf = s.matchOf
           /\ t.terminal = s.terminal /\ t.rematches = s.rematches
           /\ t.challenges = s.challenges
  BY DEF WithPresence, Server, SameRun, SameProofs, SameFriends, SameRecords, SameQueues

WithBlank(s, u, f, v, b, T) ==
    [s EXCEPT !.user = u, !.manifest = f, !.verified = v, !.matchOf = b, !.terminal = T]

LEMMA SetBlank ==
    ASSUME NEW s \in Server, NEW u \in [Client -> UserOr],
           NEW f \in [Client -> Manifest], NEW v \in [Client -> Puid \cup {NoPuid}],
           NEW b \in [Client -> 0 .. MaxMatch], NEW T \in [Client -> Answer],
           NEW t, t = WithBlank(s, u, f, v, b, T)
    PROVE  /\ t \in Server /\ t.user = u /\ t.manifest = f /\ t.verified = v
           /\ t.pending = s.pending /\ t.matchOf = b /\ t.terminal = T
           /\ t.clients = s.clients /\ t.online = s.online
           /\ SameRun(s, t) /\ SameFriends(s, t)
           /\ SameRecords(s, t) /\ SameQueues(s, t)
           /\ t.rematches = s.rematches /\ t.challenges = s.challenges
  BY DEF WithBlank, Server, SameRun, SameFriends, SameRecords, SameQueues

WithReturn(s, C, u, o, f, v, T) ==
    [s EXCEPT !.clients = C, !.user = u, !.online = o, !.manifest = f, !.verified = v,
              !.terminal = T]

LEMMA SetReturn ==
    ASSUME NEW s \in Server, NEW C \in SUBSET Client, NEW u \in [Client -> UserOr],
           NEW o \in [User -> Client \cup {NoClient}], NEW f \in [Client -> Manifest],
           NEW v \in [Client -> Puid \cup {NoPuid}], NEW T \in [Client -> Answer],
           NEW t, t = WithReturn(s, C, u, o, f, v, T)
    PROVE  /\ t \in Server /\ t.clients = C /\ t.user = u /\ t.online = o
           /\ t.manifest = f /\ t.verified = v /\ t.terminal = T
           /\ t.pending = s.pending
           /\ SameRun(s, t) /\ SameFriends(s, t)
           /\ SameRecords(s, t) /\ SameQueues(s, t) /\ t.matchOf = s.matchOf
           /\ t.rematches = s.rematches /\ t.challenges = s.challenges
  BY DEF WithReturn, Server, SameRun, SameFriends, SameRecords, SameQueues

\* Connection c, and the account on it, is no longer there.
Off(s, t, c) ==
    /\ t.clients = s.clients \ {c}
    /\ t.user[c] = Nobody /\ \A d \in Client \ {c} : t.user[d] = s.user[d]
    /\ \A v \in User : t.online[v] = IF s.online[v] = c THEN NoClient ELSE s.online[v]
    /\ \A d \in Client \ {c} : t.verified[d] = s.verified[d]

\* No one waits for it, or for the account on it.
Unneeded(s, c) ==
    /\ s.matchOf[c] = 0 /\ ~ In(s.casual, c) /\ ~ In(s.competitive, c)
    /\ \A r \in s.rematches : s.user[c] \notin {r.a, r.b}
    /\ \A h \in s.challenges : s.user[c] \notin {h.from, h.to}

\* All else that a connection keeps is forgotten.
Forgets(s, t, c) ==
    /\ t.terminal[c] = NoTerminal
    /\ \A d \in Client \ {c} : t.terminal[d] = s.terminal[d]
    /\ SameRun(s, t) /\ SameFriends(s, t) /\ SameRecords(s, t) /\ SameQueues(s, t)
    /\ t.matchOf = s.matchOf /\ t.rematches = s.rematches /\ t.challenges = s.challenges

LEMMA OffKeeps ==
    ASSUME NEW s, ServerInv(s), NEW c \in Client, Unneeded(s, c),
           NEW t \in Server, Off(s, t, c), Forgets(s, t, c)
    PROVE  ServerInv(t)
<1>1. /\ s \in Server /\ s.match \in [MatchId -> Match] /\ s.rematches \subseteq Rematch
      /\ s.terminal \in [Client -> Answer] /\ s.matchOf \in [Client -> 0 .. MaxMatch]
      /\ s.user \in [Client -> UserOr] /\ s.online \in [User -> Client \cup {NoClient}]
  BY Fields DEF ServerInv
<1>2. /\ Presence(s) /\ Blank(s) /\ Waiting(s) /\ Bound(s)
      /\ Records(s) /\ Answers(s) /\ Identified(s)
      /\ OfferNames(s) /\ Playable(s) /\ Promised(s) /\ Offered(s)
      /\ Challenged(s) /\ Befriended(s) /\ ~ s.hung
  BY DEF ServerInv
<1>3. /\ SameRun(s, t) /\ SameFriends(s, t) /\ SameRecords(s, t) /\ SameQueues(s, t)
      /\ t.matchOf = s.matchOf /\ t.rematches = s.rematches /\ t.challenges = s.challenges
  BY DEF Forgets
<1>4. t.terminal[c] = NoTerminal /\ \A d \in Client \ {c} : t.terminal[d] = s.terminal[d]
  BY DEF Forgets
<1>5. /\ t.clients = s.clients \ {c}
      /\ t.user[c] = Nobody /\ \A d \in Client \ {c} : t.user[d] = s.user[d]
      /\ \A v \in User : t.online[v] = IF s.online[v] = c THEN NoClient ELSE s.online[v]
      /\ \A d \in Client \ {c} : t.verified[d] = s.verified[d]
  BY DEF Off
<1>6. /\ s.matchOf[c] = 0 /\ ~ In(s.casual, c) /\ ~ In(s.competitive, c)
      /\ \A r \in s.rematches : s.user[c] \notin {r.a, r.b}
      /\ \A h \in s.challenges : s.user[c] \notin {h.from, h.to}
  BY DEF Unneeded
<1>7. NoTerminal.id = 0 /\ ~ NoTerminal.rematch
  BY DEF NoTerminal
<1> USE <1>3 DEF SameRun, SameFriends, SameRecords, SameQueues
<1>8. ASSUME NEW w, Online(s, w), w # s.user[c]
      PROVE  /\ Online(t, w) /\ t.online[w] = s.online[w]
             /\ s.online[w] \in Client \ {c}
  <2>1. w \in User /\ s.online[w] \in Client /\ s.user[s.online[w]] = w
    BY <1>1, <1>2, <1>8 DEF Online, Presence
  <2> QED BY <1>5, <1>8, <2>1 DEF Online
<1>9. Presence(t)
  <2>1. ASSUME NEW d \in Client, t.user[d] # Nobody
        PROVE  d \in t.clients /\ t.online[t.user[d]] = d
    <3>1. d # c /\ t.user[d] = s.user[d] /\ s.user[d] \in User
      BY <1>1, <1>5, <2>1 DEF UserOr
    <3>2. d \in s.clients /\ s.online[s.user[d]] = d
      BY <1>2, <2>1, <3>1 DEF Presence
    <3> QED BY <1>5, <3>1, <3>2
  <2>2. ASSUME NEW v \in User, t.online[v] # NoClient
        PROVE  t.user[t.online[v]] = v
    <3>1. t.online[v] = s.online[v] /\ s.online[v] # c /\ s.online[v] # NoClient
      BY <1>5, <2>2
    <3>2. s.online[v] \in Client /\ s.user[s.online[v]] = v
      BY <1>1, <1>2, <3>1 DEF Presence
    <3> QED BY <1>5, <3>1, <3>2
  <2> QED BY <2>1, <2>2 DEF Presence
<1>10. Blank(t)
  BY <1>2, <1>4, <1>5, <1>6 DEF Blank
<1>11. Waiting(t)
  BY <1>2, <1>5, <1>6 DEF Waiting
<1>12. Bound(t)
  <2>1. \A n : (Active(t, n) <=> Active(s, n)) /\ Players(t, n) = Players(s, n)
    BY DEF Active, Players
  <2>2. ASSUME NEW n \in MatchId, Active(s, n), NEW w \in Players(s, n)
        PROVE  Online(t, w) /\ t.matchOf[t.online[w]] = n
    <3>1. Online(s, w) /\ s.matchOf[s.online[w]] = n
      BY <1>2, <2>2 DEF Bound
    <3>2. s.online[w] # c
      BY <1>6, <3>1 DEF MatchId
    <3>3. w \in User /\ t.online[w] = s.online[w] /\ s.online[w] # NoClient
      BY <1>5, <3>1, <3>2 DEF Online
    <3> QED BY <3>1, <3>3 DEF Online
  <2>3. ASSUME NEW d \in Client, t.matchOf[d] # 0
        PROVE  Active(s, t.matchOf[d]) /\ t.user[d] \in Players(s, t.matchOf[d])
    BY <1>2, <1>5, <1>6, <2>3 DEF Bound
  <2> QED BY <2>1, <2>2, <2>3 DEF Bound
<1>13. Records(t)
  BY <1>2 DEF Records
<1>14. Answers(t)
  <2>1. \A d \in Client : t.terminal[d].id # 0 => t.terminal[d] = s.terminal[d]
    BY <1>4, <1>7
  <2> QED BY <1>2, <2>1 DEF Answers
<1>15. Identified(t)
  <2>1. ASSUME NEW n \in MatchId, Active(t, n), t.match[n].eos, NEW w \in Players(t, n)
        PROVE  /\ t.match[n].puid[w] # NoPuid
               /\ t.verified[t.online[w]] = t.match[n].puid[w]
    <3>1. Active(s, n) /\ w \in Players(s, n) /\ s.match[n].eos
      BY <2>1 DEF Active, Players
    <3>2. Online(s, w) /\ s.matchOf[s.online[w]] = n
      BY <1>2, <3>1 DEF Bound
    <3>3. s.online[w] # c
      BY <1>6, <3>2 DEF MatchId
    <3>4. t.online[w] = s.online[w] /\ s.online[w] \in Client
      BY <1>1, <1>5, <3>2, <3>3 DEF Online
    <3>5. t.verified[t.online[w]] = s.verified[s.online[w]]
      BY <1>5, <3>3, <3>4
    <3> QED BY <1>2, <3>1, <3>5 DEF Identified
  <2> QED BY <2>1 DEF Identified
<1>16. OfferNames(t)
  BY <1>2 DEF OfferNames
<1>17. ASSUME NEW r \in s.rematches, NEW w \in {r.a, r.b}
       PROVE  /\ Online(t, w) /\ t.online[w] = s.online[w]
              /\ s.online[w] \in Client \ {c}
  <2>1. Online(s, w) /\ w # s.user[c]
    BY <1>2, <1>6 DEF Playable
  <2> QED BY <1>8, <2>1
<1>18. Playable(t)
  <2>1. ASSUME NEW r \in s.rematches
        PROVE  /\ ~ BlockEachOther(t, r.a, r.b)
               /\ \A w \in {r.a, r.b} :
                    /\ Online(t, w) /\ t.matchOf[t.online[w]] = 0
                    /\ ~ In(t.casual, t.online[w]) /\ ~ In(t.competitive, t.online[w])
    <3>1. ~ BlockEachOther(t, r.a, r.b)
      BY <1>2 DEF Playable, BlockEachOther
    <3>2. ASSUME NEW w \in {r.a, r.b}
          PROVE  /\ Online(t, w) /\ t.matchOf[t.online[w]] = 0
                 /\ ~ In(t.casual, t.online[w]) /\ ~ In(t.competitive, t.online[w])
      BY <1>2, <1>17 DEF Playable
    <3> QED BY <3>1, <3>2
  <2> QED BY <2>1 DEF Playable
<1>19. Promised(t)
  <2>1. ASSUME NEW d \in Client, t.terminal[d].rematch
        PROVE  \E r \in s.rematches : r.id = t.terminal[d].id /\ t.user[d] \in {r.a, r.b}
    <3>1. d # c /\ t.terminal[d] = s.terminal[d] /\ t.user[d] = s.user[d]
      BY <1>4, <1>5, <1>7, <2>1
    <3> QED BY <1>2, <2>1, <3>1 DEF Promised
  <2> QED BY <2>1 DEF Promised
<1>20. Offered(t)
  <2>1. ASSUME NEW r \in s.rematches, NEW w \in {r.a, r.b} PROVE Answered(t, r, w)
    <3>1. t.terminal[t.online[w]] = s.terminal[s.online[w]]
      BY <1>4, <1>17
    <3>2. Answered(s, r, w)
      BY <1>2 DEF Offered
    <3> QED BY <3>1, <3>2 DEF Answered
  <2> QED BY <2>1 DEF Offered
<1>21. Challenged(t)
  <2>1. ASSUME NEW h \in s.challenges
        PROVE  h.from # h.to /\ Online(t, h.from) /\ Online(t, h.to)
               /\ ~ BlockEachOther(t, h.from, h.to)
    <3>1. h.from # h.to /\ Online(s, h.from) /\ Online(s, h.to)
          /\ ~ BlockEachOther(s, h.from, h.to)
      BY <1>2 DEF Challenged
    <3>2. h.from # s.user[c] /\ h.to # s.user[c]
      BY <1>6
    <3>3. Online(t, h.from) /\ Online(t, h.to)
      BY <1>8, <3>1, <3>2
    <3> QED BY <3>1, <3>3 DEF BlockEachOther
  <2> QED BY <2>1 DEF Challenged
<1>22. Befriended(t) /\ ~ t.hung
  BY <1>2 DEF Befriended
<1> QED
  BY <1>9, <1>10, <1>11, <1>12, <1>13, <1>14, <1>15, <1>16, <1>18, <1>19, <1>20, <1>21, <1>22
     DEF ServerInv

\* Challenges may go, and come between two who are there.
LEMMA ChallengesKeep ==
    ASSUME NEW s, ServerInv(s), NEW H \in SUBSET Offer,
           \A h \in H : \/ h \in s.challenges
                        \/ /\ h.from # h.to /\ Online(s, h.from) /\ Online(s, h.to)
                           /\ ~ BlockEachOther(s, h.from, h.to),
           NEW t, t = WithChallenges(s, H)
    PROVE  /\ ServerInv(t) /\ t.challenges = H
           /\ SameRun(s, t) /\ SamePeople(s, t) /\ SameProofs(s, t) /\ SameFriends(s, t)
           /\ SameRecords(s, t) /\ SameQueues(s, t) /\ t.matchOf = s.matchOf
           /\ t.terminal = s.terminal /\ t.rematches = s.rematches
<1>1. s \in Server
  BY DEF ServerInv
<1>2. /\ t \in Server /\ t.challenges = H
      /\ SameRun(s, t) /\ SamePeople(s, t) /\ SameProofs(s, t) /\ SameFriends(s, t)
      /\ SameRecords(s, t) /\ SameQueues(s, t) /\ t.matchOf = s.matchOf
      /\ t.terminal = s.terminal /\ t.rematches = s.rematches
  BY <1>1, SetChallenges
<1> USE <1>2 DEF SameRun, SamePeople, SameProofs, SameFriends, SameQueues, SameRecords
<1>3. Presence(t) /\ Blank(t)
  BY DEF ServerInv, Presence, Blank
<1>4. Waiting(t)
  BY DEF ServerInv, Waiting
<1>5. Bound(t)
  BY BoundKept DEF ServerInv
<1>6. Records(t) /\ Answers(t)
  BY DEF ServerInv, Records, Answers
<1>7. Identified(t)
  BY DEF ServerInv, Identified, Active, Players
<1>8. OfferNames(t) /\ Promised(t) /\ Offered(t)
  BY OfferedKept DEF ServerInv, OfferNames
<1>9. Playable(t)
  BY PlayableKept DEF ServerInv
<1>10. Challenged(t)
  <2>1. ASSUME NEW h \in H
        PROVE  h.from # h.to /\ Online(t, h.from) /\ Online(t, h.to)
               /\ ~ BlockEachOther(t, h.from, h.to)
    <3>1. h.from # h.to /\ Online(s, h.from) /\ Online(s, h.to)
          /\ ~ BlockEachOther(s, h.from, h.to)
      BY DEF ServerInv, Challenged
    <3> QED BY <3>1 DEF Online, BlockEachOther
  <2> QED BY <2>1 DEF Challenged
<1>11. Befriended(t) /\ ~ t.hung
  BY DEF ServerInv, Befriended
<1> QED BY <1>3, <1>4, <1>5, <1>6, <1>7, <1>8, <1>9, <1>10, <1>11 DEF ServerInv

-----------------------------------------------------------------------------
(* destroyClient. *)

\* First it leaves: what the handler does before it ends the match ...
Away(s, c) ==
    LET u == s.user[c]
        gone == [RemoveFromQueues(s, c) EXCEPT
                    !.clients = s.clients \ {c},
                    !.online = [v \in User |->
                        IF s.online[v] = c THEN NoClient ELSE s.online[v]]]
    IN [CloseRematches(gone, RematchesOf(gone, u)) EXCEPT
            !.challenges = s.challenges \ ChallengesOf(gone, u)]

\* ... and the same of a connection that is still there.
Withdrawn(s, c) ==
    LET u == s.user[c]
    IN WithChallenges(CloseRematches(RemoveFromQueues(s, c), RematchesOf(s, u)),
                      s.challenges \ ChallengesOf(s, u))

\* Server b is y without connection c.
Lacks(y, b, c) ==
    /\ b \in Server
    /\ b.clients = y.clients \ {c} /\ b.user = y.user
    /\ \A v \in User : b.online[v] = IF y.online[v] = c THEN NoClient ELSE y.online[v]
    /\ \A d \in Client \ {c} : b.terminal[d] = y.terminal[d]
    /\ SameRun(y, b) /\ SameProofs(y, b) /\ SameFriends(y, b) /\ SameQueues(y, b)
    /\ b.matchOf = y.matchOf /\ b.rematches = y.rematches
    /\ b.challenges = y.challenges /\ b.next = y.next

\* No one waits for c, but for the match it is in.
Withdraws(s, y, c) ==
    /\ ServerInv(y)
    /\ SameRun(s, y) /\ SamePeople(s, y) /\ SameProofs(s, y) /\ SameFriends(s, y)
    /\ SameRecords(s, y) /\ y.matchOf = s.matchOf
    /\ ~ In(y.casual, c) /\ ~ In(y.competitive, c)
    /\ \A r \in y.rematches : s.user[c] \notin {r.a, r.b}
    /\ \A h \in y.challenges : s.user[c] \notin {h.from, h.to}

LEMMA WithdrawnKeeps ==
    ASSUME NEW s, ServerInv(s), NEW c \in Client, NEW y, y = Withdrawn(s, c)
    PROVE  Withdraws(s, y, c)
<1> DEFINE u == s.user[c]
           R == RematchesOf(s, u)
           H == s.challenges \ ChallengesOf(s, u)
           q == RemoveFromQueues(s, c)
           p == CloseRematches(q, R)
<1>1. y = WithChallenges(p, H)
  BY DEF Withdrawn
<1>2. \A r \in s.rematches \ R : u \notin {r.a, r.b}
  BY DEF RematchesOf
<1>3. H \subseteq s.challenges /\ \A h \in H : u \notin {h.from, h.to}
  BY DEF ChallengesOf
<1>4. s.challenges \subseteq Offer
  BY Fields DEF ServerInv
<1> HIDE DEF R, H
<1>5. /\ ServerInv(q) /\ Leaves(s, q, c)
      /\ SameRun(s, q) /\ SamePeople(s, q) /\ SameProofs(s, q) /\ SameFriends(s, q)
      /\ SameRecords(s, q) /\ q.matchOf = s.matchOf
      /\ q.rematches = s.rematches /\ q.challenges = s.challenges
  BY RemoveKeeps
<1> HIDE DEF q
<1>6. ServerInv(p) /\ p.rematches = s.rematches \ R /\ p.challenges = s.challenges
      /\ SameRun(q, p) /\ SamePeople(q, p) /\ SameProofs(q, p) /\ SameFriends(q, p)
      /\ SameRecords(q, p) /\ SameQueues(q, p) /\ p.matchOf = q.matchOf
  <2>1. q \in Server
    BY <1>5 DEF ServerInv
  <2>2. ServerInv(p)
    BY <1>5, CloseKeeps
  <2> QED BY <1>5, <2>1, <2>2, CloseEffect
<1> HIDE DEF p
<1>7. /\ ServerInv(y) /\ y.challenges = H
      /\ SameRun(p, y) /\ SamePeople(p, y) /\ SameProofs(p, y) /\ SameFriends(p, y)
      /\ SameRecords(p, y) /\ SameQueues(p, y) /\ y.matchOf = p.matchOf
      /\ y.rematches = p.rematches
  <2>1. H \in SUBSET Offer /\ \A h \in H : h \in p.challenges
    BY <1>3, <1>4, <1>6
  <2> QED BY <1>1, <1>6, <2>1, ChallengesKeep
<1>8. /\ SameRun(s, y) /\ SamePeople(s, y) /\ SameProofs(s, y) /\ SameFriends(s, y)
      /\ SameRecords(s, y) /\ y.matchOf = s.matchOf
  BY <1>5, <1>6, <1>7 DEF SameRun, SamePeople, SameProofs, SameFriends, SameRecords
<1>9. ~ In(y.casual, c) /\ ~ In(y.competitive, c)
  BY <1>5, <1>6, <1>7 DEF Leaves, SameQueues
<1> QED BY <1>2, <1>3, <1>6, <1>7, <1>8, <1>9 DEF Withdraws

LEMMA AwayLacks ==
    ASSUME NEW s, ServerInv(s), NEW c \in Client,
           NEW y, y = Withdrawn(s, c), NEW a, a = Away(s, c)
    PROVE  Lacks(y, a, c) /\ a.match = s.match
<1> DEFINE u == s.user[c]
           q == RemoveFromQueues(s, c)
           C == s.clients \ {c}
           o == [v \in User |-> IF s.online[v] = c THEN NoClient ELSE s.online[v]]
           g == WithPresence(q, C, o)
           R == RematchesOf(s, u)
           H == s.challenges \ ChallengesOf(s, u)
           p == CloseRematches(q, R)
           e == CloseRematches(g, R)
<1>1. /\ s \in Server /\ Once(s.casual) /\ Once(s.competitive)
      /\ s.clients \subseteq Client /\ s.online \in [User -> Client \cup {NoClient}]
      /\ s.challenges \subseteq Offer /\ s.user \in [Client -> UserOr]
  BY Fields DEF ServerInv, Waiting
<1>2. C \in SUBSET Client /\ o \in [User -> Client \cup {NoClient}]
      /\ \A v \in User : o[v] = IF s.online[v] = c THEN NoClient ELSE s.online[v]
  BY <1>1
<1>3. H \in SUBSET Offer
  BY <1>1
<1>4. y = WithChallenges(p, H)
  BY DEF Withdrawn
<1>5. /\ q \in Server
      /\ SameRun(s, q) /\ SamePeople(s, q) /\ SameProofs(s, q) /\ SameFriends(s, q)
      /\ SameRecords(s, q) /\ q.matchOf = s.matchOf /\ q.terminal = s.terminal
      /\ q.rematches = s.rematches /\ q.challenges = s.challenges
  BY <1>1, RemoveEffect
<1>6. a = [CloseRematches(g, RematchesOf(g, u)) EXCEPT
            !.challenges = s.challenges \ ChallengesOf(g, u)]
  BY DEF Away, WithPresence
<1> HIDE DEF q, C, o
<1>7. /\ g \in Server /\ g.clients = C /\ g.online = o /\ g.user = q.user
      /\ SameRun(q, g) /\ SameProofs(q, g) /\ SameFriends(q, g)
      /\ SameRecords(q, g) /\ SameQueues(q, g) /\ g.matchOf = q.matchOf
      /\ g.terminal = q.terminal /\ g.rematches = q.rematches
      /\ g.challenges = q.challenges
  BY <1>2, <1>5, SetPresence
<1> HIDE DEF g
<1>8. RematchesOf(g, u) = R /\ s.challenges \ ChallengesOf(g, u) = H
  BY <1>5, <1>7 DEF RematchesOf, ChallengesOf
<1>9. a = WithChallenges(e, H)
  BY <1>6, <1>8 DEF WithChallenges
<1> HIDE DEF R, H
<1>10. /\ p \in Server /\ p.rematches = q.rematches \ R
       /\ \A d \in Client :
           /\ p.terminal[d].id = q.terminal[d].id
           /\ p.terminal[d].outcome = q.terminal[d].outcome
           /\ p.terminal[d].rematch <=> q.terminal[d].rematch /\ ~ Closes(q, R, d)
           /\ ~ Closes(q, R, d) => p.terminal[d] = q.terminal[d]
       /\ SameRun(q, p) /\ SamePeople(q, p) /\ SameProofs(q, p) /\ SameFriends(q, p)
       /\ SameRecords(q, p) /\ SameQueues(q, p) /\ p.matchOf = q.matchOf
  BY <1>5, CloseEffect
<1>11. /\ e \in Server /\ e.rematches = g.rematches \ R
       /\ \A d \in Client :
           /\ e.terminal[d].id = g.terminal[d].id
           /\ e.terminal[d].outcome = g.terminal[d].outcome
           /\ e.terminal[d].rematch <=> g.terminal[d].rematch /\ ~ Closes(g, R, d)
           /\ ~ Closes(g, R, d) => e.terminal[d] = g.terminal[d]
       /\ SameRun(g, e) /\ SamePeople(g, e) /\ SameProofs(g, e) /\ SameFriends(g, e)
       /\ SameRecords(g, e) /\ SameQueues(g, e) /\ e.matchOf = g.matchOf
  BY <1>7, CloseEffect
<1>12. \A d \in Client \ {c} : e.terminal[d] = p.terminal[d]
  <2> SUFFICES ASSUME NEW d \in Client \ {c} PROVE e.terminal[d] = p.terminal[d]
    OBVIOUS
  <2>1. Closes(g, R, d) <=> Closes(q, R, d)
    <3>1. \A r \in s.rematches : r.a \in User /\ r.b \in User
      BY <1>1, Fields DEF Rematch
    <3>2. \A v \in User : g.online[v] = d <=> q.online[v] = d
      BY <1>2, <1>5, <1>7, ServerAssumption DEF SamePeople
    <3> QED BY <1>5, <1>7, <3>1, <3>2 DEF Closes
  <2>2. CASE ~ Closes(q, R, d)
    BY <1>7, <1>10, <1>11, <2>1, <2>2
  <2>3. CASE Closes(q, R, d)
    BY <1>7, <2>1, <2>3 DEF CloseRematches, Closes
  <2> QED BY <2>2, <2>3
<1> HIDE DEF p, e
<1>13. /\ y.challenges = H
       /\ SameRun(p, y) /\ SamePeople(p, y) /\ SameProofs(p, y) /\ SameFriends(p, y)
       /\ SameRecords(p, y) /\ SameQueues(p, y) /\ y.matchOf = p.matchOf
       /\ y.terminal = p.terminal /\ y.rematches = p.rematches
  BY <1>3, <1>4, <1>10, SetChallenges
<1>14. /\ a \in Server /\ a.challenges = H
       /\ SameRun(e, a) /\ SamePeople(e, a) /\ SameProofs(e, a) /\ SameFriends(e, a)
       /\ SameRecords(e, a) /\ SameQueues(e, a) /\ a.matchOf = e.matchOf
       /\ a.terminal = e.terminal /\ a.rematches = e.rematches
  BY <1>3, <1>9, <1>11, SetChallenges
<1> USE DEF SameRun, SamePeople, SameProofs, SameFriends, SameRecords, SameQueues
<1>15. /\ a.clients = C /\ a.online = o /\ a.user = q.user /\ a.match = s.match
       /\ y.clients = s.clients /\ y.online = s.online /\ y.user = q.user
  BY <1>5, <1>7, <1>10, <1>11, <1>13, <1>14
<1>16. /\ SameRun(y, a) /\ SameProofs(y, a) /\ SameFriends(y, a) /\ SameQueues(y, a)
       /\ a.matchOf = y.matchOf /\ a.rematches = y.rematches
       /\ a.challenges = y.challenges /\ a.next = y.next
  BY <1>7, <1>10, <1>11, <1>13, <1>14
<1>17. \A d \in Client \ {c} : a.terminal[d] = y.terminal[d]
  BY <1>12, <1>13, <1>14
<1>18. a.clients = y.clients \ {c}
  BY <1>15 DEF C
<1>19. \A v \in User : a.online[v] = IF y.online[v] = c THEN NoClient ELSE y.online[v]
  BY <1>2, <1>15
<1> QED BY <1>14, <1>15, <1>16, <1>17, <1>18, <1>19 DEF Lacks

\* A connection forgets all it kept.
Blanked(s, c) ==
    [s EXCEPT !.user[c] = Nobody, !.manifest[c] = NewManifest,
              !.verified[c] = NoPuid, !.matchOf[c] = 0, !.terminal[c] = NoTerminal]

LEMMA BlankEffect ==
    ASSUME NEW s \in Server, NEW c \in Client, NEW t, t = Blanked(s, c)
    PROVE  /\ t \in Server
           /\ t.user[c] = Nobody /\ t.matchOf[c] = 0 /\ t.terminal[c] = NoTerminal
           /\ \A d \in Client \ {c} :
                /\ t.user[d] = s.user[d] /\ t.matchOf[d] = s.matchOf[d]
                /\ t.terminal[d] = s.terminal[d]
                /\ t.manifest[d] = s.manifest[d] /\ t.verified[d] = s.verified[d]
           /\ t.clients = s.clients /\ t.online = s.online /\ t.pending = s.pending
           /\ SameRun(s, t) /\ SameFriends(s, t)
           /\ SameRecords(s, t) /\ SameQueues(s, t)
           /\ t.rematches = s.rematches /\ t.challenges = s.challenges
<1> DEFINE u == [s.user EXCEPT ![c] = Nobody]
           f == [s.manifest EXCEPT ![c] = NewManifest]
           v == [s.verified EXCEPT ![c] = NoPuid]
           b == [s.matchOf EXCEPT ![c] = 0]
           T == [s.terminal EXCEPT ![c] = NoTerminal]
<1>1. /\ s.user \in [Client -> UserOr] /\ s.manifest \in [Client -> Manifest]
      /\ s.verified \in [Client -> Puid \cup {NoPuid}]
      /\ s.matchOf \in [Client -> 0 .. MaxMatch] /\ s.terminal \in [Client -> Answer]
  BY Fields
<1>2. NoTerminal \in Answer /\ NewManifest \in Manifest
      /\ Nobody \in UserOr /\ 0 \in 0 .. MaxMatch
  BY ServerAssumption DEF NoTerminal, Answer, NewManifest, Manifest, UserOr
<1>3. /\ u \in [Client -> UserOr] /\ u[c] = Nobody
      /\ \A d \in Client \ {c} : u[d] = s.user[d]
  BY <1>1, <1>2
<1>4. /\ f \in [Client -> Manifest] /\ \A d \in Client \ {c} : f[d] = s.manifest[d]
  BY <1>1, <1>2
<1>5. /\ v \in [Client -> Puid \cup {NoPuid}]
      /\ \A d \in Client \ {c} : v[d] = s.verified[d]
  BY <1>1
<1>6. /\ b \in [Client -> 0 .. MaxMatch] /\ b[c] = 0
      /\ \A d \in Client \ {c} : b[d] = s.matchOf[d]
  BY <1>1, <1>2
<1>7. /\ T \in [Client -> Answer] /\ T[c] = NoTerminal
      /\ \A d \in Client \ {c} : T[d] = s.terminal[d]
  BY <1>1, <1>2
<1>8. t = WithBlank(s, u, f, v, b, T)
  BY DEF Blanked, WithBlank
<1> HIDE DEF u, f, v, b, T
<1>9. /\ t \in Server /\ t.user = u /\ t.manifest = f /\ t.verified = v
      /\ t.pending = s.pending /\ t.matchOf = b /\ t.terminal = T
      /\ t.clients = s.clients /\ t.online = s.online
      /\ SameRun(s, t) /\ SameFriends(s, t)
      /\ SameRecords(s, t) /\ SameQueues(s, t)
      /\ t.rematches = s.rematches /\ t.challenges = s.challenges
  BY <1>3, <1>4, <1>5, <1>6, <1>7, <1>8, SetBlank
<1> QED BY <1>3, <1>4, <1>5, <1>6, <1>7, <1>9

\* Record j is k with its winner, if it has one.
Resolved(k, j, w) ==
    /\ j \in Match /\ j.a = k.a /\ j.b = k.b /\ j.ranked = k.ranked
    /\ j.started = k.started /\ j.conceded = k.conceded /\ j.told = {}
    /\ j.winner = w
    /\ w # Nobody => /\ w \in {k.a, k.b} /\ k.started = {k.a, k.b}
                     /\ \E l \in k.conceded : l # w
    /\ j.rated = IF k.ranked /\ w # Nobody THEN 1 ELSE 0

LEMMA ResolvedSound ==
    ASSUME NEW k, Sound(k), k.phase \in {"setup", "playing"},
           NEW w, NEW j, Resolved(k, j, w), NEW g, Settled(j, g),
           \A x \in g.told : x[2] = IF w = Nobody THEN Void ELSE w
    PROVE  Sound(g) /\ OutcomeOf(g) = IF w = Nobody THEN Void ELSE w
<1>1. g.rated = j.rated
  BY DEF Settled
<1>2. g.rated = IF k.ranked /\ w # Nobody THEN 1 ELSE 0
  BY <1>1 DEF Resolved
<1>3. Decided(k, g, w)
  BY <1>2, Zenon DEF Resolved, Settled, Decided
<1>4. Sound(g)
  BY <1>3, DecidedSound
<1> QED BY <1>4 DEF OutcomeOf, Settled, Resolved

\* The end of a match that one of its players leaves.
LEMMA DepartKeeps ==
    ASSUME NEW y, ServerInv(y), NEW m \in MatchId, Active(y, m),
           NEW c \in Client, y.matchOf[c] = m,
           ~ In(y.casual, c), ~ In(y.competitive, c),
           \A r \in y.rematches : y.user[c] \notin {r.a, r.b},
           \A h \in y.challenges : y.user[c] \notin {h.from, h.to},
           NEW b, Lacks(y, b, c), \A n \in MatchId \ {m} : b.match[n] = y.match[n],
           NEW w \in UserOr, Resolved(y.match[m], b.match[m], w),
           NEW out, out = IF w = Nobody THEN Void ELSE w,
           NEW no \in BOOLEAN, ~ no,
           NEW l, l = Conclude(b, m, out, no), NEW t, t = Blanked(l, c)
    PROVE  /\ ServerInv(t) /\ SameRun(y, t) /\ Off(y, t, c)
           /\ Settled(b.match[m], t.match[m])
           /\ \A n \in MatchId \ {m} : t.match[n] = y.match[n]
<1> DEFINE ans == [id |-> m, outcome |-> out, rematch |-> no]
           T == [d \in Client |-> IF d = c THEN ans ELSE t.terminal[d]]
           x == WithReturn(t, y.clients, y.user, y.online, y.manifest, y.verified, T)
<1>1. /\ y \in Server /\ y.user \in [Client -> UserOr] /\ y.clients \in SUBSET Client
      /\ y.online \in [User -> Client \cup {NoClient}]
      /\ y.manifest \in [Client -> Manifest] /\ y.verified \in [Client -> Puid \cup {NoPuid}]
      /\ y.matchOf \in [Client -> 0 .. MaxMatch]
  BY Fields DEF ServerInv
<1>2. /\ b \in Server
      /\ b.clients = y.clients \ {c} /\ b.user = y.user
      /\ \A v \in User : b.online[v] = IF y.online[v] = c THEN NoClient ELSE y.online[v]
      /\ \A d \in Client \ {c} : b.terminal[d] = y.terminal[d]
      /\ SameRun(y, b) /\ SameProofs(y, b) /\ SameFriends(y, b) /\ SameQueues(y, b)
      /\ b.matchOf = y.matchOf /\ b.rematches = y.rematches
      /\ b.challenges = y.challenges /\ b.next = y.next
  BY DEF Lacks
<1>3. /\ y.match[m] \in Match /\ Sound(y.match[m])
      /\ y.match[m].a \in User /\ y.match[m].b \in User /\ Players(y, m) \subseteq User
  BY ActivePlayers
<1>4. Players(b, m) = Players(y, m) /\ b.match[m].told = {}
  BY DEF Players, Resolved
<1>5. out \in UserOr \cup {Void}
  OBVIOUS
<1>6. /\ l \in Server
      /\ \A d \in Client :
           /\ l.matchOf[d] = IF Hears(b, m, d) THEN 0 ELSE b.matchOf[d]
           /\ Hears(b, m, d) => l.terminal[d] = ans
           /\ ~ Hears(b, m, d) => l.terminal[d] = b.terminal[d]
      /\ \A n \in MatchId \ {m} : l.match[n] = b.match[n]
      /\ Settled(b.match[m], l.match[m])
      /\ \A z \in l.match[m].told : z \in b.match[m].told \/ z[2] = out
      /\ SameRun(b, l) /\ SamePeople(b, l) /\ SameProofs(b, l) /\ SameFriends(b, l)
      /\ SameQueues(b, l) /\ l.challenges = b.challenges
      /\ l.rematches = b.rematches /\ l.next = b.next
  <2>1. Players(b, m) \subseteq User
    BY <1>3, <1>4
  <2> QED BY <1>2, <1>5, <2>1, ConcludeEffect
<1>7. /\ t \in Server
      /\ t.user[c] = Nobody /\ t.matchOf[c] = 0 /\ t.terminal[c] = NoTerminal
      /\ \A d \in Client \ {c} :
           /\ t.user[d] = l.user[d] /\ t.matchOf[d] = l.matchOf[d]
           /\ t.terminal[d] = l.terminal[d]
           /\ t.manifest[d] = l.manifest[d] /\ t.verified[d] = l.verified[d]
      /\ t.clients = l.clients /\ t.online = l.online /\ t.pending = l.pending
      /\ SameRun(l, t) /\ SameFriends(l, t)
      /\ SameRecords(l, t) /\ SameQueues(l, t)
      /\ t.rematches = l.rematches /\ t.challenges = l.challenges
  BY <1>6, BlankEffect
<1>8. ASSUME NEW d \in Client \ {c} PROVE Hears(b, m, d) <=> y.matchOf[d] = m
  <2>1. Hears(y, m, d) <=> y.matchOf[d] = m
    BY HearsAre
  <2>2. \A v \in User : b.online[v] = d <=> y.online[v] = d
    BY <1>2, ServerAssumption
  <2>3. Hears(b, m, d) <=> Hears(y, m, d)
    BY <1>2, <1>3, <1>4, <2>2, ServerAssumption DEF Hears, Online
  <2> QED BY <2>1, <2>3
<1>9. ans \in Answer /\ ans.id = m
  BY <1>5 DEF Answer, MatchId
<1> HIDE DEF ans
<1>10. /\ T \in [Client -> Answer] /\ T[c] = ans
       /\ \A d \in Client \ {c} : T[d] = t.terminal[d]
  <2>1. t.terminal \in [Client -> Answer]
    BY <1>7, Fields
  <2> QED BY <1>9, <2>1
<1> HIDE DEF T
<1>11. /\ x \in Server /\ x.clients = y.clients /\ x.user = y.user /\ x.online = y.online
       /\ x.manifest = y.manifest /\ x.verified = y.verified /\ x.terminal = T
       /\ x.pending = t.pending
       /\ SameRun(t, x) /\ SameFriends(t, x)
       /\ SameRecords(t, x) /\ SameQueues(t, x) /\ x.matchOf = t.matchOf
       /\ x.rematches = t.rematches /\ x.challenges = t.challenges
  BY <1>1, <1>7, <1>10, SetReturn
<1> HIDE DEF x
<1> USE DEF SameRun, SamePeople, SameProofs, SameFriends, SameRecords, SameQueues
<1>12. /\ SameRun(y, x) /\ SamePeople(y, x) /\ SameProofs(y, x) /\ SameFriends(y, x)
       /\ SameQueues(y, x) /\ x.challenges = y.challenges /\ x.rematches = y.rematches
       /\ x.next = y.next
  BY <1>2, <1>6, <1>7, <1>11
<1>13. \A d \in Client :
         /\ x.matchOf[d] = IF y.matchOf[d] = m THEN 0 ELSE y.matchOf[d]
         /\ y.matchOf[d] = m => x.terminal[d] = ans
         /\ y.matchOf[d] # m => x.terminal[d] = y.terminal[d]
  <2> SUFFICES ASSUME NEW d \in Client
               PROVE  /\ x.matchOf[d] = IF y.matchOf[d] = m THEN 0 ELSE y.matchOf[d]
                      /\ y.matchOf[d] = m => x.terminal[d] = ans
                      /\ y.matchOf[d] # m => x.terminal[d] = y.terminal[d]
    OBVIOUS
  <2>1. CASE d = c
    BY <1>7, <1>10, <1>11, <2>1
  <2>2. CASE d # c
    BY <1>2, <1>6, <1>7, <1>8, <1>10, <1>11, <2>2
  <2> QED BY <2>1, <2>2
<1>14. x.match = l.match /\ t.match = l.match /\ t.next = y.next
  BY <1>2, <1>6, <1>7, <1>11
<1>15. Sound(l.match[m]) /\ OutcomeOf(l.match[m]) = out
  <2>1. \A z \in l.match[m].told : z[2] = IF w = Nobody THEN Void ELSE w
    BY <1>4, <1>6
  <2>2. y.match[m].phase \in {"setup", "playing"}
    BY DEF Active
  <2> QED BY <1>3, <1>6, <2>1, <2>2, ResolvedSound
<1>16. /\ l.match[m].a = y.match[m].a /\ l.match[m].b = y.match[m].b
       /\ l.match[m].phase = "ended"
  BY <1>6 DEF Resolved, Settled
<1>17. \A n \in MatchId \ {m} : l.match[n] = y.match[n]
  BY <1>6
<1>18. Ends(y, x, m, out, no)
  BY <1>12, <1>13, <1>14, <1>15, <1>16, <1>17 DEF Ends, ans
<1>19. ServerInv(x)
  BY <1>11, <1>12, <1>18, EndKeeps
<1>20. Unneeded(x, c)
  BY <1>7, <1>11, <1>12 DEF Unneeded
<1>21. Off(x, t, c)
  <2>1. t.clients = x.clients \ {c} /\ t.user[c] = Nobody
    BY <1>2, <1>6, <1>7, <1>11
  <2>2. \A d \in Client \ {c} : t.user[d] = x.user[d] /\ t.verified[d] = x.verified[d]
    BY <1>2, <1>6, <1>7, <1>11
  <2>3. \A v \in User : t.online[v] = IF x.online[v] = c THEN NoClient ELSE x.online[v]
    BY <1>2, <1>6, <1>7, <1>11
  <2> QED BY <2>1, <2>2, <2>3 DEF Off
<1>22. Forgets(x, t, c)
  <2>1. t.terminal[c] = NoTerminal /\ \A d \in Client \ {c} : t.terminal[d] = x.terminal[d]
    BY <1>7, <1>10, <1>11
  <2>2. /\ SameRun(x, t) /\ SameFriends(x, t) /\ SameRecords(x, t) /\ SameQueues(x, t)
        /\ t.matchOf = x.matchOf /\ t.rematches = x.rematches /\ t.challenges = x.challenges
    BY <1>11
  <2> QED BY <2>1, <2>2 DEF Forgets
<1>23. ServerInv(t)
  BY <1>7, <1>19, <1>20, <1>21, <1>22, OffKeeps
<1>24. Off(y, t, c)
  BY <1>11, <1>21 DEF Off
<1>25. SameRun(y, t)
  BY <1>11, <1>12
<1> QED BY <1>6, <1>14, <1>17, <1>23, <1>24, <1>25

\* What may become of a match's record: it begins, goes on or is committed to,
\* a player concedes, or it is over.
Begins(k, j) ==
    k.phase = "none" /\ j.phase = "setup" /\ j.winner = Nobody /\ j.conceded = {}
GoesOn(k, j) ==
    /\ j.a = k.a /\ j.b = k.b /\ j.winner = k.winner /\ j.conceded = k.conceded
    /\ j.phase = k.phase \/ (k.phase = "setup" /\ j.phase = "playing")
Yields(k, j) ==
    /\ j.a = k.a /\ j.b = k.b /\ j.winner = k.winner
    /\ k.phase = "playing" /\ j.phase = "playing" /\ k.conceded \subseteq j.conceded
IsOver(k, j) ==
    /\ j.a = k.a /\ j.b = k.b
    /\ k.phase \in {"setup", "playing"} /\ j.phase = "ended"
    /\ k.conceded \subseteq j.conceded
    /\ j.winner # Nobody => k.phase = "playing"
StepOf(k, j) == j = k \/ Begins(k, j) \/ GoesOn(k, j) \/ Yields(k, j) \/ IsOver(k, j)

Moves(s, t) ==
    /\ t.traffic = s.traffic
    /\ \A m \in MatchId : StepOf(s.match[m], t.match[m])

\* destroyClient, of a connection that is in no match ...
LEMMA LeaveIdle ==
    ASSUME NEW s, ServerInv(s), NEW c \in Client, s.matchOf[c] = 0,
           NEW t, t = Blanked(Away(s, c), c)
    PROVE  ServerInv(t) /\ SameRun(s, t) /\ Off(s, t, c) /\ Moves(s, t)
<1> DEFINE y == Withdrawn(s, c)
           a == Away(s, c)
<1>1. Withdraws(s, y, c) /\ Lacks(y, a, c) /\ a.match = s.match
  BY WithdrawnKeeps, AwayLacks
<1>2. t = Blanked(a, c)
  OBVIOUS
<1> HIDE DEF y, a
<1>3. /\ ServerInv(y) /\ y \in Server
      /\ SameRun(s, y) /\ SamePeople(s, y) /\ SameProofs(s, y)
      /\ SameRecords(s, y) /\ y.matchOf = s.matchOf
      /\ ~ In(y.casual, c) /\ ~ In(y.competitive, c)
      /\ \A r \in y.rematches : s.user[c] \notin {r.a, r.b}
      /\ \A h \in y.challenges : s.user[c] \notin {h.from, h.to}
  BY <1>1 DEF Withdraws, ServerInv
<1>4. /\ a \in Server
      /\ a.clients = y.clients \ {c} /\ a.user = y.user
      /\ \A v \in User : a.online[v] = IF y.online[v] = c THEN NoClient ELSE y.online[v]
      /\ \A d \in Client \ {c} : a.terminal[d] = y.terminal[d]
      /\ SameRun(y, a) /\ SameProofs(y, a) /\ SameFriends(y, a) /\ SameQueues(y, a)
      /\ a.matchOf = y.matchOf /\ a.rematches = y.rematches
      /\ a.challenges = y.challenges /\ a.next = y.next
  BY <1>1 DEF Lacks
<1>5. /\ t \in Server
      /\ t.user[c] = Nobody /\ t.matchOf[c] = 0 /\ t.terminal[c] = NoTerminal
      /\ \A d \in Client \ {c} :
           /\ t.user[d] = a.user[d] /\ t.matchOf[d] = a.matchOf[d]
           /\ t.terminal[d] = a.terminal[d]
           /\ t.manifest[d] = a.manifest[d] /\ t.verified[d] = a.verified[d]
      /\ t.clients = a.clients /\ t.online = a.online /\ t.pending = a.pending
      /\ SameRun(a, t) /\ SameFriends(a, t)
      /\ SameRecords(a, t) /\ SameQueues(a, t)
      /\ t.rematches = a.rematches /\ t.challenges = a.challenges
  BY <1>2, <1>4, BlankEffect
<1> USE DEF SameRun, SamePeople, SameProofs, SameFriends, SameRecords, SameQueues
<1>6. t.matchOf = y.matchOf
  <2>1. t.matchOf \in [Client -> 0 .. MaxMatch] /\ y.matchOf \in [Client -> 0 .. MaxMatch]
    BY <1>3, <1>5, Fields
  <2>2. \A d \in Client : t.matchOf[d] = y.matchOf[d]
    BY <1>3, <1>4, <1>5
  <2> QED BY <2>1, <2>2
<1>7. Unneeded(y, c)
  BY <1>3 DEF Unneeded
<1>8. Off(y, t, c)
  BY <1>4, <1>5 DEF Off
<1>9. Forgets(y, t, c)
  <2>1. t.terminal[c] = NoTerminal /\ \A d \in Client \ {c} : t.terminal[d] = y.terminal[d]
    BY <1>4, <1>5
  <2>2. /\ SameRun(y, t) /\ SameFriends(y, t) /\ SameRecords(y, t) /\ SameQueues(y, t)
        /\ t.rematches = y.rematches /\ t.challenges = y.challenges
    BY <1>1, <1>3, <1>4, <1>5
  <2> QED BY <1>6, <2>1, <2>2 DEF Forgets
<1>10. ServerInv(t)
  BY <1>3, <1>5, <1>7, <1>8, <1>9, OffKeeps
<1>11. Off(s, t, c)
  BY <1>3, <1>8 DEF Off
<1>12. SameRun(s, t) /\ Moves(s, t)
  BY <1>1, <1>3, <1>4, <1>5 DEF Moves, StepOf
<1> QED BY <1>10, <1>11, <1>12

\* ... of one whose match is still being set up ...
LEMMA LeaveSetup ==
    ASSUME NEW s, ServerInv(s), NEW c \in Client, NEW m \in MatchId,
           s.matchOf[c] = m, s.match[m].phase = "setup",
           NEW t, t = Blanked(CancelMatch(Away(s, c), m), c)
    PROVE  ServerInv(t) /\ SameRun(s, t) /\ Off(s, t, c) /\ Moves(s, t)
<1> DEFINE y == Withdrawn(s, c)
           a == Away(s, c)
           no == FALSE
           l == Conclude(a, m, Void, no)
<1>1. Withdraws(s, y, c) /\ Lacks(y, a, c) /\ a.match = s.match
  BY WithdrawnKeeps, AwayLacks
<1>2. t = Blanked(l, c) /\ no \in BOOLEAN /\ ~ no
  BY DEF CancelMatch
<1>3. l = Conclude(a, m, Void, no)
  OBVIOUS
<1> HIDE DEF y, a, no, l
<1>4. /\ ServerInv(y) /\ SameRun(s, y) /\ SamePeople(s, y) /\ SameProofs(s, y)
      /\ SameRecords(s, y) /\ y.matchOf = s.matchOf
      /\ ~ In(y.casual, c) /\ ~ In(y.competitive, c)
      /\ \A r \in y.rematches : s.user[c] \notin {r.a, r.b}
      /\ \A h \in y.challenges : s.user[c] \notin {h.from, h.to}
  BY <1>1 DEF Withdraws
<1>5. Active(s, m)
  BY DEF Active
<1>6. /\ s.match[m] \in Match /\ s.match[m].winner = Nobody
      /\ s.match[m].told = {} /\ s.match[m].rated = 0
  BY <1>5, ActivePlayers
<1>7. y.match = s.match /\ y.user = s.user /\ Active(y, m)
  BY <1>4, <1>5 DEF SameRecords, SamePeople, Active
<1>8. Resolved(y.match[m], a.match[m], Nobody)
  BY <1>1, <1>6, <1>7 DEF Resolved
<1>9. \A n \in MatchId \ {m} : a.match[n] = y.match[n]
  BY <1>1, <1>7
<1>10. /\ ServerInv(t) /\ SameRun(y, t) /\ Off(y, t, c)
       /\ Settled(a.match[m], t.match[m])
       /\ \A n \in MatchId \ {m} : t.match[n] = y.match[n]
  <2> DEFINE w == Nobody
             out == Void
  <2>1. w \in UserOr /\ out = IF w = Nobody THEN Void ELSE w
    BY DEF UserOr
  <2>2. Resolved(y.match[m], a.match[m], w) /\ l = Conclude(a, m, out, no)
    BY <1>3, <1>8
  <2>3. /\ y.matchOf[c] = m
        /\ \A r \in y.rematches : y.user[c] \notin {r.a, r.b}
        /\ \A h \in y.challenges : y.user[c] \notin {h.from, h.to}
    BY <1>4, <1>7
  <2> HIDE DEF w, out
  <2> QED BY <1>1, <1>2, <1>4, <1>7, <1>9, <2>1, <2>2, <2>3, DepartKeeps
<1>11. Off(s, t, c)
  BY <1>4, <1>10 DEF Off, SamePeople, SameProofs
<1>12. SameRun(s, t)
  BY <1>4, <1>10 DEF SameRun
<1>13. Moves(s, t)
  <2>1. IsOver(s.match[m], t.match[m])
    BY <1>1, <1>6, <1>10 DEF IsOver, Settled
  <2>2. \A n \in MatchId \ {m} : t.match[n] = s.match[n]
    BY <1>7, <1>10
  <2> QED BY <1>12, <2>1, <2>2 DEF Moves, StepOf, SameRun
<1> QED BY <1>10, <1>11, <1>12, <1>13

\* A match in play with no winner yet.
LEMMA SoundInPlay ==
    ASSUME NEW j, j.phase = "playing", j.winner = Nobody, j.told = {}, j.rated = 0,
           j.started = {j.a, j.b}, j.failed \subseteq {j.a, j.b},
           j.conceded \subseteq {j.a, j.b}, {j.a, j.b} \subseteq User, j.a # j.b,
           \A v \in User : j.result[v] # Nobody =>
             v \in {j.a, j.b} /\ j.result[v] \in {j.a, j.b}
             /\ (j.result[v] # v => v \in j.conceded)
    PROVE  Sound(j)
  BY Zenon DEF Sound, OutcomeOf

\* A player concedes a match in play.
LEMMA ConcedeEffect ==
    ASSUME NEW k \in Match, Sound(k), k.phase = "playing", NEW u \in {k.a, k.b},
           NEW j, j = [k EXCEPT !.conceded = k.conceded \cup {u}]
    PROVE  /\ j \in Match /\ Sound(j) /\ SameOutline(k, j) /\ j.phase = "playing"
           /\ j.a = k.a /\ j.b = k.b /\ j.ranked = k.ranked /\ j.started = k.started
           /\ j.conceded = k.conceded \cup {u} /\ j.told = k.told
           /\ j.winner = k.winner /\ j.rated = k.rated
<1>1. {k.a, k.b} \subseteq User /\ k.a # k.b
  BY DEF Sound
<1> DEFINE C == k.conceded \cup {u}
<1>2. C \subseteq User /\ C \subseteq {k.a, k.b}
  BY <1>1 DEF Match, Sound
<1>3. j = [k EXCEPT !.conceded = C] /\ k.conceded \subseteq C
  OBVIOUS
<1> HIDE DEF C
<1>4. /\ j \in Match /\ j.phase = "playing" /\ j.a = k.a /\ j.b = k.b
      /\ j.ranked = k.ranked /\ j.started = k.started /\ j.conceded = C
      /\ j.told = k.told /\ j.winner = k.winner /\ j.rated = k.rated
      /\ j.failed = k.failed /\ j.result = k.result /\ j.eos = k.eos /\ j.puid = k.puid
  BY <1>2, <1>3 DEF Match
<1>5. Sound(j)
  <2>1. /\ k.winner = Nobody /\ k.told = {} /\ k.rated = 0 /\ k.started = {k.a, k.b}
        /\ k.failed \subseteq {k.a, k.b}
    BY DEF Sound
  <2>2. /\ j.winner = Nobody /\ j.told = {} /\ j.rated = 0 /\ j.started = {j.a, j.b}
        /\ j.failed \subseteq {j.a, j.b} /\ j.conceded \subseteq {j.a, j.b}
        /\ {j.a, j.b} \subseteq User /\ j.a # j.b
    BY <1>1, <1>2, <1>4, <2>1
  <2>3. \A v \in User : k.result[v] # Nobody =>
          v \in {k.a, k.b} /\ k.result[v] \in {k.a, k.b} /\ (k.result[v] # v => v \in k.conceded)
    BY DEF Sound
  <2>4. \A v \in User : j.result[v] # Nobody =>
          v \in {j.a, j.b} /\ j.result[v] \in {j.a, j.b} /\ (j.result[v] # v => v \in j.conceded)
    BY <1>3, <1>4, <2>3
  <2> QED BY <1>4, <2>2, <2>4, SoundInPlay
<1>6. SameOutline(k, j)
  BY <1>4 DEF SameOutline
<1> QED BY <1>4, <1>5, <1>6 DEF C

\* finishMatch where no rematch can be offered.
Won(k, w) ==
    [k EXCEPT !.winner = w, !.rated = k.rated + (IF k.ranked THEN 1 ELSE 0)]

LEMMA FinishWithoutOffer ==
    ASSUME NEW z, NEW m, NEW w, ~ MayOfferRematch(z, m),
           NEW no \in BOOLEAN, ~ no
    PROVE  FinishMatch(z, m, w)
             = Conclude(WithMatches(z, [z.match EXCEPT ![m] = Won(z.match[m], w)]), m, w, no)
<1> DEFINE offer == MayOfferRematch(z, m)
           q == [(IF offer THEN OfferRematch(z, m) ELSE z) EXCEPT
                   !.match[m].winner = w,
                   !.match[m].rated = z.match[m].rated
                                        + (IF z.match[m].ranked THEN 1 ELSE 0)]
<1>1. FinishMatch(z, m, w) = Conclude(q, m, w, offer)
  BY DEF FinishMatch
<1>2. offer = no
  BY DEF MayOfferRematch
<1>3. q = WithMatches(z, [z.match EXCEPT ![m] = Won(z.match[m], w)])
  <2>1. (IF offer THEN OfferRematch(z, m) ELSE z) = z
    OBVIOUS
  <2>2. q = [z EXCEPT !.match[m].winner = w,
                      !.match[m].rated = z.match[m].rated
                            + (IF z.match[m].ranked THEN 1 ELSE 0)]
    BY <2>1
  <2> HIDE DEF q
  <2> QED BY <2>2 DEF WithMatches, Won
<1> HIDE DEF q, offer
<1> QED BY <1>1, <1>2, <1>3

Conceding(k, u) == [k EXCEPT !.conceded = k.conceded \cup {u}]

LEMMA WonEffect ==
    ASSUME NEW k \in Match, k.rated = 0, NEW w \in UserOr, NEW j, j = Won(k, w)
    PROVE  /\ j \in Match /\ j.winner = w /\ (j.rated = IF k.ranked THEN 1 ELSE 0)
           /\ j.a = k.a /\ j.b = k.b /\ j.ranked = k.ranked
           /\ j.started = k.started /\ j.conceded = k.conceded /\ j.told = k.told
<1> DEFINE n == k.rated + (IF k.ranked THEN 1 ELSE 0)
<1>1. n \in Nat /\ n = IF k.ranked THEN 1 ELSE 0
  OBVIOUS
<1>2. j = [k EXCEPT !.winner = w, !.rated = n]
  BY DEF Won
<1> HIDE DEF n
<1>3. /\ j \in Match /\ j.winner = w /\ j.rated = n
      /\ j.a = k.a /\ j.b = k.b /\ j.ranked = k.ranked
      /\ j.started = k.started /\ j.conceded = k.conceded /\ j.told = k.told
  BY <1>1, <1>2 DEF Match
<1> QED BY <1>1, <1>3


\* ... and of one who leaves a match in play: it is the other's.
LEMMA LeavePlay ==
    ASSUME NEW s, ServerInv(s), NEW c \in Client, NEW m \in MatchId,
           s.matchOf[c] = m, NEW k, k = s.match[m], k.phase = "playing",
           NEW u, u = s.user[c], NEW other, other = Opponent(s, m, u),
           NEW k1, k1 = Conceding(k, u), NEW f, f \in [MatchId -> Match], f[m] = k1,
           \A n \in MatchId \ {m} : f[n] = s.match[n],
           NEW z, z = WithMatches(Away(s, c), f),
           NEW t, t = Blanked(FinishMatch(z, m, other), c)
    PROVE  /\ Online(z, other)
           /\ ServerInv(t) /\ SameRun(s, t) /\ Off(s, t, c) /\ Moves(s, t)
<1> DEFINE y == Withdrawn(s, c)
           a == Away(s, c)
           y1 == WithMatches(y, [y.match EXCEPT ![m] = k1])
<1>1. Withdraws(s, y, c) /\ Lacks(y, a, c) /\ a.match = s.match
  BY WithdrawnKeeps, AwayLacks
<1>2. z = WithMatches(a, f) /\ y1 = WithMatches(y, [y.match EXCEPT ![m] = k1])
  OBVIOUS
<1> HIDE DEF y, a, y1
<1>3. /\ ServerInv(y) /\ SameRun(s, y) /\ SamePeople(s, y) /\ SameProofs(s, y)
      /\ SameRecords(s, y) /\ y.matchOf = s.matchOf
      /\ ~ In(y.casual, c) /\ ~ In(y.competitive, c)
      /\ \A r \in y.rematches : s.user[c] \notin {r.a, r.b}
      /\ \A h \in y.challenges : s.user[c] \notin {h.from, h.to}
  BY <1>1 DEF Withdraws
<1>4. Active(s, m) /\ Bound(s) /\ Presence(s)
  BY DEF Active, ServerInv
<1>5. /\ k \in Match /\ Sound(k) /\ k.winner = Nobody /\ k.told = {} /\ k.rated = 0
      /\ k.a \in User /\ k.b \in User /\ k.a # k.b
  BY <1>4, ActivePlayers
<1>6. u \in {k.a, k.b}
  BY <1>4 DEF Bound, Players, MatchId
<1>7. other \in {k.a, k.b} /\ other # u /\ other \in User /\ u \in User
  BY <1>5, <1>6 DEF Opponent
<1>8. k1 \in Match /\ Sound(k1) /\ SameOutline(k, k1) /\ k1.phase = "playing"
      /\ k1.a = k.a /\ k1.b = k.b /\ k1.ranked = k.ranked /\ k1.started = k.started
      /\ k1.conceded = k.conceded \cup {u} /\ k1.told = k.told
      /\ k1.winner = k.winner /\ k1.rated = k.rated
  <2>1. k1 = [k EXCEPT !.conceded = k.conceded \cup {u}]
    BY DEF Conceding
  <2> QED BY <1>5, <1>6, <2>1, ConcedeEffect
<1>9. y.match = s.match
  BY <1>3 DEF SameRecords
<1>10. /\ ServerInv(y1) /\ y1.match[m] = k1 /\ y1.next = y.next
       /\ \A n \in MatchId \ {m} : y1.match[n] = y.match[n]
       /\ SameRun(y, y1) /\ SamePeople(y, y1) /\ SameProofs(y, y1) /\ SameFriends(y, y1)
       /\ SameQueues(y, y1) /\ y1.matchOf = y.matchOf /\ y1.challenges = y.challenges
       /\ y1.terminal = y.terminal /\ y1.rematches = y.rematches
  <2>1. SameOutline(y.match[m], k1)
    BY <1>8, <1>9
  <2> QED BY <1>2, <1>3, <1>8, <2>1, RecordKeeps
<1>12. /\ a \in Server
       /\ a.clients = y.clients \ {c} /\ a.user = y.user
       /\ \A v \in User : a.online[v] = IF y.online[v] = c THEN NoClient ELSE y.online[v]
       /\ \A d \in Client \ {c} : a.terminal[d] = y.terminal[d]
       /\ SameRun(y, a) /\ SameProofs(y, a) /\ SameFriends(y, a) /\ SameQueues(y, a)
       /\ a.matchOf = y.matchOf /\ a.rematches = y.rematches
       /\ a.challenges = y.challenges /\ a.next = y.next
  BY <1>1 DEF Lacks
<1>13. /\ z \in Server /\ z.match = f /\ z.next = a.next
       /\ SameRun(a, z) /\ SamePeople(a, z) /\ SameProofs(a, z) /\ SameFriends(a, z)
       /\ SameQueues(a, z) /\ z.matchOf = a.matchOf /\ z.challenges = a.challenges
       /\ z.terminal = a.terminal /\ z.rematches = a.rematches
  BY <1>2, <1>12, SetMatches
<1>14. Online(z, other)
  <2>1. Online(s, other) /\ s.user[s.online[other]] = other
    BY <1>4, <1>7 DEF Bound, Players, Online, Presence
  <2>2. s.online[other] # c
    BY <1>7, <2>1
  <2>3. y.online[other] = s.online[other]
    BY <1>3 DEF SamePeople
  <2>4. z.online[other] = s.online[other]
    BY <1>7, <1>12, <1>13, <2>2, <2>3 DEF SamePeople
  <2> QED BY <2>1, <2>4 DEF Online
<1>15. ~ MayOfferRematch(z, m)
  <2>1. s.online[u] = c
    BY <1>4, <1>7, ServerAssumption DEF Presence
  <2>2. z.online[u] = NoClient
    BY <1>3, <1>7, <1>12, <1>13, <2>1 DEF SamePeople
  <2>3. ~ Online(z, u)
    BY <2>2 DEF Online
  <2>4. z.match[m].a = k.a /\ z.match[m].b = k.b
    BY <1>8, <1>13
  <2> QED BY <1>6, <2>3, <2>4 DEF MayOfferRematch
<1> DEFINE j == Won(k1, other)
           g == [f EXCEPT ![m] = j]
           b == WithMatches(z, g)
           no == FALSE
           l == Conclude(b, m, other, no)
<1>16. /\ no \in BOOLEAN /\ ~ no /\ j = Won(k1, other)
       /\ b = WithMatches(z, g) /\ l = Conclude(b, m, other, no)
       /\ l = Conclude(WithMatches(z, [f EXCEPT ![m] = j]), m, other, no)
  OBVIOUS
<1>17. /\ g \in [MatchId -> Match] /\ g[m] = j
       /\ \A n \in MatchId \ {m} : g[n] = s.match[n]
       /\ j \in Match /\ j.winner = other /\ (j.rated = IF k1.ranked THEN 1 ELSE 0)
       /\ j.a = k1.a /\ j.b = k1.b /\ j.ranked = k1.ranked
       /\ j.started = k1.started /\ j.conceded = k1.conceded /\ j.told = k1.told
  <2>1. other \in UserOr /\ k1.rated = 0
    BY <1>5, <1>7, <1>8 DEF UserOr
  <2>2. /\ j \in Match /\ j.winner = other /\ j.rated = IF k1.ranked THEN 1 ELSE 0
        /\ j.a = k1.a /\ j.b = k1.b /\ j.ranked = k1.ranked
        /\ j.started = k1.started /\ j.conceded = k1.conceded /\ j.told = k1.told
    <3> HIDE DEF j, g, b, l, no
    <3> QED BY <1>8, <1>16, <2>1, WonEffect
  <2> HIDE DEF j
  <2> QED BY <2>2
<1> HIDE DEF j, g, b, l, no
<1>18. FinishMatch(z, m, other) = l
  <2>1. FinishMatch(z, m, other)
          = Conclude(WithMatches(z, [z.match EXCEPT ![m] = Won(z.match[m], other)]),
                     m, other, no)
    BY <1>15, <1>16, FinishWithoutOffer
  <2>2. Won(z.match[m], other) = j /\ z.match = f
    BY <1>13, <1>16
  <2> QED BY <1>16, <2>1, <2>2
<1>19. /\ b \in Server /\ b.match = g /\ b.next = z.next
       /\ SameRun(z, b) /\ SamePeople(z, b) /\ SameProofs(z, b) /\ SameFriends(z, b)
       /\ SameQueues(z, b) /\ b.matchOf = z.matchOf /\ b.challenges = z.challenges
       /\ b.terminal = z.terminal /\ b.rematches = z.rematches
  BY <1>13, <1>16, <1>17, SetMatches
<1>20. t = Blanked(l, c)
  BY <1>18
<1>21. Lacks(y1, b, c)
  <2> USE DEF SameRun, SamePeople, SameProofs, SameFriends, SameQueues
  <2>1. /\ b.clients = y1.clients \ {c} /\ b.user = y1.user
        /\ \A v \in User : b.online[v] = IF y1.online[v] = c THEN NoClient ELSE y1.online[v]
        /\ \A d \in Client \ {c} : b.terminal[d] = y1.terminal[d]
    BY <1>10, <1>12, <1>13, <1>19
  <2>2. /\ SameRun(y1, b) /\ SameProofs(y1, b) /\ SameFriends(y1, b) /\ SameQueues(y1, b)
        /\ b.matchOf = y1.matchOf /\ b.rematches = y1.rematches
        /\ b.challenges = y1.challenges /\ b.next = y1.next
    BY <1>10, <1>12, <1>13, <1>19
  <2> QED BY <1>19, <2>1, <2>2 DEF Lacks
<1>22. Resolved(k1, j, other)
  <2>1. k1.started = {k1.a, k1.b}
    BY <1>8 DEF Sound
  <2>2. u \in k1.conceded /\ u # other /\ other # Nobody /\ other \in {k1.a, k1.b}
    BY <1>7, <1>8, ServerAssumption
  <2>3. j.rated = IF k1.ranked /\ other # Nobody THEN 1 ELSE 0
    BY <1>17, <2>2
  <2>4. j.told = {}
    BY <1>5, <1>8, <1>17
  <2> QED BY <1>17, <2>1, <2>2, <2>3, <2>4 DEF Resolved
<1>23. Active(y1, m) /\ \A n \in MatchId \ {m} : b.match[n] = y1.match[n]
  BY <1>8, <1>9, <1>10, <1>17, <1>19 DEF Active
<1>24. /\ y1.matchOf[c] = m /\ ~ In(y1.casual, c) /\ ~ In(y1.competitive, c)
       /\ \A r \in y1.rematches : y1.user[c] \notin {r.a, r.b}
       /\ \A h \in y1.challenges : y1.user[c] \notin {h.from, h.to}
  BY <1>3, <1>10 DEF SamePeople, SameQueues
<1>25. /\ ServerInv(t) /\ SameRun(y1, t) /\ Off(y1, t, c)
       /\ Settled(b.match[m], t.match[m])
       /\ \A n \in MatchId \ {m} : t.match[n] = y1.match[n]
  <2>1. other \in UserOr /\ other = IF other = Nobody THEN Void ELSE other
    BY <1>7, ServerAssumption DEF UserOr
  <2>2. Resolved(y1.match[m], b.match[m], other)
    BY <1>10, <1>17, <1>19, <1>22
  <2>3. ServerInv(y1) /\ no \in BOOLEAN /\ ~ no /\ l = Conclude(b, m, other, no)
    BY <1>10, <1>16
  <2> QED BY <1>20, <1>21, <1>23, <1>24, <2>1, <2>2, <2>3, DepartKeeps
<1>26. Off(s, t, c)
  BY <1>3, <1>10, <1>25 DEF Off, SamePeople, SameProofs
<1>27. SameRun(s, t)
  BY <1>3, <1>10, <1>25 DEF SameRun
<1>28. Moves(s, t)
  <2>1. IsOver(k, t.match[m])
    <3>1. Settled(j, t.match[m])
      BY <1>17, <1>19, <1>25
    <3>2. /\ t.match[m].a = k.a /\ t.match[m].b = k.b /\ t.match[m].phase = "ended"
          /\ t.match[m].conceded = k1.conceded
      BY <1>8, <1>17, <3>1 DEF Settled
    <3> QED BY <1>8, <3>2 DEF IsOver
  <2>2. \A n \in MatchId \ {m} : t.match[n] = s.match[n]
    BY <1>9, <1>10, <1>25
  <2> QED BY <1>27, <2>1, <2>2 DEF Moves, StepOf, SameRun
<1> QED BY <1>14, <1>25, <1>26, <1>27, <1>28

\* Presence, its match conceded.
Yielded(a, m, u) == [a EXCEPT !.match[m].conceded = a.match[m].conceded \cup {u}]

LEMMA DestroyPlay ==
    ASSUME NEW s, NEW c, NEW m, s.matchOf[c] = m, m # 0, Active(s, m),
           s.match[m].phase # "setup",
           NEW u, u = s.user[c], NEW other, other = Opponent(s, m, u),
           NEW z, z = Yielded(Away(s, c), m, u), Online(z, other),
           NEW t, t = DestroyClient(s, c)
    PROVE  t = Blanked(FinishMatch(z, m, other), c)
<1> DEFINE a == Away(s, c)
<1>1. z = [a EXCEPT !.match[m].conceded = s.match[m].conceded \cup {u}]
  BY DEF Yielded, Away, CloseRematches, RemoveFromQueues
<1> QED BY <1>1 DEF DestroyClient, Away, Blanked

LEMMA YieldedIs ==
    ASSUME NEW a, NEW m, NEW u, NEW z, z = Yielded(a, m, u)
    PROVE  z = WithMatches(a, [a.match EXCEPT ![m] = Conceding(a.match[m], u)])
BY DEF Yielded, WithMatches, Conceding

\* destroyClient, whatever the connection is in.
LEMMA DestroyKeeps ==
    ASSUME NEW s, ServerInv(s), NEW c \in Client, NEW t, t = DestroyClient(s, c)
    PROVE  ServerInv(t) /\ SameRun(s, t) /\ Off(s, t, c) /\ Moves(s, t)
<1> DEFINE u == s.user[c]
           m == s.matchOf[c]
           a == Away(s, c)
           other == Opponent(s, m, u)
<1>2. Bound(s) /\ s.matchOf \in [Client -> 0 .. MaxMatch] /\ s.match \in [MatchId -> Match]
  BY Fields DEF ServerInv
<1>3. CASE m = 0
  <2>1. t = Blanked(a, c)
    BY <1>3 DEF DestroyClient, Away, Blanked
  <2> QED BY <1>3, <2>1, LeaveIdle
<1>4. CASE m # 0
  <2>1. m \in MatchId /\ Active(s, m)
    <3>1. m \in 0 .. MaxMatch
      BY <1>2
    <3> QED BY <1>2, <1>4, <3>1 DEF Bound, MatchId
  <2>2. CASE s.match[m].phase = "setup"
    <3>1. t = Blanked(CancelMatch(a, m), c)
      BY <1>4, <2>1, <2>2 DEF DestroyClient, Away, Blanked
    <3> QED BY <2>1, <2>2, <3>1, LeaveSetup
  <2>3. CASE s.match[m].phase = "playing"
    <3> DEFINE z == Yielded(a, m, u)
               k == s.match[m]
               k1 == Conceding(k, u)
               f == [s.match EXCEPT ![m] = k1]
               t1 == Blanked(FinishMatch(z, m, other), c)
    <3>1. z = WithMatches(a, f)
      <4>1. a.match = s.match
        BY AwayLacks
      <4>2. z = WithMatches(a, [a.match EXCEPT ![m] = Conceding(a.match[m], u)])
        BY YieldedIs
      <4> QED BY <4>1, <4>2
    <3>2. k \in Match /\ Sound(k) /\ u \in {k.a, k.b}
      <4>1. k \in Match /\ Sound(k)
        BY <2>1, ActivePlayers
      <4> QED BY <1>2, <2>1, <4>1 DEF Bound, Players, MatchId
    <3>3. k1 \in Match
      <4>1. k1 = [k EXCEPT !.conceded = k.conceded \cup {u}]
        BY DEF Conceding
      <4> HIDE DEF k, k1, u, z
      <4> QED BY <2>3, <3>2, <4>1, ConcedeEffect DEF k
    <3>4. /\ k = s.match[m] /\ k.phase = "playing" /\ u = s.user[c] /\ m = s.matchOf[c]
          /\ other = Opponent(s, m, u) /\ k1 = Conceding(k, u)
          /\ z = Yielded(Away(s, c), m, u) /\ z = WithMatches(Away(s, c), f)
          /\ t1 = Blanked(FinishMatch(z, m, other), c)
      BY <2>3, <3>1
    <3>5. f \in [MatchId -> Match] /\ f[m] = k1 /\ \A n \in MatchId \ {m} : f[n] = s.match[n]
      <4> HIDE DEF k1, m
      <4> QED BY <1>2, <2>1, <3>3
    <3> HIDE DEF u, m, other, z, k, k1, f, t1
    <3>6. /\ Online(z, other) /\ ServerInv(t1) /\ SameRun(s, t1)
          /\ Off(s, t1, c) /\ Moves(s, t1)
      BY <2>1, <3>4, <3>5, LeavePlay
    <3>7. t = t1
      <4>1. m # 0 /\ s.match[m].phase # "setup"
        BY <1>4, <2>3
      <4>2. z = Yielded(Away(s, c), m, u) /\ Online(z, other) /\ s.matchOf[c] = m
            /\ u = s.user[c] /\ other = Opponent(s, m, u)
        BY <3>4, <3>6
      <4>3. t = Blanked(FinishMatch(z, m, other), c)
        BY <2>1, <4>1, <4>2, DestroyPlay
      <4> QED BY <3>4, <4>3
    <3> QED BY <3>6, <3>7
  <2> QED BY <2>1, <2>2, <2>3 DEF Active
<1> QED BY <1>3, <1>4
=============================================================================
