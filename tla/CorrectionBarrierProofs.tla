------------------------ MODULE CorrectionBarrierProofs ------------------------
(***************************************************************************)
(* The correction barrier brings both games onto one timeline, for any     *)
(* number of corrections, any link, any deadline and any place at which    *)
(* the games come apart; it implements the abstract correction round; and  *)
(* a correct peer's packet ends a session only as an offer two corrections *)
(* old.  BarrierInv keeps the two sessions and their packets in step,      *)
(* CleanInv, in the second half, the inputs and checksums they speak of.   *)
(***************************************************************************)
EXTENDS CorrectionBarrier, BoundLemmas

(***************************************************************************)
(* The inductive invariant.                                                *)
(***************************************************************************)
Transcript == {NoTranscript} \cup (Nat \X Nat \X Nat \X BOOLEAN)

Ending == {"", "boundary", "protocol", "envelope", "transcript", "timeout"}

Session ==
    [frame : Nat, committed : Nat, known : Nat, acked : Nat,
     verified : Nat, published : Nat, peerSums : Nat,
     phase : Phase, peerPhase : Phase, id : Nat, applied : Nat,
     request : Nat, first : Nat, resume : Nat, snapshot : Nat, staged : BOOLEAN,
     transcript : Transcript, expected : Transcript, lastTranscript : Transcript,
     replayed : {<<>>} \cup (Nat \X BOOLEAN), waited : Nat, lost : Ending]

\* No offer is on the table.
Open == {"none", "request"}

HostPhase == {"none", "request", "offer", "commit", "release"}
JoinPhase == {"none", "request", "receiving", "ready", "applied", "releaseAck"}

\* The phases of host and joiner that go together in one correction.
Together(a, b) ==
    \/ a \in Open /\ b \in Open
    \/ a = "offer" /\ b \in {"receiving", "ready"}
    \/ a = "commit" /\ b \in {"ready", "applied"}
    \/ a = "release" /\ b \in {"applied", "releaseAck"}
    \/ a = "none" /\ b = "releaseAck"

\* How far a phase is in the correction of its number.
Stage(phase) ==
    IF phase \in {"offer", "receiving"} THEN 1
    ELSE IF phase \in {"ready", "commit"} THEN 2
    ELSE IF phase \in {"applied", "release"} THEN 3
    ELSE IF phase = "releaseAck" THEN 4 ELSE 5

\* One session by itself: the resume frame lies behind the first one, and all
\* inputs of the replay are here.
Own(s) ==
    /\ s \in Session
    /\ s.frame <= MaxFrame
    /\ s.phase \in Open => s.applied = s.id
    /\ s.phase \notin Open =>
          /\ s.applied + 1 = s.id
          /\ s.first < s.resume /\ s.resume <= s.known /\ s.resume <= MaxFrame

HostOwn(s) ==
    /\ Own(s)
    /\ s.phase \in HostPhase
    /\ s.phase \notin Open => s.resume <= s.acked
    /\ s.phase \in {"commit", "release"} =>
          /\ s.peerSums = 0
          /\ s.transcript = <<s.id, s.first, s.resume, TRUE>>
          /\ s.replayed = <<s.id, TRUE>>

JoinOwn(s) ==
    /\ Own(s)
    /\ s.phase \in JoinPhase
    /\ s.phase = "receiving" => s.peerPhase = "offer"
    /\ s.phase \in {"applied", "releaseAck"} => s.frame = s.resume

\* The host's and the joiner's session.  An offer that the joiner has not
\* taken up is the only thing the host may have ahead; d is the divergence.
Pair(h, j, d) ==
    /\ \/ h.id = j.id /\ Together(h.phase, j.phase)
       \/ /\ h.id = j.id + 1 /\ h.phase = "offer" /\ h.peerPhase = "none"
          /\ j.phase \in Open
    /\ h.phase = "offer" /\ h.peerPhase = "ready" => j.phase = "ready"
    /\ j.phase \notin Open =>
          /\ h.first = j.first /\ h.resume = j.resume /\ h.snapshot = j.snapshot
          /\ j.resume <= h.known
    /\ j.phase = "ready" /\ j.peerPhase = "commit" =>
          h.phase = "commit" /\ j.expected = h.transcript
    /\ ~(h.phase = "commit" /\ j.phase = "ready") => j.replayed = h.replayed
    /\ h.phase \in {"commit", "release"} \/ j.phase = "releaseAck" => h.resume <= d
    /\ j.phase = "releaseAck" => h.peerSums = 0
    /\ h.acked <= j.known

Good(h, j, d) == HostOwn(h) /\ JoinOwn(j) /\ Pair(h, j, d) /\ d \in Nat

\* A control packet of a sender whose session is now s: it names an earlier
\* stage of this correction, of the same frames, or an earlier correction.
Said(s, m) ==
    /\ m.id < s.id \/ (m.id = s.id /\ Stage(m.phase) <= Stage(s.phase))
    /\ m.known <= s.known
    /\ m.id = s.id /\ m.phase \notin Open /\ s.phase \notin Open =>
          /\ m.first = s.first /\ m.resume = s.resume
          /\ m.phase = "offer" => m.sum = <<s.snapshot>>
          /\ m.phase \in {"commit", "release"} /\ s.phase \in {"commit", "release"} =>
                m.sum = s.transcript

Control(m) ==
    /\ m.phase \in Phase
    /\ m.id \in Nat /\ m.ackId \in Nat /\ m.first \in Nat /\ m.resume \in Nat
    /\ m.inputs \in Nat /\ m.known \in Nat /\ m.verified \in Nat /\ m.sums \in Nat
    /\ m.phase = "offer" => m.sum[1] \in Nat
    /\ m.phase = "commit" => m.sum \in Transcript

Carried(m) ==
    /\ m.to \in Peer
    /\ m.kind \in {"control", "chunk"}
    /\ m.kind = "control" => Control(m) /\ Said(peer[Other(m.to)], m)

BarrierInv ==
    /\ DOMAIN peer = Peer
    /\ Good(peer[Host], peer[Join], divergence)
    /\ setting \in Settings
    /\ \A m \in net : Carried(m)

-----------------------------------------------------------------------------
(***************************************************************************)
(* What a step leaves of a session, and what it does to the round.         *)
(***************************************************************************)
\* A session moves on: nothing it said becomes untrue.
Later(s, t) ==
    /\ s.committed <= t.committed /\ s.known <= t.known /\ s.acked <= t.acked
    /\ s.id <= t.id
    /\ s.id = t.id => Stage(s.phase) <= Stage(t.phase)
    /\ s.id = t.id /\ s.phase \notin Open /\ t.phase \notin Open =>
          /\ t.first = s.first /\ t.resume = s.resume /\ t.snapshot = s.snapshot
          /\ s.phase \in {"commit", "release"} =>
                t.phase \in {"commit", "release"} /\ t.transcript = s.transcript

RoundState(s) ==
    IF ~Frozen(s) THEN "playing" ELSE IF HasReplayed(s) THEN "replayed" ELSE "frozen"

RoundNumber(s) == IF HasReplayed(s) THEN s.id ELSE s.applied

SameRound(s, t) == RoundState(t) = RoundState(s) /\ RoundNumber(t) = RoundNumber(s)

\* The part session s takes in the round by becoming t, beside the other
\* peer's session o: none, or one of the three steps.
Turn(s, t, o) ==
    \/ SameRound(s, t)
    \/ /\ RoundState(s) = "playing" /\ RoundState(t) = "frozen"
       /\ RoundNumber(t) = RoundNumber(s)
    \/ /\ RoundState(s) = "frozen" /\ RoundState(o) # "playing"
       /\ RoundState(t) = "replayed" /\ RoundNumber(t) = RoundNumber(s) + 1
    \/ /\ RoundState(s) = "replayed" /\ RoundNumber(o) = RoundNumber(s)
       /\ RoundState(t) = "playing" /\ RoundNumber(t) = RoundNumber(s)

\* Nothing of the barrier changes.
Still(s, t) ==
    /\ t.phase = s.phase /\ t.peerPhase = s.peerPhase /\ t.id = s.id
    /\ t.applied = s.applied /\ t.first = s.first /\ t.resume = s.resume
    /\ t.snapshot = s.snapshot /\ t.transcript = s.transcript
    /\ t.expected = s.expected /\ t.replayed = s.replayed
    /\ t.frame = s.frame /\ t.peerSums = s.peerSums
    /\ s.committed <= t.committed /\ s.known <= t.known /\ s.acked <= t.acked

\* A game that plays stops for a mismatch.
Asked(s, t) ==
    /\ s.phase = "none" /\ t.phase = "request"
    /\ t.id = s.id /\ t.applied = s.applied /\ t.replayed = s.replayed
    /\ t.frame = s.frame /\ t.committed = s.committed
    /\ t.known = s.known /\ t.acked = s.acked

\* The host pins the frames of a correction and offers its state.
Offered(s, t) ==
    /\ s.phase \in Open /\ t.phase = "offer" /\ t.peerPhase = "none"
    /\ t.id = s.id + 1 /\ t.applied = s.applied /\ t.replayed = s.replayed
    /\ t.frame = s.frame /\ t.committed = s.committed
    /\ t.known = s.known /\ t.acked = s.acked
    /\ t.first < t.resume /\ t.resume <= t.known /\ t.resume <= t.acked
    /\ t.resume <= t.frame

LEMMA BarrierConstants ==
    /\ MaxPrediction \in Nat \ {0} /\ InputDelay \in Nat \ {0}
    /\ PacketInputs \in Nat \ {0} /\ MaxFrame \in Nat /\ MaxCorrections \in Nat
    /\ Host \in Peer /\ Join \in Peer /\ Host # Join
    /\ Other(Host) = Join /\ Other(Join) = Host /\ Peer = {Host, Join}
    /\ \A p \in Peer : p = Host \/ p = Join
    /\ \A p \in Peer : Other(p) \in Peer
  BY BarrierAssumption DEF Peer, Other

LEMMA SettingType ==
    ASSUME setting \in Settings
    PROVE  setting.timeout \in Nat /\ setting.faithful \subseteq BOOLEAN
  BY BarrierAssumption

LEMMA StageType == \A x : Stage(x) \in 1 .. 5
  BY DEF Stage

LEMMA SessionNumbers ==
    ASSUME NEW s \in Session
    PROVE  /\ s.frame \in Nat /\ s.committed \in Nat /\ s.known \in Nat
           /\ s.acked \in Nat /\ s.peerSums \in Nat /\ s.id \in Nat
           /\ s.applied \in Nat /\ s.first \in Nat /\ s.resume \in Nat
           /\ s.snapshot \in Nat /\ s.phase \in Phase /\ s.peerPhase \in Phase
           /\ s.transcript \in Transcript
  BY DEF Session

\* Only a session with an offer is at a stage below the fifth.
LEMMA StageOpen ==
    ASSUME NEW x \in Phase
    PROVE  x \notin Open => Stage(x) < Stage("none") /\ Stage(x) < Stage("request")
  BY DEF Phase, Stage, Open

LEMMA LaterTransitive ==
    ASSUME NEW s \in Session, NEW t \in Session, NEW u \in Session,
           Later(s, t), Later(t, u)
    PROVE  Later(s, u)
<1>1. /\ s.committed <= u.committed /\ s.known <= u.known /\ s.acked <= u.acked
      /\ s.id <= u.id
  BY SessionNumbers DEF Later
<1>2. s.id = u.id => s.id = t.id /\ t.id = u.id
  BY SessionNumbers DEF Later
<1>3. s.id = u.id => Stage(s.phase) <= Stage(u.phase)
  BY <1>2, StageType DEF Later
<1>4. ASSUME s.id = u.id, s.phase \notin Open, u.phase \notin Open
      PROVE  /\ u.first = s.first /\ u.resume = s.resume /\ u.snapshot = s.snapshot
             /\ s.phase \in {"commit", "release"} =>
                   u.phase \in {"commit", "release"} /\ u.transcript = s.transcript
  <2>1. t.phase \notin Open
    <3>1. Stage(t.phase) <= Stage(u.phase)
      BY <1>2, <1>4 DEF Later
    <3>2. u.phase \in Phase
      BY SessionNumbers
    <3>3. Stage(u.phase) < 5
      BY <1>4, <3>2, StageOpen DEF Stage
    <3>4. \A x \in Open : Stage(x) = 5
      BY DEF Stage, Open
    <3> QED BY <3>1, <3>3, <3>4, StageType
  <2> QED BY <1>2, <1>4, <2>1 DEF Later
<1> QED BY <1>1, <1>3, <1>4 DEF Later

LEMMA TurnAround ==
    ASSUME NEW s, NEW t, NEW u, NEW v, NEW o,
           SameRound(s, t), Turn(t, u, o), SameRound(u, v)
    PROVE  Turn(s, v, o)
  BY DEF Turn, SameRound

LEMMA SameRoundReflexive == \A s : SameRound(s, s)
  BY DEF SameRound


-----------------------------------------------------------------------------
(***************************************************************************)
(* The moves of the host.                                                  *)
(***************************************************************************)
LEMMA GoodTypes ==
    ASSUME NEW h, NEW j, NEW d, Good(h, j, d)
    PROVE  /\ h \in Session /\ j \in Session /\ d \in Nat
           /\ h.phase \in HostPhase /\ j.phase \in JoinPhase
  BY DEF Good, HostOwn, JoinOwn, Own

LEMMA StillLater ==
    ASSUME NEW s \in Session, NEW t \in Session, Still(s, t), NEW o
    PROVE  Later(s, t) /\ Turn(s, t, o)
<1>1. Stage(s.phase) <= Stage(s.phase)
  BY StageType
<1>2. s.id <= s.id
  BY DEF Session
<1>3. Later(s, t)
  BY <1>1, <1>2 DEF Still, Later
<1>4. Turn(s, t, o)
  BY DEF Still, Turn, SameRound, RoundState, RoundNumber, Frozen, HasReplayed
<1> QED BY <1>3, <1>4

LEMMA StillKeepsHost ==
    ASSUME NEW h, NEW j, NEW d, Good(h, j, d), NEW t \in Session, Still(h, t),
           t.acked <= j.known
    PROVE  Good(t, j, d)
<1>1. HostOwn(t)
  <2>1. HostOwn(h) /\ h \in Session /\ h.known <= t.known /\ h.acked <= t.acked
    BY GoodTypes DEF Good, Still
  <2>2. /\ t.resume <= h.known => t.resume <= t.known
        /\ t.resume <= h.acked => t.resume <= t.acked
    BY <2>1, SessionNumbers
  <2> QED BY <2>1, <2>2 DEF HostOwn, Own, Still
<1>2. Pair(t, j, d)
  <2>1. j.resume <= h.known => j.resume <= t.known
    BY GoodTypes, SessionNumbers DEF Still
  <2> QED BY <2>1 DEF Good, Pair, Still
<1> QED BY <1>1, <1>2 DEF Good

\* Checksums reach the host only from a joiner that plays.
LEMMA SumsKeepHost ==
    ASSUME NEW h, NEW j, NEW d, Good(h, j, d), h.phase = "none", j.phase \in Open,
           NEW n \in Nat
    PROVE  LET t == [h EXCEPT !.peerSums = n]
           IN  Good(t, j, d) /\ Later(h, t) /\ Turn(h, t, j)
<1> DEFINE t == [h EXCEPT !.peerSums = n]
<1>1. h \in Session
  BY GoodTypes
<1>2. /\ t \in Session /\ t.phase = h.phase /\ t.peerPhase = h.peerPhase
      /\ t.id = h.id /\ t.applied = h.applied /\ t.first = h.first
      /\ t.resume = h.resume /\ t.snapshot = h.snapshot
      /\ t.transcript = h.transcript /\ t.replayed = h.replayed
      /\ t.frame = h.frame /\ t.committed = h.committed /\ t.known = h.known
      /\ t.acked = h.acked
  BY <1>1 DEF Session
<1> HIDE DEF t
<1>3. HostOwn(t)
  BY <1>2 DEF Good, HostOwn, Own
<1>4. Pair(t, j, d)
  BY <1>2 DEF Good, Pair, Open
<1>5. Later(h, t)
  BY <1>1, <1>2, StageType, SessionNumbers DEF Later
<1>6. Turn(h, t, j)
  BY <1>2 DEF Turn, SameRound, RoundState, RoundNumber, Frozen, HasReplayed
<1> QED BY <1>3, <1>4, <1>5, <1>6 DEF Good, t

LEMMA AskedKeepsHost ==
    ASSUME NEW h, NEW j, NEW d, Good(h, j, d), j.phase \in Open,
           NEW t \in Session, Asked(h, t)
    PROVE  Good(t, j, d) /\ Later(h, t) /\ Turn(h, t, j)
<1>1. h \in Session
  BY GoodTypes
<1>2. HostOwn(t)
  BY DEF Good, HostOwn, Own, Asked, Open, HostPhase
<1>3. Pair(t, j, d)
  BY DEF Good, Pair, Asked, Open, Together
<1>4. Later(h, t)
  BY <1>1, StageType, SessionNumbers DEF Later, Asked, Open, Stage
<1>5. Turn(h, t, j)
  BY DEF Good, HostOwn, Own, Asked, Turn, SameRound, RoundState, RoundNumber, Frozen, HasReplayed, Open
<1> QED BY <1>2, <1>3, <1>4, <1>5 DEF Good

LEMMA OfferedKeepsHost ==
    ASSUME NEW h, NEW j, NEW d, Good(h, j, d), j.phase \in Open,
           NEW t \in Session, Offered(h, t)
    PROVE  Good(t, j, d) /\ Later(h, t) /\ Turn(h, t, j)
<1>1. h \in Session /\ h.frame <= MaxFrame /\ h.applied = h.id
  BY DEF Good, HostOwn, Own, Offered
<1>2. HostOwn(t)
  <2>1. t.applied + 1 = t.id /\ t.resume <= MaxFrame /\ t.frame <= MaxFrame
    BY <1>1, BarrierConstants, SessionNumbers DEF Offered
  <2> QED BY <2>1 DEF Good, HostOwn, Own, Offered, Open, HostPhase
<1>3. Pair(t, j, d)
  <2>1. h.id = j.id /\ j.replayed = h.replayed /\ h.acked <= j.known
    BY DEF Good, Pair, Offered, Open
  <2> QED BY <2>1 DEF Pair, Offered, Open
<1>4. Later(h, t)
  BY <1>1, SessionNumbers DEF Later, Offered
<1>5. Turn(h, t, j)
  BY <1>1 DEF Offered, Turn, SameRound, RoundState, RoundNumber, Frozen, HasReplayed, Open
<1> QED BY <1>2, <1>3, <1>4, <1>5 DEF Good

\* The host learns how far the joiner is with the offer.
LEMMA SeenKeepsHost ==
    ASSUME NEW h, NEW j, NEW d, Good(h, j, d), h.phase = "offer", h.id = j.id,
           NEW seen \in {"receiving", "ready"}, seen = "ready" => j.phase = "ready"
    PROVE  LET t == [Progress(h) EXCEPT !.peerPhase = seen]
           IN  t \in Session /\ Good(t, j, d) /\ Later(h, t) /\ Turn(h, t, j)
<1> DEFINE t == [Progress(h) EXCEPT !.peerPhase = seen]
<1>1. h \in Session
  BY GoodTypes
<1>2. /\ t \in Session /\ t.phase = h.phase /\ t.peerPhase = seen
      /\ t.id = h.id /\ t.applied = h.applied /\ t.first = h.first
      /\ t.resume = h.resume /\ t.snapshot = h.snapshot
      /\ t.transcript = h.transcript /\ t.replayed = h.replayed
      /\ t.frame = h.frame /\ t.committed = h.committed /\ t.known = h.known
      /\ t.acked = h.acked /\ t.peerSums = h.peerSums
  BY <1>1 DEF Progress, Session, Phase
<1> HIDE DEF t
<1>3. HostOwn(t)
  BY <1>2 DEF Good, HostOwn, Own
<1>4. Pair(t, j, d)
  <2>1. Together(h.phase, j.phase)
    BY <1>1, SessionNumbers DEF Good, Pair
  <2> QED BY <1>2, <2>1 DEF Good, Pair
<1>5. Later(h, t)
  BY <1>1, <1>2, StageType, SessionNumbers DEF Later
<1>6. Turn(h, t, j)
  BY <1>2 DEF Turn, SameRound, RoundState, RoundNumber, Frozen, HasReplayed
<1> QED BY <1>2, <1>3, <1>4, <1>5, <1>6 DEF Good, t

\* The host replays and pins the new timeline; where it comes apart again, if
\* at all, lies behind the resume frame.
LEMMA CommitKeepsHost ==
    ASSUME NEW h, NEW j, NEW d, Good(h, j, d), MayCommit(h),
           NEW c \in Nat, h.resume <= c
    PROVE  LET t == [Progress(Replay(h, TRUE)) EXCEPT !.phase = "commit"]
           IN  t \in Session /\ Good(t, j, c) /\ Later(h, t) /\ Turn(h, t, j)
<1> DEFINE t == [Progress(Replay(h, TRUE)) EXCEPT !.phase = "commit"]
           committed == Max({h.committed, h.resume + InputDelay})
<1>1. h \in Session /\ h.phase = "offer" /\ h.peerPhase = "ready"
  BY GoodTypes DEF MayCommit
<1>2. committed \in Nat /\ h.committed <= committed
  <2>1. h.committed \in Nat /\ h.resume + InputDelay \in Nat
    BY <1>1, BarrierConstants, SMTT(30) DEF Session
  <2> QED BY <2>1, MaxOfTwo
<1>3. t = [h EXCEPT !.frame = h.resume, !.committed = committed,
                    !.verified = h.first, !.published = h.first, !.peerSums = 0,
                    !.transcript = <<h.id, h.first, h.resume, TRUE>>,
                    !.replayed = <<h.id, TRUE>>, !.waited = 0, !.phase = "commit"]
  BY <1>1 DEF Progress, Replay, Session
<1> HIDE DEF committed
<1>4. /\ t \in Session /\ t.phase = "commit" /\ t.peerPhase = h.peerPhase
      /\ t.id = h.id /\ t.applied = h.applied /\ t.first = h.first
      /\ t.resume = h.resume /\ t.snapshot = h.snapshot
      /\ t.transcript = <<h.id, h.first, h.resume, TRUE>>
      /\ t.replayed = <<h.id, TRUE>>
      /\ t.frame = h.resume /\ t.committed = committed /\ t.known = h.known
      /\ t.acked = h.acked /\ t.peerSums = 0
  <2>1. <<h.id, h.first, h.resume, TRUE>> \in Transcript /\ <<h.id, TRUE>> \in Nat \X BOOLEAN
    BY <1>1 DEF Session, Transcript
  <2> HIDE DEF t
  <2> QED BY <1>1, <1>2, <1>3, <2>1 DEF Session, Phase
<1> HIDE DEF t
<1>5. HostOwn(t)
  BY <1>1, <1>4 DEF Good, HostOwn, Own, Open, HostPhase
<1>6. j.phase = "ready" /\ h.id = j.id /\ h.first = j.first /\ h.resume = j.resume
      /\ h.snapshot = j.snapshot /\ h.acked <= j.known /\ j.resume <= h.known
  BY <1>1 DEF Good, Pair, Open
<1>7. j.peerPhase # "commit"
  BY <1>1, <1>6 DEF Good, Pair
<1>8. Pair(t, j, c)
  BY <1>4, <1>6, <1>7 DEF Pair, Together
<1>9. Later(h, t)
  BY <1>1, <1>2, <1>4, SessionNumbers DEF Later, Stage
<1>10. h.applied + 1 = h.id /\ h.id \in Nat /\ h.applied \in Nat
  BY <1>1 DEF Good, HostOwn, Own, Session, Open
<1>11. Turn(h, t, j)
  BY <1>1, <1>4, <1>6, <1>10 DEF Turn, SameRound, RoundState, RoundNumber, Frozen, HasReplayed
<1> QED BY <1>4, <1>5, <1>8, <1>9, <1>11 DEF Good, t

\* The host releases a joiner that has applied the replay.
LEMMA ReleaseKeepsHost ==
    ASSUME NEW h, NEW j, NEW d, Good(h, j, d), h.phase = "commit",
           j.phase = "applied"
    PROVE  LET t == [Progress(h) EXCEPT !.phase = "release", !.peerPhase = "applied"]
           IN  t \in Session /\ Good(t, j, d) /\ Later(h, t) /\ Turn(h, t, j)
<1> DEFINE t == [Progress(h) EXCEPT !.phase = "release", !.peerPhase = "applied"]
<1>1. h \in Session
  BY GoodTypes
<1>2. /\ t \in Session /\ t.phase = "release" /\ t.peerPhase = "applied"
      /\ t.id = h.id /\ t.applied = h.applied /\ t.first = h.first
      /\ t.resume = h.resume /\ t.snapshot = h.snapshot
      /\ t.transcript = h.transcript /\ t.replayed = h.replayed
      /\ t.frame = h.frame /\ t.committed = h.committed /\ t.known = h.known
      /\ t.acked = h.acked /\ t.peerSums = h.peerSums
  BY <1>1 DEF Progress, Session, Phase
<1> HIDE DEF t
<1>3. HostOwn(t)
  BY <1>2 DEF Good, HostOwn, Own, Open, HostPhase
<1>4. Pair(t, j, d)
  <2>1. h.id = j.id
    BY DEF Good, Pair
  <2> QED BY <1>2, <2>1 DEF Good, Pair, Together
<1>5. Later(h, t)
  BY <1>1, <1>2, SessionNumbers DEF Later, Stage
<1>6. Turn(h, t, j)
  BY <1>2 DEF Turn, SameRound, RoundState, RoundNumber, Frozen, HasReplayed
<1> QED BY <1>2, <1>3, <1>4, <1>5, <1>6 DEF Good, t

\* The host plays on once the joiner has seen its release.
LEMMA FinishKeepsHost ==
    ASSUME NEW h, NEW j, NEW d, Good(h, j, d), h.phase = "release",
           j.phase = "releaseAck"
    PROVE  LET t == Finish(h)
           IN  t \in Session /\ Good(t, j, d) /\ Later(h, t) /\ Turn(h, t, j)
<1> DEFINE t == Finish(h)
<1>1. h \in Session
  BY GoodTypes
<1>2. /\ t \in Session /\ t.phase = "none" /\ t.peerPhase = "none"
      /\ t.id = h.id /\ t.applied = h.id /\ t.first = h.first
      /\ t.resume = h.resume /\ t.snapshot = h.snapshot
      /\ t.transcript = h.transcript /\ t.replayed = h.replayed
      /\ t.frame = h.frame /\ t.committed = h.committed /\ t.known = h.known
      /\ t.acked = h.acked /\ t.peerSums = h.peerSums
  BY <1>1 DEF Finish, Session, Phase
<1> HIDE DEF t
<1>3. HostOwn(t)
  BY <1>2 DEF Good, HostOwn, Own, Open, HostPhase
<1>4. h.id = j.id
  BY DEF Good, Pair
<1>5. Pair(t, j, d)
  BY <1>2, <1>4 DEF Good, Pair, Together
<1>6. Later(h, t)
  BY <1>1, <1>2, SessionNumbers DEF Later, Stage, Open
<1>7. Turn(h, t, j)
  BY <1>2, <1>4 DEF Turn, SameRound, RoundState, RoundNumber, Frozen, HasReplayed
<1> QED BY <1>2, <1>3, <1>5, <1>6, <1>7 DEF Good, t

\* A game that plays goes on by a frame.
PlaysOn(s, t) ==
    /\ s.phase = "none" /\ s.frame < MaxFrame /\ t.frame = s.frame + 1
    /\ t.phase = s.phase /\ t.peerPhase = s.peerPhase /\ t.id = s.id
    /\ t.applied = s.applied /\ t.first = s.first /\ t.resume = s.resume
    /\ t.snapshot = s.snapshot /\ t.transcript = s.transcript
    /\ t.expected = s.expected /\ t.replayed = s.replayed
    /\ t.peerSums = s.peerSums
    /\ s.committed <= t.committed /\ t.known = s.known /\ t.acked = s.acked

LEMMA PlaysOnKeeps ==
    ASSUME NEW h, NEW j, NEW d, Good(h, j, d), NEW t \in Session
    PROVE  /\ PlaysOn(h, t) => Good(t, j, d) /\ Later(h, t) /\ Turn(h, t, j)
           /\ PlaysOn(j, t) => Good(h, t, d) /\ Later(j, t) /\ Turn(j, t, h)
<1>1. h \in Session /\ j \in Session
  BY GoodTypes
<1>2. ASSUME PlaysOn(h, t) PROVE Good(t, j, d) /\ Later(h, t) /\ Turn(h, t, j)
  <2>1. HostOwn(t)
    <3>1. t.frame <= MaxFrame
      BY <1>1, <1>2, BarrierConstants, SessionNumbers DEF PlaysOn
    <3> QED BY <1>2, <3>1 DEF Good, HostOwn, Own, PlaysOn, Open, HostPhase, JoinPhase
  <2>2. Pair(t, j, d)
    BY <1>2 DEF Good, Pair, PlaysOn
  <2>3. Later(h, t)
    BY <1>1, <1>2, StageType, SessionNumbers DEF Later, PlaysOn, Open
  <2>4. Turn(h, t, j)
    BY <1>2 DEF Turn, PlaysOn, SameRound, RoundState, RoundNumber, Frozen, HasReplayed
  <2> QED BY <2>1, <2>2, <2>3, <2>4 DEF Good
<1>3. ASSUME PlaysOn(j, t) PROVE Good(h, t, d) /\ Later(j, t) /\ Turn(j, t, h)
  <2>1. JoinOwn(t)
    <3>1. t.frame <= MaxFrame
      BY <1>1, <1>3, BarrierConstants, SessionNumbers DEF PlaysOn
    <3> QED BY <1>3, <3>1 DEF Good, JoinOwn, Own, PlaysOn, Open, HostPhase, JoinPhase
  <2>2. Pair(h, t, d)
    BY <1>3 DEF Good, Pair, PlaysOn
  <2>3. Later(j, t)
    BY <1>1, <1>3, StageType, SessionNumbers DEF Later, PlaysOn, Open
  <2>4. Turn(j, t, h)
    BY <1>3 DEF Turn, PlaysOn, SameRound, RoundState, RoundNumber, Frozen, HasReplayed
  <2> QED BY <2>1, <2>2, <2>3, <2>4 DEF Good
<1> QED BY <1>2, <1>3

-----------------------------------------------------------------------------
(***************************************************************************)
(* The moves of the joiner.                                                *)
(***************************************************************************)
LEMMA StillKeepsJoin ==
    ASSUME NEW h, NEW j, NEW d, Good(h, j, d), NEW t \in Session, Still(j, t)
    PROVE  Good(h, t, d)
<1>1. JoinOwn(t)
  <2>1. JoinOwn(j) /\ j \in Session /\ j.known <= t.known
    BY GoodTypes DEF Good, Still
  <2>2. t.resume <= j.known => t.resume <= t.known
    BY <2>1, SessionNumbers
  <2> QED BY <2>1, <2>2 DEF JoinOwn, Own, Still
<1>2. h.acked <= t.known
  <2>1. h.acked <= j.known
    BY DEF Good, Pair
  <2>2. j.known <= t.known
    BY DEF Still
  <2> QED BY <2>1, <2>2, GoodTypes, SessionNumbers
<1>3. Pair(h, t, d)
  BY <1>2 DEF Good, Pair, Still
<1> QED BY <1>1, <1>3 DEF Good

LEMMA SumsKeepJoin ==
    ASSUME NEW h, NEW j, NEW d, Good(h, j, d), NEW n \in Nat
    PROVE  LET t == [j EXCEPT !.peerSums = n]
           IN  t \in Session /\ Good(h, t, d) /\ Later(j, t) /\ Turn(j, t, h)
<1> DEFINE t == [j EXCEPT !.peerSums = n]
<1>1. j \in Session
  BY GoodTypes
<1>2. /\ t \in Session /\ t.phase = j.phase /\ t.peerPhase = j.peerPhase
      /\ t.id = j.id /\ t.applied = j.applied /\ t.first = j.first
      /\ t.resume = j.resume /\ t.snapshot = j.snapshot
      /\ t.transcript = j.transcript /\ t.replayed = j.replayed
      /\ t.expected = j.expected
      /\ t.frame = j.frame /\ t.committed = j.committed /\ t.known = j.known
      /\ t.acked = j.acked
  BY <1>1 DEF Session
<1> HIDE DEF t
<1>3. JoinOwn(t)
  BY <1>2 DEF Good, JoinOwn, Own
<1>4. Pair(h, t, d)
  BY <1>2 DEF Good, Pair
<1>5. Later(j, t)
  BY <1>1, <1>2, StageType, SessionNumbers DEF Later
<1>6. Turn(j, t, h)
  BY <1>2 DEF Turn, SameRound, RoundState, RoundNumber, Frozen, HasReplayed
<1> QED BY <1>2, <1>3, <1>4, <1>5, <1>6 DEF Good, t

LEMMA AskedKeepsJoin ==
    ASSUME NEW h, NEW j, NEW d, Good(h, j, d), NEW t \in Session, Asked(j, t)
    PROVE  Good(h, t, d) /\ Later(j, t) /\ Turn(j, t, h)
<1>1. j \in Session
  BY GoodTypes
<1>2. JoinOwn(t)
  BY DEF Good, JoinOwn, Own, Asked, Open, JoinPhase
<1>3. Pair(h, t, d)
  BY DEF Good, Pair, Asked, Open, Together
<1>4. Later(j, t)
  BY <1>1, StageType, SessionNumbers DEF Later, Asked, Open, Stage
<1>5. Turn(j, t, h)
  BY DEF Good, JoinOwn, Own, Asked, Turn, SameRound, RoundState, RoundNumber, Frozen, HasReplayed, Open
<1> QED BY <1>2, <1>3, <1>4, <1>5 DEF Good

\* The joiner takes up the offer on the table.
LEMMA TakeKeepsJoin ==
    ASSUME NEW h, NEW j, NEW d, Good(h, j, d), j.phase \in Open,
           h.phase = "offer", h.id = j.id + 1, NEW t \in Session,
           t.phase = "receiving", t.peerPhase = "offer", t.id = h.id,
           t.first = h.first, t.resume = h.resume, t.snapshot = h.snapshot,
           t.applied = j.applied, t.replayed = j.replayed, t.frame = j.frame,
           t.committed = j.committed, t.known = j.known, t.acked = j.acked
    PROVE  Good(h, t, d) /\ Later(j, t) /\ Turn(j, t, h)
<1>1. j \in Session /\ h \in Session /\ j.applied = j.id /\ j.frame <= MaxFrame
  BY DEF Good, HostOwn, JoinOwn, Own
<1>2. JoinOwn(t)
  <2>1. h.resume <= j.known
    <3>1. h.acked <= j.known
      BY DEF Good, Pair
    <3> QED BY <1>1, <3>1, SessionNumbers DEF Good, HostOwn, Open
  <2> QED BY <1>1, <2>1 DEF Good, HostOwn, JoinOwn, Own, Open, JoinPhase
<1>3. h.peerPhase = "none" /\ h.resume <= h.known
  BY <1>1, SessionNumbers DEF Good, Pair, HostOwn, Own, Open
<1>4. Pair(h, t, d)
  BY <1>3 DEF Good, Pair, Together, Open
<1>5. Later(j, t)
  BY <1>1, SessionNumbers DEF Later
<1>6. Turn(j, t, h)
  BY <1>1 DEF Turn, SameRound, RoundState, RoundNumber, Frozen, HasReplayed, Open
<1> QED BY <1>2, <1>4, <1>5, <1>6 DEF Good

LEMMA ReadyKeepsJoin ==
    ASSUME NEW h, NEW j, NEW d, Good(h, j, d), j.phase = "receiving"
    PROVE  LET t == [Progress(j) EXCEPT !.phase = "ready"]
           IN  t \in Session /\ Good(h, t, d) /\ Later(j, t) /\ Turn(j, t, h)
<1> DEFINE t == [Progress(j) EXCEPT !.phase = "ready"]
<1>1. j \in Session
  BY GoodTypes
<1>2. /\ t \in Session /\ t.phase = "ready" /\ t.peerPhase = j.peerPhase
      /\ t.id = j.id /\ t.applied = j.applied /\ t.first = j.first
      /\ t.resume = j.resume /\ t.snapshot = j.snapshot
      /\ t.transcript = j.transcript /\ t.replayed = j.replayed
      /\ t.expected = j.expected
      /\ t.frame = j.frame /\ t.committed = j.committed /\ t.known = j.known
      /\ t.acked = j.acked
  BY <1>1 DEF Progress, Session, Phase
<1> HIDE DEF t
<1>3. JoinOwn(t)
  BY <1>2 DEF Good, JoinOwn, Own, Open, JoinPhase
<1>4. /\ h.id = j.id /\ h.phase = "offer" /\ j.peerPhase = "offer"
      /\ h.first = j.first /\ h.resume = j.resume /\ h.snapshot = j.snapshot
      /\ j.replayed = h.replayed /\ j.resume <= h.known
  BY DEF Good, JoinOwn, Pair, Open, Together
<1>5. Pair(h, t, d)
  BY <1>2, <1>4 DEF Good, Pair, Together
<1>6. Later(j, t)
  BY <1>1, <1>2, SessionNumbers DEF Later, Stage
<1>7. Turn(j, t, h)
  BY <1>2 DEF Turn, SameRound, RoundState, RoundNumber, Frozen, HasReplayed
<1> QED BY <1>2, <1>3, <1>5, <1>6, <1>7 DEF Good, t

\* The joiner learns the transcript of the host's replay.
LEMMA SeenKeepsJoin ==
    ASSUME NEW h, NEW j, NEW d, Good(h, j, d), j.phase = "ready",
           h.phase = "commit", NEW e, e = h.transcript
    PROVE  LET t == [Progress(j) EXCEPT !.expected = e, !.peerPhase = "commit"]
           IN  t \in Session /\ Good(h, t, d) /\ Later(j, t) /\ Turn(j, t, h)
<1> DEFINE t == [Progress(j) EXCEPT !.expected = e, !.peerPhase = "commit"]
<1>1. j \in Session /\ e \in Transcript
  BY GoodTypes DEF Session
<1>2. /\ t \in Session /\ t.phase = j.phase /\ t.peerPhase = "commit"
      /\ t.id = j.id /\ t.applied = j.applied /\ t.first = j.first
      /\ t.resume = j.resume /\ t.snapshot = j.snapshot
      /\ t.transcript = j.transcript /\ t.replayed = j.replayed
      /\ t.expected = h.transcript
      /\ t.frame = j.frame /\ t.committed = j.committed /\ t.known = j.known
      /\ t.acked = j.acked
  BY <1>1 DEF Progress, Session, Phase
<1> HIDE DEF t
<1>3. JoinOwn(t)
  BY <1>2 DEF Good, JoinOwn, Own, Open, JoinPhase
<1>4. Pair(h, t, d)
  BY <1>2 DEF Good, Pair
<1>5. Later(j, t)
  BY <1>1, <1>2, StageType, SessionNumbers DEF Later
<1>6. Turn(j, t, h)
  BY <1>2 DEF Turn, SameRound, RoundState, RoundNumber, Frozen, HasReplayed
<1> QED BY <1>2, <1>3, <1>4, <1>5, <1>6 DEF Good, t

\* The joiner replays; it goes on only if its transcript is the host's, and
\* then the two replays are one.
LEMMA ApplyKeepsJoin ==
    ASSUME NEW h, NEW j, NEW d, Good(h, j, d), MayApply(j), NEW exact \in BOOLEAN
    PROVE  LET t == Applied(Replay(j, exact))
           IN  t \in Session /\ Good(h, t, d) /\ Later(j, t) /\ Turn(j, t, h)
<1> DEFINE r == Replay(j, exact)
           t == Applied(r)
           committed == Max({j.committed, j.resume + InputDelay})
<1>1. j \in Session /\ j.phase = "ready" /\ j.peerPhase = "commit"
  BY GoodTypes DEF MayApply
<1>2. committed \in Nat /\ j.committed <= committed
  <2>1. j.committed \in Nat /\ j.resume + InputDelay \in Nat
    BY <1>1, BarrierConstants, SMTT(30) DEF Session
  <2> QED BY <2>1, MaxOfTwo
<1>3. r = [j EXCEPT !.frame = j.resume, !.committed = committed,
                    !.verified = j.first, !.published = j.first, !.peerSums = 0,
                    !.transcript = <<j.id, j.first, j.resume, exact>>,
                    !.replayed = <<j.id, exact>>]
  BY <1>1 DEF Replay, Session
<1> HIDE DEF committed
<1>4. /\ r \in Session /\ r.phase = "ready" /\ r.peerPhase = "commit"
      /\ r.id = j.id /\ r.applied = j.applied /\ r.first = j.first
      /\ r.resume = j.resume /\ r.snapshot = j.snapshot /\ r.expected = j.expected
      /\ r.frame = j.resume /\ r.committed = committed /\ r.known = j.known
      /\ r.acked = j.acked
  <2>1. <<j.id, j.first, j.resume, exact>> \in Transcript /\ <<j.id, exact>> \in Nat \X BOOLEAN
    BY <1>1 DEF Session, Transcript
  <2> HIDE DEF r
  <2> QED BY <1>1, <1>2, <1>3, <2>1 DEF Session
<1>9. r.transcript = <<j.id, j.first, j.resume, exact>>
  BY <1>1, <1>3 DEF Session
<1>10. r.replayed = <<j.id, exact>>
  BY <1>1, <1>3 DEF Session
<1> HIDE DEF r
<1>5. /\ h.phase = "commit" /\ j.expected = h.transcript /\ h.id = j.id
      /\ h.first = j.first /\ h.resume = j.resume /\ h.snapshot = j.snapshot
      /\ h.transcript = <<h.id, h.first, h.resume, TRUE>>
      /\ h.replayed = <<h.id, TRUE>> /\ h.resume <= d /\ h.acked <= j.known
      /\ j.resume <= h.known
  BY <1>1 DEF Good, HostOwn, Pair, Open
<1>6. /\ j.applied + 1 = j.id /\ j.first < j.resume /\ j.resume <= j.known
      /\ j.resume <= MaxFrame /\ j.id \in Nat /\ j.applied \in Nat
  BY <1>1 DEF Good, JoinOwn, Own, Open, Session
<1>7. CASE r.transcript = r.expected
  <2>1. t = [r EXCEPT !.waited = 0, !.phase = "applied"]
    BY <1>4, <1>7 DEF Applied, Progress, Session
  <2>2. /\ t \in Session /\ t.phase = "applied" /\ t.id = r.id
        /\ t.applied = r.applied /\ t.first = r.first /\ t.resume = r.resume
        /\ t.snapshot = r.snapshot /\ t.transcript = r.transcript
        /\ t.replayed = r.replayed /\ t.frame = r.frame
        /\ t.committed = r.committed /\ t.known = r.known /\ t.acked = r.acked
    <3> HIDE DEF t
    <3>1. "applied" \in Phase /\ 0 \in Nat
      BY DEF Phase
    <3>2. t \in Session
      BY <1>4, <2>1, <3>1 DEF Session
    <3> QED BY <1>4, <2>1, <3>2 DEF Session
  <2> HIDE DEF t
  <2>3. exact = TRUE
    <3>1. <<j.id, j.first, j.resume, exact>> = <<h.id, h.first, h.resume, TRUE>>
      BY <1>4, <1>5, <1>7, <1>9
    <3>2. \A a, b, c, e, v, w, x, y : <<a, b, c, e>> = <<v, w, x, y>> => e = y
      OBVIOUS
    <3> QED BY <3>1, <3>2, Zenon
  <2>4. t.replayed = h.replayed
    <3>1. r.replayed = <<h.id, TRUE>>
      BY <1>5, <1>10, <2>3
    <3> QED BY <3>1, <1>5, <2>2
  <2>5. JoinOwn(t)
    BY <1>4, <1>6, <2>2 DEF JoinOwn, Own, Open, JoinPhase
  <2>6. Pair(h, t, d)
    BY <1>4, <1>5, <2>2, <2>4 DEF Pair, Together, Open
  <2>7. Later(j, t)
    BY <1>1, <1>2, <1>4, <2>2, SessionNumbers DEF Later, Stage
  <2>8. Turn(j, t, h)
    BY <1>1, <1>4, <1>5, <1>6, <2>2 DEF Turn, SameRound, RoundState, RoundNumber, Frozen, HasReplayed
  <2> QED BY <2>2, <2>5, <2>6, <2>7, <2>8 DEF Good, t, r
<1>8. CASE r.transcript # r.expected
  <2>1. t = [r EXCEPT !.lost = "transcript"]
    BY <1>8 DEF Applied, Disconnect
  <2>2. /\ t \in Session /\ t.phase = "ready" /\ t.peerPhase = "commit"
        /\ t.id = r.id /\ t.expected = r.expected
        /\ t.applied = r.applied /\ t.first = r.first /\ t.resume = r.resume
        /\ t.snapshot = r.snapshot /\ t.frame = r.frame
        /\ t.committed = r.committed /\ t.known = r.known /\ t.acked = r.acked
    <3> HIDE DEF t
    <3>1. r \in Session /\ "transcript" \in Ending
      BY <1>4 DEF Ending
    <3>2. t \in Session
      BY <2>1, <3>1 DEF Session
    <3> QED BY <1>4, <2>1, <3>2 DEF Session
  <2> HIDE DEF t
  <2>3. JoinOwn(t)
    BY <1>4, <1>6, <2>2 DEF JoinOwn, Own, Open, JoinPhase
  <2>4. Pair(h, t, d)
    BY <1>4, <1>5, <2>2 DEF Pair, Together, Open
  <2>5. Later(j, t)
    BY <1>1, <1>2, <1>4, <2>2, SessionNumbers DEF Later, Stage
  <2>6. Turn(j, t, h)
    BY <1>1, <1>4, <2>2 DEF Turn, SameRound, RoundState, RoundNumber, Frozen, HasReplayed
  <2> QED BY <2>2, <2>3, <2>4, <2>5, <2>6 DEF Good, t, r
<1> QED BY <1>7, <1>8

\* The joiner has seen the release.
LEMMA AcknowledgeKeepsJoin ==
    ASSUME NEW h, NEW j, NEW d, Good(h, j, d), j.phase = "applied",
           h.phase = "release"
    PROVE  LET t == [Progress(j) EXCEPT !.phase = "releaseAck", !.peerPhase = "release"]
           IN  t \in Session /\ Good(h, t, d) /\ Later(j, t) /\ Turn(j, t, h)
<1> DEFINE t == [Progress(j) EXCEPT !.phase = "releaseAck", !.peerPhase = "release"]
<1>1. j \in Session
  BY GoodTypes
<1>2. /\ t \in Session /\ t.phase = "releaseAck"
      /\ t.id = j.id /\ t.applied = j.applied /\ t.first = j.first
      /\ t.resume = j.resume /\ t.snapshot = j.snapshot
      /\ t.transcript = j.transcript /\ t.replayed = j.replayed
      /\ t.frame = j.frame /\ t.committed = j.committed /\ t.known = j.known
      /\ t.acked = j.acked
  BY <1>1 DEF Progress, Session, Phase
<1> HIDE DEF t
<1>3. JoinOwn(t)
  BY <1>2 DEF Good, JoinOwn, Own, Open, JoinPhase
<1>4. /\ h.id = j.id /\ h.peerSums = 0 /\ h.resume <= d
      /\ h.first = j.first /\ h.resume = j.resume /\ h.snapshot = j.snapshot
      /\ j.replayed = h.replayed /\ j.resume <= h.known
  BY DEF Good, HostOwn, Pair, Open
<1>5. Pair(h, t, d)
  BY <1>2, <1>4 DEF Good, Pair, Together
<1>6. Later(j, t)
  BY <1>1, <1>2, SessionNumbers DEF Later, Stage
<1>7. Turn(j, t, h)
  BY <1>2 DEF Turn, SameRound, RoundState, RoundNumber, Frozen, HasReplayed
<1> QED BY <1>2, <1>3, <1>5, <1>6, <1>7 DEF Good, t

\* The joiner plays on once the host does.
LEMMA FinishKeepsJoin ==
    ASSUME NEW h, NEW j, NEW d, Good(h, j, d), j.phase = "releaseAck",
           h.phase = "none"
    PROVE  LET t == Finish(j)
           IN  /\ t \in Session /\ Good(h, t, d) /\ Later(j, t) /\ Turn(j, t, h)
               /\ t.frame <= d
<1> DEFINE t == Finish(j)
<1>1. j \in Session
  BY GoodTypes
<1>2. /\ t \in Session /\ t.phase = "none" /\ t.peerPhase = "none"
      /\ t.id = j.id /\ t.applied = j.id /\ t.first = j.first
      /\ t.resume = j.resume /\ t.snapshot = j.snapshot
      /\ t.transcript = j.transcript /\ t.replayed = j.replayed
      /\ t.frame = j.frame /\ t.committed = j.committed /\ t.known = j.known
      /\ t.acked = j.acked
  BY <1>1 DEF Finish, Session, Phase
<1> HIDE DEF t
<1>3. JoinOwn(t)
  BY <1>2 DEF Good, JoinOwn, Own, Open, JoinPhase
<1>4. h.id = j.id /\ j.replayed = h.replayed /\ h.acked <= j.known
      /\ h.resume <= d /\ h.resume = j.resume /\ j.frame = j.resume
  BY DEF Good, JoinOwn, Pair, Open
<1>5. Pair(h, t, d)
  BY <1>2, <1>4 DEF Pair, Together, Open
<1>6. Later(j, t)
  BY <1>1, <1>2, SessionNumbers DEF Later, Stage, Open
<1>7. h.applied = h.id
  BY DEF Good, HostOwn, Own, Open, HostPhase
<1>8. Turn(j, t, h)
  BY <1>2, <1>4, <1>7 DEF Turn, SameRound, RoundState, RoundNumber, Frozen, HasReplayed
<1> QED BY <1>2, <1>3, <1>4, <1>5, <1>6, <1>8 DEF Good, t

-----------------------------------------------------------------------------
(***************************************************************************)
(* The operations on a session.                                            *)
(***************************************************************************)
LEMMA HorizonIs ==
    ASSUME NEW s \in Session
    PROVE  /\ Horizon(s) \in Nat
           /\ Horizon(s) <= s.known /\ Horizon(s) <= s.acked /\ Horizon(s) <= s.frame
<1> DEFINE T == {s.known, s.acked, s.frame}
<1>1. T \subseteq Int /\ T # {} /\ 0 \in Int /\ \A x \in T : 0 <= x
  BY SessionNumbers
<1>2. Min(T) \in T /\ \A x \in T : Min(T) <= x
  <2> HIDE DEF T
  <2> QED BY <1>1, MinOfBounded
<1>3. \A x \in T : x \in Nat
  BY SessionNumbers
<1> QED BY <1>2, <1>3 DEF Horizon

LEMMA NoteStill ==
    ASSUME NEW s \in Session, NEW m, Control(m)
    PROVE  LET t == NoteInputs(s, m)
           IN  /\ t \in Session /\ Still(s, t) /\ t.lost = s.lost
               /\ t.acked = s.acked \/ t.acked = m.known
<1>1. PICK k \in Nat : k = Max({s.known, m.inputs}) /\ s.known <= k
  <2>1. s.known \in Int /\ m.inputs \in Int /\ s.known \in Nat /\ m.inputs \in Nat
    BY SessionNumbers DEF Control
  <2> QED BY <2>1, MaxOfTwo
<1>2. PICK a \in Nat : /\ a = Max({s.acked, m.known}) /\ s.acked <= a
                       /\ a = s.acked \/ a = m.known
  <2>1. s.acked \in Int /\ m.known \in Int /\ s.acked \in Nat /\ m.known \in Nat
    BY SessionNumbers DEF Control
  <2> QED BY <2>1, MaxOfTwo
<1> DEFINE t == [s EXCEPT !.known = k, !.acked = a]
<1>3. NoteInputs(s, m) = t
  BY <1>1, <1>2, Zenon DEF NoteInputs
<1>4. /\ t \in Session /\ t.lost = s.lost
      /\ t.phase = s.phase /\ t.peerPhase = s.peerPhase /\ t.id = s.id
      /\ t.applied = s.applied /\ t.first = s.first /\ t.resume = s.resume
      /\ t.snapshot = s.snapshot /\ t.transcript = s.transcript
      /\ t.expected = s.expected /\ t.replayed = s.replayed
      /\ t.frame = s.frame /\ t.peerSums = s.peerSums
      /\ t.committed = s.committed /\ t.known = k /\ t.acked = a
  BY DEF Session
<1> HIDE DEF t
<1>5. Still(s, t)
  BY <1>1, <1>2, <1>4, SessionNumbers DEF Still
<1> QED BY <1>2, <1>3, <1>4, <1>5

LEMMA DisconnectStill ==
    ASSUME NEW s \in Session, NEW why \in Ending
    PROVE  LET t == Disconnect(s, why)
           IN  /\ t \in Session /\ Still(s, t) /\ t.acked = s.acked
               /\ t.committed = s.committed /\ t.known = s.known
<1> DEFINE t == Disconnect(s, why)
<1>1. /\ t \in Session
      /\ t.phase = s.phase /\ t.peerPhase = s.peerPhase /\ t.id = s.id
      /\ t.applied = s.applied /\ t.first = s.first /\ t.resume = s.resume
      /\ t.snapshot = s.snapshot /\ t.transcript = s.transcript
      /\ t.expected = s.expected /\ t.replayed = s.replayed
      /\ t.frame = s.frame /\ t.peerSums = s.peerSums
      /\ t.committed = s.committed /\ t.known = s.known /\ t.acked = s.acked
  BY DEF Disconnect, Session
<1> HIDE DEF t
<1>2. Still(s, t)
  BY <1>1, SessionNumbers DEF Still
<1> QED BY <1>1, <1>2 DEF t

LEMMA ChunkStill ==
    ASSUME NEW s \in Session, NEW m
    PROVE  LET t == JoinOnChunk(s, m)
           IN  t \in Session /\ Still(s, t) /\ t.acked = s.acked
<1> DEFINE t == [Progress(s) EXCEPT !.staged = TRUE]
<1>1. /\ t \in Session
      /\ t.phase = s.phase /\ t.peerPhase = s.peerPhase /\ t.id = s.id
      /\ t.applied = s.applied /\ t.first = s.first /\ t.resume = s.resume
      /\ t.snapshot = s.snapshot /\ t.transcript = s.transcript
      /\ t.expected = s.expected /\ t.replayed = s.replayed
      /\ t.frame = s.frame /\ t.peerSums = s.peerSums
      /\ t.committed = s.committed /\ t.known = s.known /\ t.acked = s.acked
  BY DEF Progress, Session
<1>2. JoinOnChunk(s, m) = t \/ JoinOnChunk(s, m) = s
  BY DEF JoinOnChunk
<1> HIDE DEF t
<1>3. Still(s, t) /\ Still(s, s)
  BY <1>1, SessionNumbers DEF Still
<1> QED BY <1>1, <1>2, <1>3

LEMMA PublishStill ==
    ASSUME NEW s \in Session
    PROVE  LET t == Publish(s)
           IN  /\ t \in Session /\ Still(s, t) /\ t.acked = s.acked
               /\ t.known = s.known /\ t.committed = s.committed
<1>1. PICK k \in Nat : k = IF Frozen(s) THEN s.published
                           ELSE Max({s.published, Horizon(s)})
  <2>1. s.published \in Nat /\ s.published \in Int /\ Horizon(s) \in Nat /\ Horizon(s) \in Int
    BY HorizonIs DEF Session
  <2> QED BY <2>1, MaxOfTwo
<1> DEFINE t == [s EXCEPT !.published = k]
<1>2. Publish(s) = t
  BY <1>1, Zenon DEF Publish
<1>3. /\ t \in Session
      /\ t.phase = s.phase /\ t.peerPhase = s.peerPhase /\ t.id = s.id
      /\ t.applied = s.applied /\ t.first = s.first /\ t.resume = s.resume
      /\ t.snapshot = s.snapshot /\ t.transcript = s.transcript
      /\ t.expected = s.expected /\ t.replayed = s.replayed
      /\ t.frame = s.frame /\ t.peerSums = s.peerSums
      /\ t.committed = s.committed /\ t.known = s.known /\ t.acked = s.acked
  BY DEF Session
<1> HIDE DEF t
<1>4. Still(s, t)
  BY <1>3, SessionNumbers DEF Still
<1> QED BY <1>2, <1>3, <1>4

LEMMA TickedStill ==
    ASSUME NEW s \in Session, setting \in Settings
    PROVE  LET t == Ticked(s)
           IN  t \in Session /\ Still(s, t) /\ t.acked = s.acked
<1>1. PICK k \in Nat : k = IF Frozen(s) /\ s.waited < setting.timeout
                           THEN s.waited + 1 ELSE s.waited
  <2>1. s.waited \in Nat
    BY DEF Session
  <2> QED BY <2>1
<1> DEFINE t == [s EXCEPT !.waited = k]
<1>2. Ticked(s) = t
  BY <1>1, Zenon DEF Ticked
<1>3. /\ t \in Session
      /\ t.phase = s.phase /\ t.peerPhase = s.peerPhase /\ t.id = s.id
      /\ t.applied = s.applied /\ t.first = s.first /\ t.resume = s.resume
      /\ t.snapshot = s.snapshot /\ t.transcript = s.transcript
      /\ t.expected = s.expected /\ t.replayed = s.replayed
      /\ t.frame = s.frame /\ t.peerSums = s.peerSums
      /\ t.committed = s.committed /\ t.known = s.known /\ t.acked = s.acked
  BY DEF Session
<1> HIDE DEF t
<1>4. Still(s, t)
  BY <1>3, SessionNumbers DEF Still
<1> QED BY <1>2, <1>3, <1>4

LEMMA StillTransitive ==
    ASSUME NEW s \in Session, NEW t \in Session, NEW u \in Session,
           Still(s, t), Still(t, u)
    PROVE  Still(s, u)
<1>1. s.committed <= u.committed /\ s.known <= u.known /\ s.acked <= u.acked
  BY SessionNumbers DEF Still
<1> QED BY <1>1 DEF Still

\* What the host's offer comes to: nothing yet, the end of the session, or an
\* offer.
LEMMA PrepareOfferIs ==
    ASSUME NEW s \in Session, s.phase \in Open
    PROVE  LET t == PrepareOffer(s)
           IN  t \in Session /\ (t = s \/ t = Disconnect(s, "boundary") \/ Offered(s, t))
<1>1. CASE PrepareOffer(s) = s
  BY <1>1
<1>2. CASE PrepareOffer(s) = Disconnect(s, "boundary")
  BY <1>2, DisconnectStill DEF Ending
<1>3. CASE PrepareOffer(s) # s /\ PrepareOffer(s) # Disconnect(s, "boundary")
  <2>1. PICK r \in Nat : r = Horizon(s)
    BY HorizonIs
  <2> DEFINE t == [Progress(s) EXCEPT
                     !.phase = "offer", !.peerPhase = "none", !.id = @ + 1,
                     !.resume = r, !.snapshot = s.first, !.staged = TRUE,
                     !.transcript = NoTranscript, !.expected = NoTranscript]
  <2>2. PrepareOffer(s) = t
    BY <1>3, <2>1, Zenon DEF PrepareOffer, ResumeFrame
  <2>3. ~ (s.first >= r)
    BY <1>3, <2>1, Zenon DEF PrepareOffer, ResumeFrame
  <2>4. PICK n \in Nat : n = s.id + 1
    BY SessionNumbers
  <2>5. t = [s EXCEPT !.waited = 0,
                      !.phase = "offer", !.peerPhase = "none", !.id = n,
                      !.resume = r, !.snapshot = s.first, !.staged = TRUE,
                      !.transcript = NoTranscript, !.expected = NoTranscript]
    BY <2>4 DEF Progress, Session
  <2>6. NoTranscript \in Transcript /\ "offer" \in Phase /\ "none" \in Phase
    BY DEF Transcript, Phase
  <2> HIDE DEF t
  <2>7. t \in Session
    BY <2>5, <2>6 DEF Session
  <2>8. /\ t.phase = "offer" /\ t.peerPhase = "none" /\ t.id = n
        /\ t.applied = s.applied /\ t.replayed = s.replayed
        /\ t.frame = s.frame /\ t.committed = s.committed
        /\ t.known = s.known /\ t.acked = s.acked
        /\ t.first = s.first /\ t.resume = r
    BY <2>5 DEF Session
  <2>9. t.first < t.resume /\ t.resume <= t.known /\ t.resume <= t.acked
        /\ t.resume <= t.frame
    BY <2>1, <2>3, <2>8, SessionNumbers, HorizonIs
  <2> QED BY <2>2, <2>4, <2>7, <2>8, <2>9 DEF Offered
<1> QED BY <1>1, <1>2, <1>3

LEMMA BeginAwaitingIs ==
    ASSUME NEW s \in Session, s.phase = "none", NEW f \in Nat
    PROVE  LET t == BeginAwaiting(s, f)
           IN  t \in Session /\ Asked(s, t)
<1> DEFINE t == BeginAwaiting(s, f)
<1>1. t = [s EXCEPT !.waited = 0, !.phase = "request", !.peerPhase = "none",
                    !.request = f, !.first = f, !.resume = f, !.staged = FALSE]
  BY DEF BeginAwaiting, Progress, Session
<1>2. "request" \in Phase /\ "none" \in Phase
  BY DEF Phase
<1> HIDE DEF t
<1>3. t \in Session
  BY <1>1, <1>2 DEF Session
<1>4. Asked(s, t)
  BY <1>1 DEF Session, Asked
<1> QED BY <1>3, <1>4 DEF t

LEMMA BeginHostRequestIs ==
    ASSUME NEW s \in Session, s.phase = "none", NEW f \in Nat
    PROVE  LET t == BeginHostRequest(s, f)
           IN  t \in Session /\ Asked(s, t)
<1> DEFINE r == BeginAwaiting(s, f)
           t == BeginHostRequest(s, f)
<1>1. r \in Session /\ Asked(s, r)
  BY BeginAwaitingIs
<1>2. t = [r EXCEPT !.peerPhase = "request",
                    !.transcript = NoTranscript, !.expected = NoTranscript]
  BY DEF BeginHostRequest
<1>3. NoTranscript \in Transcript /\ "request" \in Phase
  BY DEF Transcript, Phase
<1> HIDE DEF r, t
<1>4. t \in Session
  BY <1>1, <1>2, <1>3 DEF Session
<1>5. Asked(s, t)
  BY <1>1, <1>2 DEF Session, Asked
<1> QED BY <1>4, <1>5 DEF t

\* A mismatch stops the game, and the host may offer its state at once.
LEMMA DesyncIs ==
    ASSUME NEW p \in Peer, NEW s \in Session, s.phase = "none", NEW f \in Nat
    PROVE  LET t == Desync(p, s, f)
           IN  t \in Session /\ (Asked(s, t) \/ (p = Host /\ Offered(s, t)))
<1>1. CASE p # Host
  BY <1>1, BeginAwaitingIs DEF Desync, Frozen
<1>2. CASE p = Host
  <2> DEFINE r == BeginHostRequest(s, f)
             t == PrepareOffer(r)
  <2>1. Desync(p, s, f) = t
    BY <1>2 DEF Desync, Frozen
  <2>2. r \in Session /\ Asked(s, r)
    BY BeginHostRequestIs
  <2> HIDE DEF r
  <2>3. t \in Session /\ (t = r \/ t = Disconnect(r, "boundary") \/ Offered(r, t))
    BY <2>2, PrepareOfferIs DEF Asked, Open
  <2> HIDE DEF t
  <2>4. CASE t = r
    BY <2>1, <2>2, <2>4
  <2>5. CASE t = Disconnect(r, "boundary")
    <3>1. Still(r, t) /\ t.acked = r.acked /\ t.committed = r.committed /\ t.known = r.known
      BY <2>2, <2>5, DisconnectStill DEF Ending
    <3>2. Asked(s, t)
      BY <2>2, <3>1 DEF Asked, Still
    <3> QED BY <2>1, <2>3, <3>2
  <2>6. CASE Offered(r, t)
    <3>1. Offered(s, t)
      BY <2>2, <2>6 DEF Asked, Offered, Open
    <3> QED BY <1>2, <2>1, <2>3, <3>1
  <2> QED BY <2>3, <2>4, <2>5, <2>6
<1> QED BY <1>1, <1>2

\* Only checksums of frames behind the divergence stop a game.
LEMMA CompareIs ==
    ASSUME NEW p \in Peer, NEW s \in Session, s.phase = "none", divergence \in Nat
    PROVE  LET t == CompareChecksums(p, s)
           IN  /\ t \in Session
               /\ \/ Still(s, t) /\ t.acked = s.acked /\ t.lost = s.lost
                  \/ /\ s.peerSums > divergence /\ s.frame > divergence
                     /\ Asked(s, t) \/ (p = Host /\ Offered(s, t))
<1>1. PICK due \in Nat : /\ due = Min({s.peerSums, Horizon(s)})
                         /\ due <= s.peerSums /\ due <= s.frame
  <2>1. /\ s.peerSums \in Nat /\ Horizon(s) \in Nat /\ s.frame \in Nat
        /\ Horizon(s) <= s.frame /\ s.peerSums \in Int /\ Horizon(s) \in Int
    BY HorizonIs, SessionNumbers
  <2> QED BY <2>1, MinOfTwo
<1>2. PICK a \in Nat : a = Max({s.verified, divergence})
  <2>1. s.verified \in Nat /\ s.verified \in Int /\ divergence \in Int
    BY DEF Session
  <2> QED BY <2>1, MaxOfTwo
<1>3. PICK b \in Nat : b = Max({s.verified, due})
  <2>1. s.verified \in Nat /\ s.verified \in Int /\ due \in Int
    BY DEF Session
  <2> QED BY <2>1, MaxOfTwo
<1>4. ASSUME NEW v \in Nat
      PROVE  LET t == [s EXCEPT !.verified = v]
             IN  t \in Session /\ Still(s, t) /\ t.acked = s.acked /\ t.known = s.known
                 /\ t.committed = s.committed /\ t.lost = s.lost
  <2> DEFINE t == [s EXCEPT !.verified = v]
  <2>1. /\ t \in Session
        /\ t.phase = s.phase /\ t.peerPhase = s.peerPhase /\ t.id = s.id
        /\ t.applied = s.applied /\ t.first = s.first /\ t.resume = s.resume
        /\ t.snapshot = s.snapshot /\ t.transcript = s.transcript
        /\ t.expected = s.expected /\ t.replayed = s.replayed
        /\ t.frame = s.frame /\ t.peerSums = s.peerSums /\ t.lost = s.lost
        /\ t.committed = s.committed /\ t.known = s.known /\ t.acked = s.acked
    BY DEF Session
  <2> HIDE DEF t
  <2>2. Still(s, t)
    BY <2>1, SessionNumbers DEF Still
  <2> QED BY <2>1, <2>2 DEF t
<1>5. CASE due > divergence
  <2> DEFINE r == [s EXCEPT !.verified = a]
  <2>1. CompareChecksums(p, s) = Desync(p, r, divergence)
    BY <1>1, <1>2, <1>5, Zenon DEF CompareChecksums
  <2>2. /\ r \in Session /\ Still(s, r) /\ r.acked = s.acked /\ r.known = s.known
        /\ r.committed = s.committed
    BY <1>2, <1>4
  <2> HIDE DEF r
  <2> DEFINE t == Desync(p, r, divergence)
  <2>3. t \in Session /\ (Asked(r, t) \/ (p = Host /\ Offered(r, t)))
    BY <2>2, DesyncIs DEF Still
  <2> HIDE DEF t
  <2>4. Asked(s, t) \/ (p = Host /\ Offered(s, t))
    BY <2>2, <2>3 DEF Asked, Offered, Still
  <2>5. s.peerSums > divergence /\ s.frame > divergence
    BY <1>1, <1>5, SessionNumbers
  <2> QED BY <2>1, <2>3, <2>4, <2>5 DEF t
<1>6. CASE ~ (due > divergence)
  <2>1. CompareChecksums(p, s) = [s EXCEPT !.verified = b]
    BY <1>1, <1>3, <1>6, Zenon DEF CompareChecksums
  <2> QED BY <1>3, <1>4, <2>1
<1> QED BY <1>5, <1>6

-----------------------------------------------------------------------------
(***************************************************************************)
(* The handlers of control packets.                                        *)
(***************************************************************************)
HostMoves(h, t, j, d) == Good(t, j, d) /\ Later(h, t) /\ Turn(h, t, j)

JoinMoves(j, t, h, d) == Good(h, t, d) /\ Later(j, t) /\ Turn(j, t, h)

LEMMA StillMovesHost ==
    ASSUME NEW h, NEW j, NEW d, Good(h, j, d), NEW t \in Session, Still(h, t),
           t.acked <= j.known
    PROVE  HostMoves(h, t, j, d)
  BY StillKeepsHost, StillLater, GoodTypes DEF HostMoves

LEMMA StillMovesJoin ==
    ASSUME NEW h, NEW j, NEW d, Good(h, j, d), NEW t \in Session, Still(j, t)
    PROVE  JoinMoves(j, t, h, d)
  BY StillKeepsJoin, StillLater, GoodTypes DEF JoinMoves

LEMMA SameMoves ==
    ASSUME NEW h, NEW j, NEW d, Good(h, j, d)
    PROVE  HostMoves(h, h, j, d) /\ JoinMoves(j, j, h, d)
<1>1. h \in Session /\ j \in Session /\ h.acked <= j.known
  BY GoodTypes DEF Good, Pair
<1>2. Still(h, h) /\ Still(j, j)
  BY <1>1, SessionNumbers DEF Still
<1> QED BY <1>1, <1>2, StillMovesHost, StillMovesJoin

LEMMA ProtocolMoves ==
    ASSUME NEW h, NEW j, NEW d, Good(h, j, d)
    PROVE  /\ HostMoves(h, Disconnect(h, "protocol"), j, d)
           /\ JoinMoves(j, Disconnect(j, "protocol"), h, d)
<1>1. h \in Session /\ j \in Session /\ h.acked <= j.known
  BY GoodTypes DEF Good, Pair
<1> QED BY <1>1, DisconnectStill, StillMovesHost, StillMovesJoin DEF Ending

LEMMA StageIs ==
    /\ Stage("none") = 5 /\ Stage("request") = 5
    /\ Stage("offer") = 1 /\ Stage("receiving") = 1
    /\ Stage("ready") = 2 /\ Stage("commit") = 2
    /\ Stage("applied") = 3 /\ Stage("release") = 3 /\ Stage("releaseAck") = 4
  BY DEF Stage

\* What the host may conclude from a packet of the correction it is in.
LEMMA HostHears ==
    ASSUME NEW h, NEW j, NEW d, Good(h, j, d), NEW m, Control(m), Said(j, m),
           m.id = h.id
    PROVE  /\ h.id = j.id /\ Together(h.phase, j.phase)
           /\ Stage(m.phase) <= Stage(j.phase)
<1>1. h.id \in Nat /\ j.id \in Nat
  BY GoodTypes, SessionNumbers
<1>2. h.id = j.id
  BY <1>1 DEF Good, Pair, Said
<1> QED BY <1>1, <1>2 DEF Good, Pair, Said

\* And the joiner from one of the host.
LEMMA JoinHears ==
    ASSUME NEW h, NEW j, NEW d, Good(h, j, d), NEW m, Control(m), Said(h, m),
           m.id = j.id, j.phase \notin Open
    PROVE  /\ h.id = j.id /\ Together(h.phase, j.phase)
           /\ Stage(m.phase) <= Stage(h.phase)
<1>1. h.id \in Nat /\ j.id \in Nat
  BY GoodTypes, SessionNumbers
<1>2. h.id = j.id
  BY DEF Good, Pair
<1> QED BY <1>1, <1>2 DEF Good, Pair, Said

LEMMA HostReplies ==
    ASSUME NEW h, NEW j, NEW d, Good(h, j, d), NEW m, Control(m), Said(j, m),
           m.id = h.id
    PROVE  HostMoves(h, HostOnReply(h, m), j, d)
<1> DEFINE t == HostOnReply(h, m)
<1>1. /\ h.id = j.id /\ Together(h.phase, j.phase)
      /\ Stage(m.phase) <= Stage(j.phase)
  BY HostHears
<1>2. CASE t = h \/ t = Disconnect(h, "protocol")
  BY <1>2, SameMoves, ProtocolMoves
<1>3. CASE ~ (t = h \/ t = Disconnect(h, "protocol"))
  <2>1. CASE m.phase \in {"receiving", "ready"}
    <3> DEFINE u == [Progress(h) EXCEPT !.peerPhase = m.phase]
    <3>1. h.phase = "offer" /\ t = u
      BY <1>3, <2>1, Zenon DEF HostOnReply
    <3>2. m.phase = "ready" => j.phase = "ready"
      BY <1>1, <3>1, StageIs DEF Together, Open
    <3>3. HostMoves(h, u, j, d)
      BY <1>1, <2>1, <3>1, <3>2, SeenKeepsHost DEF HostMoves
    <3> QED BY <3>1, <3>3, Zenon
  <2>2. CASE m.phase = "applied"
    <3> DEFINE u == [Progress(h) EXCEPT !.phase = "release", !.peerPhase = "applied"]
    <3>1. h.phase = "commit" /\ t = u
      BY <1>3, <2>2 DEF HostOnReply
    <3>2. j.phase = "applied"
      BY <1>1, <2>2, <3>1, StageIs DEF Together, Open
    <3>3. HostMoves(h, u, j, d)
      BY <3>1, <3>2, ReleaseKeepsHost DEF HostMoves
    <3> QED BY <3>1, <3>3, Zenon
  <2>3. CASE m.phase = "releaseAck"
    <3>1. h.phase = "release" /\ t = Finish(h)
      BY <1>3, <2>3 DEF HostOnReply
    <3>2. j.phase = "releaseAck"
      BY <1>1, <2>3, <3>1, StageIs DEF Together, Open
    <3> QED BY <3>1, <3>2, FinishKeepsHost DEF HostMoves
  <2>4. m.phase \in {"receiving", "ready", "applied", "releaseAck"}
    BY <1>3, Zenon DEF HostOnReply
  <2> QED BY <2>1, <2>2, <2>3, <2>4
<1> QED BY <1>2, <1>3

LEMMA HostControls ==
    ASSUME NEW h, NEW j, NEW d, Good(h, j, d), NEW m, Control(m), Said(j, m)
    PROVE  LET t == HandleControl(Host, h, m)
           IN  HostMoves(h, t, j, d) /\ (m.phase = "none" => t = h)
<1> DEFINE t == HandleControl(Host, h, m)
<1>1. CASE m.phase = "none"
  <2>1. t = h
    BY <1>1, BarrierConstants DEF HandleControl
  <2> QED BY <2>1, SameMoves
<1>2. CASE m.phase = "request"
  <2>1. t = HostOnRequest(h, m)
    BY <1>2, BarrierConstants DEF HandleControl
  <2>2. CASE t = h
    BY <1>2, <2>2, SameMoves
  <2>3. CASE t # h
    <3>1. m.id = h.id /\ ~Frozen(h) /\ t = BeginHostRequest(h, m.first)
      BY <2>1, <2>3 DEF HostOnRequest
    <3>2. t \in Session /\ Asked(h, t)
      BY <3>1, BeginHostRequestIs, GoodTypes DEF Frozen, Control
    <3>3. j.phase \in Open
      <4>1. Together(h.phase, j.phase) /\ Stage(m.phase) <= Stage(j.phase)
        BY <3>1, HostHears
      <4> QED BY <1>2, <3>1, <4>1, StageIs DEF Together, Open, Frozen
    <3> QED BY <1>2, <3>2, <3>3, AskedKeepsHost DEF HostMoves
  <2> QED BY <2>2, <2>3
<1>3. CASE m.phase \notin {"none", "request"}
  <2>1. \/ t = h \/ t = Disconnect(h, "protocol")
        \/ TupleMatches(h, m) /\ t = HostOnReply(h, m)
    BY <1>3, BarrierConstants DEF HandleControl
  <2>2. TupleMatches(h, m) => m.id = h.id
    BY DEF TupleMatches
  <2> QED BY <1>3, <2>1, <2>2, SameMoves, ProtocolMoves, HostReplies
<1> QED BY <1>1, <1>2, <1>3

LEMMA JoinReplies ==
    ASSUME NEW h, NEW j, NEW d, Good(h, j, d), NEW m, Control(m), Said(h, m),
           m.id = j.id
    PROVE  JoinMoves(j, JoinOnReply(j, m), h, d)
<1> DEFINE t == JoinOnReply(j, m)
<1>1. CASE t = j \/ t = Disconnect(j, "protocol")
  BY <1>1, SameMoves, ProtocolMoves
<1>2. CASE ~ (t = j \/ t = Disconnect(j, "protocol"))
  <2>1. CASE m.phase = "commit"
    <3> DEFINE u == [Progress(j) EXCEPT !.expected = m.sum, !.peerPhase = "commit"]
    <3>1. j.phase = "ready" /\ t = u
      BY <1>2, <2>1 DEF JoinOnReply
    <3>2. /\ h.id = j.id /\ Together(h.phase, j.phase)
          /\ Stage(m.phase) <= Stage(h.phase)
      BY <3>1, JoinHears DEF Open
    <3>3. h.phase = "commit"
      BY <2>1, <3>1, <3>2, StageIs DEF Together, Open
    <3>4. m.sum = h.transcript
      BY <2>1, <3>2, <3>3 DEF Said, Open
    <3>5. JoinMoves(j, u, h, d)
      BY <3>1, <3>3, <3>4, SeenKeepsJoin DEF JoinMoves
    <3> QED BY <3>1, <3>5, Zenon
  <2>2. CASE m.phase # "commit"
    <3> DEFINE u == [Progress(j) EXCEPT !.phase = "releaseAck", !.peerPhase = "release"]
    <3>1. m.phase = "release" /\ j.phase = "applied" /\ t = u
      BY <1>2, <2>2, Zenon DEF JoinOnReply
    <3>2. Together(h.phase, j.phase) /\ Stage(m.phase) <= Stage(h.phase)
      BY <3>1, JoinHears DEF Open
    <3>3. h.phase = "release"
      BY <3>1, <3>2, StageIs DEF Together, Open
    <3>4. JoinMoves(j, u, h, d)
      BY <3>1, <3>3, AcknowledgeKeepsJoin DEF JoinMoves
    <3> QED BY <3>1, <3>4, Zenon
  <2> QED BY <2>1, <2>2
<1> QED BY <1>1, <1>2

\* An offer that the joiner takes up is the one on the host's table.
LEMMA JoinTakes ==
    ASSUME NEW h, NEW j, NEW d, Good(h, j, d), NEW m, Control(m), Said(h, m),
           m.phase = "offer"
    PROVE  JoinMoves(j, JoinOnOffer(j, m), h, d)
<1> DEFINE t == JoinOnOffer(j, m)
<1>1. CASE t = j \/ t = Disconnect(j, "protocol")
  BY <1>1, SameMoves, ProtocolMoves
<1>2. CASE ~ (t = j \/ t = Disconnect(j, "protocol"))
  <2> DEFINE u == [Progress(j) EXCEPT
                     !.phase = "receiving", !.peerPhase = "offer", !.id = m.id,
                     !.request = m.first, !.first = m.first, !.resume = m.resume,
                     !.snapshot = m.sum[1], !.staged = FALSE,
                     !.transcript = NoTranscript, !.expected = NoTranscript]
  <2>1. t = u /\ j.phase \in Open /\ m.id = j.id + 1
    BY <1>2, Zenon DEF JoinOnOffer, Open
  <2>2. j \in Session /\ h.id \in Nat /\ j.id \in Nat
    BY GoodTypes, SessionNumbers
  <2>3. h.id = m.id /\ h.phase = "offer"
    BY <2>1, <2>2 DEF Good, Pair, Said
  <2>4. m.first = h.first /\ m.resume = h.resume /\ m.sum = <<h.snapshot>>
    BY <2>3 DEF Said, Open
  <2>5. m.sum[1] = h.snapshot
    BY <2>4
  <2>6. /\ m.id \in Nat /\ m.first \in Nat /\ m.resume \in Nat /\ m.sum[1] \in Nat
    BY DEF Control
  <2>7. u = [j EXCEPT !.waited = 0,
                     !.phase = "receiving", !.peerPhase = "offer", !.id = m.id,
                     !.request = m.first, !.first = m.first, !.resume = m.resume,
                     !.snapshot = m.sum[1], !.staged = FALSE,
                     !.transcript = NoTranscript, !.expected = NoTranscript]
    BY <2>2 DEF Progress, Session
  <2>8. NoTranscript \in Transcript /\ "receiving" \in Phase /\ "offer" \in Phase
    BY DEF Transcript, Phase
  <2> HIDE DEF u
  <2>9. u \in Session
    BY <2>2, <2>6, <2>7, <2>8, ZenonT(60) DEF Session
  <2>10. /\ u.phase = "receiving" /\ u.peerPhase = "offer" /\ u.id = m.id
         /\ u.first = m.first /\ u.resume = m.resume /\ u.snapshot = m.sum[1]
         /\ u.applied = j.applied /\ u.replayed = j.replayed /\ u.frame = j.frame
         /\ u.committed = j.committed /\ u.known = j.known /\ u.acked = j.acked
    BY <2>2, <2>7 DEF Session
  <2> QED BY <2>1, <2>3, <2>4, <2>5, <2>9, <2>10, TakeKeepsJoin DEF JoinMoves
<1> QED BY <1>1, <1>2

LEMMA JoinControls ==
    ASSUME NEW h, NEW j, NEW d, Good(h, j, d), NEW m, Control(m), Said(h, m)
    PROVE  LET t == HandleControl(Join, j, m)
           IN  /\ JoinMoves(j, t, h, d)
               /\ m.phase = "none" => t = j \/ (t.phase = "none" /\ t.frame <= d)
<1> DEFINE t == HandleControl(Join, j, m)
<1>1. CASE m.phase = "none"
  <2>1. t = JoinOnNone(j, m)
    BY <1>1, BarrierConstants DEF HandleControl
  <2>2. CASE t = j
    BY <2>2, SameMoves
  <2>3. CASE t # j
    <3>1. j.phase = "releaseAck" /\ m.id = j.id /\ t = Finish(j)
      BY <2>1, <2>3 DEF JoinOnNone
    <3>2. Together(h.phase, j.phase) /\ Stage(m.phase) <= Stage(h.phase)
      BY <3>1, JoinHears DEF Open
    <3>3. h.phase = "none"
      BY <1>1, <3>1, <3>2, StageIs DEF Together, Open
    <3>4. j \in Session
      BY GoodTypes
    <3>5. t.phase = "none"
      BY <3>1, <3>4 DEF Finish, Session
    <3> QED BY <3>1, <3>3, <3>5, FinishKeepsJoin DEF JoinMoves
  <2> QED BY <2>2, <2>3
<1>2. CASE m.phase = "request"
  <2>1. t = j
    BY <1>2, BarrierConstants DEF HandleControl
  <2> QED BY <2>1, SameMoves
<1>3. CASE m.phase = "offer"
  <2>1. t = JoinOnOffer(j, m)
    BY <1>3, BarrierConstants DEF HandleControl
  <2> QED BY <1>3, <2>1, JoinTakes
<1>4. CASE m.phase \notin {"none", "request", "offer"}
  <2>1. \/ t = j \/ t = Disconnect(j, "protocol")
        \/ TupleMatches(j, m) /\ t = JoinOnReply(j, m)
    BY <1>4, BarrierConstants DEF HandleControl
  <2>2. TupleMatches(j, m) => m.id = j.id
    BY DEF TupleMatches
  <2> QED BY <1>4, <2>1, <2>2, SameMoves, ProtocolMoves, JoinReplies
<1> QED BY <1>1, <1>2, <1>3, <1>4

-----------------------------------------------------------------------------
(***************************************************************************)
(* Packets, and the handler of packets.                                    *)
(***************************************************************************)
LEMMA PacketIs ==
    ASSUME NEW p \in Peer, NEW s \in Session
    PROVE  LET m == Packet(p, s)
           IN  m.kind = "control" /\ m.to = Other(p) /\ Control(m) /\ Said(s, m)
<1> DEFINE m == Packet(p, s)
<1>1. PICK i \in Nat : i = Min({s.committed, s.acked + PacketInputs})
  <2>1. /\ s.committed \in Nat /\ s.acked + PacketInputs \in Nat
        /\ s.committed \in Int /\ s.acked + PacketInputs \in Int
    BY SessionNumbers, BarrierConstants
  <2> QED BY <2>1, MinOfTwo
<1>2. PICK c \in Nat : c = IF Frozen(s) THEN 0 ELSE Horizon(s)
  BY HorizonIs
<1>3. /\ m.kind = "control" /\ m.to = Other(p) /\ m.phase = s.phase /\ m.id = s.id
      /\ m.ackId = (IF Frozen(s) THEN s.id ELSE s.applied)
      /\ m.first = (IF Frozen(s) THEN s.first ELSE 0)
      /\ m.resume = (IF Frozen(s) THEN s.resume ELSE 0)
      /\ m.sum = AckChecksum(s) /\ m.inputs = i /\ m.known = s.known
      /\ m.verified = s.verified /\ m.sums = c
  BY <1>1, <1>2 DEF Packet
<1> HIDE DEF m
<1>4. /\ s.phase = "offer" => m.sum = <<s.snapshot>>
      /\ s.phase \in {"commit", "release"} => m.sum = s.transcript
  BY <1>3 DEF AckChecksum
<1>5. s.phase = "offer" => m.sum[1] \in Nat
  BY <1>4, SessionNumbers
<1>6. s.verified \in Nat
  BY DEF Session
<1>7. Control(m)
  BY <1>3, <1>4, <1>5, <1>6, SessionNumbers DEF Control
<1>8. Said(s, m)
  BY <1>3, <1>4, SessionNumbers, StageType DEF Said, Frozen, Open
<1> QED BY <1>3, <1>7, <1>8 DEF m

\* What was said once stays said.
LEMMA SaidLater ==
    ASSUME NEW s \in Session, NEW t \in Session, NEW m, Control(m),
           Said(s, m), Later(s, t),
           \/ s.phase \in HostPhase /\ t.phase \in HostPhase
           \/ s.phase \in JoinPhase /\ t.phase \in JoinPhase
    PROVE  Said(t, m)
<1>1. m.known <= t.known
  BY SessionNumbers DEF Said, Later, Control
<1>2. m.id < t.id \/ (m.id = t.id /\ s.id = t.id /\ Stage(m.phase) <= Stage(s.phase)
                      /\ Stage(s.phase) <= Stage(t.phase))
  BY SessionNumbers DEF Said, Later, Control
<1>3. Stage(m.phase) \in Nat /\ Stage(s.phase) \in Nat /\ Stage(t.phase) \in Nat
  BY StageType
<1>4. m.id < t.id \/ (m.id = t.id /\ Stage(m.phase) <= Stage(t.phase))
  BY <1>2, <1>3
<1>5. ASSUME m.id = t.id, m.phase \notin Open, t.phase \notin Open
      PROVE  /\ m.first = t.first /\ m.resume = t.resume
             /\ m.phase = "offer" => m.sum = <<t.snapshot>>
             /\ m.phase \in {"commit", "release"} /\ t.phase \in {"commit", "release"} =>
                   m.sum = t.transcript
  <2>1. s.id = t.id /\ Stage(m.phase) <= Stage(s.phase) /\ Stage(s.phase) <= Stage(t.phase)
    BY <1>2, <1>5, SessionNumbers
  <2>2. s.phase \notin Open
    <3>1. Stage(t.phase) < 5
      BY <1>5, SessionNumbers, StageOpen, StageIs
    <3> QED BY <1>3, <2>1, <3>1, StageIs DEF Open
  <2>3. t.first = s.first /\ t.resume = s.resume /\ t.snapshot = s.snapshot
    BY <1>5, <2>1, <2>2 DEF Later
  <2>4. ASSUME m.phase \in {"commit", "release"}, t.phase \in {"commit", "release"}
        PROVE  m.sum = t.transcript
    <3>1. Stage(m.phase) >= 2
      BY <2>4, StageIs
    <3>2. s.phase \in HostPhase
      BY <2>4 DEF JoinPhase
    <3>3. s.phase \in {"commit", "release"}
      BY <1>3, <2>1, <2>2, <3>1, <3>2, StageIs DEF HostPhase, Open
    <3>4. m.sum = s.transcript
      BY <1>5, <2>1, <2>2, <2>4, <3>3 DEF Said
    <3>5. t.transcript = s.transcript
      BY <1>5, <2>1, <2>2, <3>3 DEF Later
    <3> QED BY <3>4, <3>5
  <2> QED BY <1>5, <2>1, <2>2, <2>3, <2>4 DEF Said
<1> QED BY <1>1, <1>4, <1>5 DEF Said

LEMMA Chain ==
    ASSUME NEW s \in Session, NEW n \in Session, NEW t \in Session, NEW o,
           Later(s, n), Later(n, t),
           \/ SameRound(s, n) /\ Turn(n, t, o)
           \/ Turn(s, n, o) /\ SameRound(n, t)
    PROVE  Later(s, t) /\ Turn(s, t, o)
  BY LaterTransitive, TurnAround, SameRoundReflexive

LEMMA StillSame ==
    ASSUME NEW s \in Session, NEW t \in Session, Still(s, t)
    PROVE  Later(s, t) /\ SameRound(s, t)
<1>1. SameRound(s, t)
  BY DEF Still, SameRound, RoundState, RoundNumber, Frozen, HasReplayed
<1> QED BY <1>1, StillLater

LEMMA SumsSame ==
    ASSUME NEW s \in Session, NEW n \in Nat
    PROVE  LET t == [s EXCEPT !.peerSums = n]
           IN  /\ t \in Session /\ Later(s, t) /\ SameRound(s, t)
               /\ t.phase = s.phase /\ t.frame = s.frame /\ t.acked = s.acked
               /\ t.lost = s.lost
<1> DEFINE t == [s EXCEPT !.peerSums = n]
<1>1. /\ t \in Session /\ t.phase = s.phase /\ t.id = s.id
      /\ t.applied = s.applied /\ t.first = s.first
      /\ t.resume = s.resume /\ t.snapshot = s.snapshot
      /\ t.transcript = s.transcript /\ t.lost = s.lost
      /\ t.frame = s.frame /\ t.committed = s.committed /\ t.known = s.known
      /\ t.acked = s.acked
  BY DEF Session
<1> HIDE DEF t
<1>2. Later(s, t)
  BY <1>1, SessionNumbers, StageType DEF Later
<1>3. SameRound(s, t)
  BY <1>1 DEF SameRound, RoundState, RoundNumber, Frozen, HasReplayed
<1> QED BY <1>1, <1>2, <1>3 DEF t

LEMMA SumsAreNat ==
    ASSUME NEW s \in Session, NEW m, Control(m)
    PROVE  \E n \in Nat : n = Max({s.peerSums, m.sums})
<1>1. /\ s.peerSums \in Nat /\ m.sums \in Nat
      /\ s.peerSums \in Int /\ m.sums \in Int
  BY SessionNumbers DEF Control
<1> QED BY <1>1, MaxOfTwo

\* The host compares the checksums of a joiner that plays.
LEMMA HostCompares ==
    ASSUME NEW h, NEW j, Good(h, j, divergence), h.phase = "none",
           h.peerSums > divergence => j.phase \in Open
    PROVE  HostMoves(h, CompareChecksums(Host, h), j, divergence)
<1> DEFINE t == CompareChecksums(Host, h)
<1>1. /\ t \in Session
      /\ \/ Still(h, t) /\ t.acked = h.acked
         \/ h.peerSums > divergence /\ (Asked(h, t) \/ Offered(h, t))
  BY CompareIs, GoodTypes, BarrierConstants
<1> HIDE DEF t
<1>2. CASE Still(h, t) /\ t.acked = h.acked
  <2>1. h.acked <= j.known
    BY DEF Good, Pair
  <2> QED BY <1>1, <1>2, <2>1, StillMovesHost DEF t
<1>3. CASE h.peerSums > divergence /\ (Asked(h, t) \/ Offered(h, t))
  BY <1>1, <1>3, AskedKeepsHost, OfferedKeepsHost DEF HostMoves, t
<1> QED BY <1>1, <1>2, <1>3

LEMMA JoinCompares ==
    ASSUME NEW h, NEW j, Good(h, j, divergence), j.phase = "none"
    PROVE  LET t == CompareChecksums(Join, j)
           IN  /\ JoinMoves(j, t, h, divergence)
               /\ j.frame <= divergence => SameRound(j, t)
<1> DEFINE t == CompareChecksums(Join, j)
<1>1. /\ t \in Session
      /\ Still(j, t) \/ (j.frame > divergence /\ Asked(j, t))
  BY CompareIs, GoodTypes, BarrierConstants
<1> HIDE DEF t
<1>2. CASE Still(j, t)
  BY <1>1, <1>2, StillMovesJoin, StillSame, GoodTypes DEF t
<1>3. CASE j.frame > divergence /\ Asked(j, t)
  <2>1. ~ (j.frame <= divergence)
    BY <1>3, GoodTypes, SessionNumbers
  <2> QED BY <1>1, <1>3, <2>1, AskedKeepsJoin DEF JoinMoves, t
<1> QED BY <1>1, <1>2, <1>3

LEMMA HostHandles ==
    ASSUME NEW h, NEW j, Good(h, j, divergence), NEW m,
           m.kind # "chunk" => Control(m) /\ Said(j, m)
    PROVE  HostMoves(h, HandlePacket(Host, h, m), j, divergence)
<1>1. h \in Session /\ j \in Session /\ h.acked <= j.known
  BY GoodTypes DEF Good, Pair
<1>2. CASE m.kind = "chunk"
  <2>1. HandlePacket(Host, h, m) = JoinOnChunk(h, m)
    BY <1>2 DEF HandlePacket
  <2> QED BY <1>1, <2>1, ChunkStill, StillMovesHost
<1>3. CASE m.kind # "chunk" /\ ~ValidEnvelope(h, m)
  <2>1. HandlePacket(Host, h, m) = Disconnect(h, "envelope")
    BY <1>3 DEF HandlePacket
  <2> QED BY <1>1, <2>1, DisconnectStill, StillMovesHost DEF Ending
<1>4. CASE m.kind # "chunk" /\ ValidEnvelope(h, m)
  <2> DEFINE n == NoteInputs(h, m)
             c == HandleControl(Host, n, m)
             t == NoteChecksums(Host, c, m)
  <2>1. HandlePacket(Host, h, m) = t
    BY <1>4 DEF HandlePacket
  <2>2. /\ n \in Session /\ Still(h, n) /\ n.acked <= j.known
    BY <1>1, <1>4, NoteStill DEF Said
  <2> HIDE DEF n
  <2>3. Good(n, j, divergence) /\ Later(h, n) /\ SameRound(h, n)
    BY <1>1, <2>2, StillKeepsHost, StillSame
  <2>4. HostMoves(n, c, j, divergence) /\ (m.phase = "none" => c = n)
    BY <1>4, <2>3, HostControls
  <2> HIDE DEF c
  <2>5. c \in Session
    BY <2>4, GoodTypes DEF HostMoves
  <2>6. HostMoves(n, t, j, divergence)
    <3>1. CASE t = c
      BY <2>4, <3>1
    <3>2. CASE t # c
      <4>1. PICK k \in Nat : k = Max({c.peerSums, m.sums})
        BY <1>4, <2>5, SumsAreNat
      <4> DEFINE q == [c EXCEPT !.peerSums = k]
      <4>2. SameStream(c, m) /\ m.phase = "none" /\ t = CompareChecksums(Host, q)
        BY <3>2, <4>1, Zenon DEF NoteChecksums
      <4>3. c = n /\ m.id = n.id /\ n.phase = "none"
        BY <2>4, <4>2 DEF SameStream, Frozen
      <4>4. j.phase \in Open
        <5>1. Together(n.phase, j.phase) /\ Stage(m.phase) <= Stage(j.phase)
          BY <1>4, <2>3, <4>3, HostHears
        <5> QED BY <4>2, <4>3, <5>1, StageIs DEF Together, Open
      <4>5. q \in Session /\ Later(n, q) /\ SameRound(n, q) /\ q.phase = "none"
        BY <2>2, <4>3, SumsSame
      <4>6. Good(q, j, divergence)
        BY <2>3, <4>3, <4>4, SumsKeepHost
      <4> HIDE DEF q
      <4>7. HostMoves(q, t, j, divergence)
        BY <4>2, <4>4, <4>5, <4>6, HostCompares
      <4>8. t \in Session
        BY <4>7, GoodTypes DEF HostMoves
      <4> QED BY <2>2, <4>5, <4>7, <4>8, Chain DEF HostMoves
    <3> QED BY <3>1, <3>2
  <2>7. t \in Session
    BY <2>6, GoodTypes DEF HostMoves
  <2> QED BY <1>1, <2>1, <2>2, <2>3, <2>6, <2>7, Chain DEF HostMoves
<1> QED BY <1>2, <1>3, <1>4

LEMMA JoinHandles ==
    ASSUME NEW h, NEW j, Good(h, j, divergence), NEW m,
           m.kind # "chunk" => Control(m) /\ Said(h, m)
    PROVE  JoinMoves(j, HandlePacket(Join, j, m), h, divergence)
<1>1. h \in Session /\ j \in Session
  BY GoodTypes
<1>2. CASE m.kind = "chunk"
  <2>1. HandlePacket(Join, j, m) = JoinOnChunk(j, m)
    BY <1>2 DEF HandlePacket
  <2> QED BY <1>1, <2>1, ChunkStill, StillMovesJoin
<1>3. CASE m.kind # "chunk" /\ ~ValidEnvelope(j, m)
  <2>1. HandlePacket(Join, j, m) = Disconnect(j, "envelope")
    BY <1>3 DEF HandlePacket
  <2> QED BY <1>1, <2>1, DisconnectStill, StillMovesJoin DEF Ending
<1>4. CASE m.kind # "chunk" /\ ValidEnvelope(j, m)
  <2> DEFINE n == NoteInputs(j, m)
             c == HandleControl(Join, n, m)
             t == NoteChecksums(Join, c, m)
  <2>1. HandlePacket(Join, j, m) = t
    BY <1>4 DEF HandlePacket
  <2>2. n \in Session /\ Still(j, n)
    BY <1>1, <1>4, NoteStill
  <2> HIDE DEF n
  <2>3. Good(h, n, divergence) /\ Later(j, n) /\ SameRound(j, n)
    BY <1>1, <2>2, StillKeepsJoin, StillSame
  <2>4. /\ JoinMoves(n, c, h, divergence)
        /\ m.phase = "none" => c = n \/ (c.phase = "none" /\ c.frame <= divergence)
    BY <1>4, <2>3, JoinControls
  <2> HIDE DEF c
  <2>5. c \in Session
    BY <2>4, GoodTypes DEF JoinMoves
  <2>6. JoinMoves(n, t, h, divergence)
    <3>1. CASE t = c
      BY <2>4, <3>1
    <3>2. CASE t # c
      <4>1. PICK k \in Nat : k = Max({c.peerSums, m.sums})
        BY <1>4, <2>5, SumsAreNat
      <4> DEFINE q == [c EXCEPT !.peerSums = k]
      <4>2. SameStream(c, m) /\ m.phase = "none" /\ t = CompareChecksums(Join, q)
        BY <3>2, <4>1, Zenon DEF NoteChecksums
      <4>3. c.phase = "none" /\ (c = n \/ c.frame <= divergence)
        BY <2>4, <4>2 DEF SameStream, Frozen
      <4>4. /\ q \in Session /\ Later(c, q) /\ SameRound(c, q)
            /\ q.phase = "none" /\ q.frame = c.frame
        BY <2>5, <4>3, SumsSame
      <4>5. Good(h, q, divergence)
        BY <2>4, SumsKeepJoin DEF JoinMoves
      <4> HIDE DEF q
      <4>6. JoinMoves(q, t, h, divergence) /\ (q.frame <= divergence => SameRound(q, t))
        BY <4>2, <4>4, <4>5, JoinCompares
      <4>7. t \in Session
        BY <4>6, GoodTypes DEF JoinMoves
      <4>8. Later(c, t) /\ Turn(c, t, h) /\ (c.frame <= divergence => SameRound(c, t))
        BY <2>5, <4>4, <4>6, <4>7, Chain DEF JoinMoves, SameRound
      <4>9. CASE c = n
        BY <4>6, <4>8, <4>9 DEF JoinMoves
      <4>10. CASE c.frame <= divergence
        BY <2>2, <2>4, <2>5, <4>6, <4>7, <4>8, <4>10, Chain DEF JoinMoves
      <4> QED BY <4>3, <4>9, <4>10
    <3> QED BY <3>1, <3>2
  <2>7. t \in Session
    BY <2>6, GoodTypes DEF JoinMoves
  <2> QED BY <1>1, <2>1, <2>2, <2>3, <2>6, <2>7, Chain DEF JoinMoves
<1> QED BY <1>2, <1>3, <1>4

-----------------------------------------------------------------------------
(***************************************************************************)
(* The steps.  Fits says that session s of peer p goes with the other one. *)
(***************************************************************************)
Fits(p, s, d) == IF p = Host THEN Good(s, peer[Join], d) ELSE Good(peer[Host], s, d)

PeerMoves(p, s, t, d) == Fits(p, t, d) /\ Later(s, t) /\ Turn(s, t, peer[Other(p)])

\* A packet that p may have sent with its session at t.
Spoken(p, t, m) ==
    /\ m.to \in Peer
    /\ \/ m.kind = "chunk"
       \/ m.kind = "control" /\ m.to = Other(p) /\ Control(m) /\ Said(t, m)

Step(p, t) ==
    /\ peer' = [peer EXCEPT ![p] = t]
    /\ PeerMoves(p, peer[p], t, divergence')
    /\ setting' = setting
    /\ \A m \in net' : m \in net \/ Spoken(p, t, m)

LEMMA FitsTypes ==
    ASSUME NEW p \in Peer, NEW s, NEW d, Fits(p, s, d)
    PROVE  /\ s \in Session /\ d \in Nat /\ s.frame <= MaxFrame
           /\ p = Host => s.phase \in HostPhase
           /\ p = Join => s.phase \in JoinPhase
  BY BarrierConstants DEF Fits, Good, HostOwn, JoinOwn, Own

LEMMA PeerFits ==
    ASSUME BarrierInv, NEW p \in Peer
    PROVE  Fits(p, peer[p], divergence)
  BY BarrierConstants DEF BarrierInv, Fits

LEMMA StillMoves ==
    ASSUME NEW p \in Peer, NEW s, NEW d, Fits(p, s, d), NEW t \in Session,
           Still(s, t), t.acked = s.acked
    PROVE  PeerMoves(p, s, t, d) /\ SameRound(s, t)
<1>0. s \in Session
  BY FitsTypes
<1>1. CASE p = Host
  <2>1. Good(s, peer[Join], d) /\ s.acked <= peer[Join].known
    BY <1>1 DEF Fits, Good, Pair
  <2> QED BY <1>0, <1>1, <2>1, StillMovesHost, StillSame, BarrierConstants
          DEF PeerMoves, Fits, HostMoves
<1>2. CASE p = Join
  <2>1. Good(peer[Host], s, d)
    BY <1>2, BarrierConstants DEF Fits
  <2> QED BY <1>0, <1>2, <2>1, StillMovesJoin, StillSame, BarrierConstants
          DEF PeerMoves, Fits, JoinMoves
<1> QED BY <1>1, <1>2, BarrierConstants

LEMMA ChainMoves ==
    ASSUME NEW p \in Peer, NEW s \in Session, NEW n \in Session, NEW t, NEW c, NEW d,
           \/ SameRound(s, n) /\ Later(s, n) /\ PeerMoves(p, n, t, d)
           \/ PeerMoves(p, s, n, c) /\ PeerMoves(p, n, t, d) /\ SameRound(n, t)
           \/ PeerMoves(p, s, n, c) /\ PeerMoves(p, n, t, d) /\ SameRound(s, n)
    PROVE  PeerMoves(p, s, t, d)
<1>1. t \in Session
  BY FitsTypes DEF PeerMoves
<1> QED BY <1>1, Chain DEF PeerMoves

LEMMA SentIs ==
    ASSUME NEW links, NEW m, NEW n \in Sent(links, m)
    PROVE  \A x \in n : x \in links \/ x = m
  BY DEF Sent

LEMMA SpokenPacket ==
    ASSUME NEW p \in Peer, NEW s, NEW c, Fits(p, s, c), NEW t, NEW d, Fits(p, t, d),
           Later(s, t)
    PROVE  Spoken(p, t, Packet(p, s))
<1> DEFINE m == Packet(p, s)
<1>1. s \in Session /\ t \in Session
  BY FitsTypes
<1>2. m.kind = "control" /\ m.to = Other(p) /\ Control(m) /\ Said(s, m)
  BY <1>1, PacketIs
<1> HIDE DEF m
<1>3. \/ s.phase \in HostPhase /\ t.phase \in HostPhase
      \/ s.phase \in JoinPhase /\ t.phase \in JoinPhase
  BY FitsTypes, BarrierConstants
<1>4. Said(t, m)
  BY <1>1, <1>2, <1>3, SaidLater
<1>5. Spoken(p, t, m)
  BY <1>2, <1>4, BarrierConstants DEF Spoken
<1> QED BY <1>5 DEF m

LEMMA SpokenChunk ==
    ASSUME NEW p, NEW t, NEW s
    PROVE  Spoken(p, t, Chunk(s))
<1> DEFINE m == Chunk(s)
<1>1. m.to = Join /\ m.kind = "chunk"
  BY DEF Chunk
<1> HIDE DEF m
<1>2. Spoken(p, t, m)
  BY <1>1, BarrierConstants DEF Spoken
<1> QED BY <1>2 DEF m

LEMMA ReceiveSteps ==
    ASSUME BarrierInv, NEW p \in Peer, Receive(p)
    PROVE  \E t : Step(p, t)
<1>1. PICK m \in net :
        /\ m.to = p
        /\ \E s \in {HandlePacket(p, peer[p], m)} :
             /\ peer' = [peer EXCEPT ![p] = s]
             /\ IF s.phase = "request" /\ p = Join /\ ~Frozen(peer[p])
                THEN net' \in Sent(net \ {m}, Packet(p, s))
                ELSE net' = net \ {m}
  BY DEF Receive
<1> DEFINE t == HandlePacket(p, peer[p], m)
<1>2. /\ peer' = [peer EXCEPT ![p] = t]
      /\ net' \in Sent(net \ {m}, Packet(p, t)) \/ net' = net \ {m}
      /\ divergence' = divergence /\ setting' = setting
  BY <1>1 DEF Receive
<1>3. m.kind # "chunk" => Control(m) /\ Said(peer[Other(p)], m)
  BY <1>1 DEF BarrierInv, Carried
<1>4. Good(peer[Host], peer[Join], divergence)
  BY DEF BarrierInv
<1>5. PeerMoves(p, peer[p], t, divergence)
  <2>1. CASE p = Host
    BY <1>3, <1>4, <2>1, HostHandles, BarrierConstants DEF PeerMoves, Fits, HostMoves
  <2>2. CASE p = Join
    BY <1>3, <1>4, <2>2, JoinHandles, BarrierConstants DEF PeerMoves, Fits, JoinMoves
  <2> QED BY <2>1, <2>2, BarrierConstants
<1> HIDE DEF t
<1>6. Spoken(p, t, Packet(p, t))
  <2>1. t \in Session
    BY <1>5, FitsTypes DEF PeerMoves
  <2>2. Later(t, t)
    BY <2>1, SessionNumbers, StageType DEF Later
  <2> QED BY <1>5, <2>2, SpokenPacket DEF PeerMoves
<1>7. \A x \in net' : x \in net \/ Spoken(p, t, x)
  <2>1. \A x \in net' : x \in net \/ x = Packet(p, t)
    BY <1>2, SentIs
  <2> QED BY <1>6, <2>1
<1> QED BY <1>2, <1>5, <1>7 DEF Step

-----------------------------------------------------------------------------
\* The session of p before a tick is s; the tick's own moves made it q, and
\* what is in flight by now is old or a packet of q.
Sends(p, q, links) ==
    \A x \in links : x \in net \/ x = Packet(p, q) \/ x = Chunk(q)

LEMMA BecomeSteps ==
    ASSUME BarrierInv, NEW p \in Peer, setting' = setting,
           NEW q, Fits(p, q, divergence), Later(peer[p], q), SameRound(peer[p], q),
           NEW links, Sends(p, q, links),
           NEW t, PeerMoves(p, q, t, divergence'),
           peer' = [peer EXCEPT ![p] = t],
           \A x \in net' : x \in links \/ x = Packet(p, t)
    PROVE  Step(p, t)
<1>1. peer[p] \in Session /\ q \in Session /\ t \in Session
  BY PeerFits, FitsTypes DEF PeerMoves
<1>2. PeerMoves(p, peer[p], t, divergence')
  BY <1>1, ChainMoves
<1>3. Later(t, t)
  BY <1>1, SessionNumbers, StageType DEF Later
<1>4. Spoken(p, t, Packet(p, t)) /\ Spoken(p, t, Packet(p, q)) /\ Spoken(p, t, Chunk(q))
  BY <1>3, SpokenPacket, SpokenChunk DEF PeerMoves
<1>5. \A m \in net' : m \in net \/ Spoken(p, t, m)
  BY <1>4 DEF Sends
<1> QED BY <1>2, <1>5 DEF Step

LEMMA BecomeIs ==
    ASSUME NEW p, NEW t, NEW links, Become(p, t, links)
    PROVE  /\ peer' = [peer EXCEPT ![p] = t] /\ divergence' = divergence
           /\ \A x \in net' : x \in links \/ x = Packet(p, t)
  BY SentIs DEF Become

LEMMA CorrectSteps ==
    ASSUME BarrierInv, NEW p \in Peer, setting' = setting,
           NEW q, Fits(p, q, divergence), Later(peer[p], q), SameRound(peer[p], q),
           NEW links, Sends(p, q, links), Correct(p, q, links)
    PROVE  \E t : Step(p, t)
<1>1. q \in Session
  BY FitsTypes
<1>2. ASSUME NEW t, PeerMoves(p, q, t, divergence), Become(p, t, links)
      PROVE  Step(p, t)
  <2>1. /\ peer' = [peer EXCEPT ![p] = t] /\ divergence' = divergence
        /\ \A x \in net' : x \in links \/ x = Packet(p, t)
    BY <1>2, BecomeIs
  <2>2. PeerMoves(p, q, t, divergence')
    BY <1>2, <2>1
  <2> QED BY <2>1, <2>2, BecomeSteps
<1>3. PeerMoves(p, q, q, divergence)
  <2>1. Still(q, q)
    BY <1>1, SessionNumbers DEF Still
  <2> QED BY <1>1, <2>1, StillMoves
<1>4. CASE p = Host
  <2>1. Good(q, peer[Join], divergence)
    BY <1>4 DEF Fits
  <2>2. CASE MayCommit(q)
    <3> DEFINE t == [Progress(Replay(q, TRUE)) EXCEPT !.phase = "commit"]
    <3>1. Commit(q, links)
      BY <1>4, <2>2 DEF Correct
    <3>2. /\ peer' = [peer EXCEPT ![Host] = t]
          /\ net' \in Sent(links, Packet(Host, t))
          /\ divergence' \in {MaxFrame} \cup
               (IF q.id < MaxCorrections THEN q.resume .. (MaxFrame - 1) ELSE {})
      BY <3>1 DEF Commit
    <3>3. divergence' \in Nat /\ q.resume <= divergence'
      <4>1. q.resume \in Nat /\ q.resume <= MaxFrame /\ MaxFrame \in Nat
        BY <1>1, <2>1, <2>2, SessionNumbers, BarrierConstants
           DEF Good, HostOwn, Own, MayCommit, Open
      <4> QED BY <3>2, <4>1
    <3>4. Good(t, peer[Join], divergence') /\ Later(q, t) /\ Turn(q, t, peer[Join])
      BY <2>1, <2>2, <3>3, CommitKeepsHost
    <3> HIDE DEF t
    <3>5. PeerMoves(p, q, t, divergence')
      BY <1>4, <3>4, BarrierConstants DEF PeerMoves, Fits
    <3>6. \A x \in net' : x \in links \/ x = Packet(p, t)
      BY <1>4, <3>2, SentIs
    <3>7. peer' = [peer EXCEPT ![p] = t]
      BY <1>4, <3>2
    <3> QED BY <3>5, <3>6, <3>7, BecomeSteps
  <2>3. CASE ~MayCommit(q) /\ q.phase = "request"
    <3> DEFINE t == PrepareOffer(q)
    <3>1. Become(p, t, links)
      BY <1>4, <2>3 DEF Correct
    <3>2. t \in Session /\ (t = q \/ t = Disconnect(q, "boundary") \/ Offered(q, t))
      BY <1>1, <2>3, PrepareOfferIs DEF Open
    <3> HIDE DEF t
    <3>3. CASE t = q
      BY <1>2, <1>3, <3>1, <3>3
    <3>4. CASE t = Disconnect(q, "boundary")
      <4>1. Still(q, t) /\ t.acked = q.acked
        BY <1>1, <3>4, DisconnectStill DEF Ending
      <4> QED BY <1>2, <3>1, <3>2, <4>1, StillMoves
    <3>5. CASE Offered(q, t)
      <4>1. peer[Join].phase \in Open
        BY <2>1, <2>3 DEF Good, Pair, Together, Open
      <4>2. PeerMoves(p, q, t, divergence)
        BY <1>4, <2>1, <3>2, <3>5, <4>1, OfferedKeepsHost, BarrierConstants
           DEF PeerMoves, Fits
      <4> QED BY <1>2, <3>1, <4>2
    <3> QED BY <3>2, <3>3, <3>4, <3>5
  <2>4. CASE ~MayCommit(q) /\ q.phase # "request"
    <3>1. Become(p, q, links)
      BY <1>4, <2>4 DEF Correct
    <3> QED BY <1>2, <1>3, <3>1
  <2> QED BY <2>2, <2>3, <2>4
<1>5. CASE p = Join
  <2>1. Good(peer[Host], q, divergence) /\ p # Host
    BY <1>5, BarrierConstants DEF Fits
  <2>2. CASE MayApply(q)
    <3>1. PICK exact \in setting.faithful : Become(p, Applied(Replay(q, exact)), links)
      BY <2>1, <2>2 DEF Correct
    <3>2. exact \in BOOLEAN
      <4>1. setting.faithful \subseteq BOOLEAN
        BY SettingType DEF BarrierInv
      <4> QED BY <3>1, <4>1, Zenon
    <3> DEFINE t == Applied(Replay(q, exact))
    <3>3. Good(peer[Host], t, divergence) /\ Later(q, t) /\ Turn(q, t, peer[Host])
      BY <2>1, <2>2, <3>2, ApplyKeepsJoin
    <3>4. PeerMoves(p, q, t, divergence)
      <4> HIDE DEF t
      <4> QED BY <1>5, <2>1, <3>3, BarrierConstants DEF PeerMoves, Fits
    <3> QED BY <1>2, <3>1, <3>4, Zenon
  <2>3. CASE ~MayApply(q) /\ MayBeReady(q)
    <3> DEFINE t == [Progress(q) EXCEPT !.phase = "ready"]
    <3>1. Become(p, t, links)
      BY <2>1, <2>3, Zenon DEF Correct
    <3>2. Good(peer[Host], t, divergence) /\ Later(q, t) /\ Turn(q, t, peer[Host])
      BY <2>1, <2>3, ReadyKeepsJoin DEF MayBeReady
    <3> HIDE DEF t
    <3>3. PeerMoves(p, q, t, divergence)
      BY <1>5, <2>1, <3>2, BarrierConstants DEF PeerMoves, Fits
    <3> QED BY <1>2, <3>1, <3>3
  <2>4. CASE ~MayApply(q) /\ ~MayBeReady(q)
    <3>1. Become(p, q, links)
      BY <2>1, <2>4 DEF Correct
    <3> QED BY <1>2, <1>3, <3>1
  <2> QED BY <2>2, <2>3, <2>4
<1> QED BY <1>4, <1>5, BarrierConstants

\* A peer that plays compares first.
LEMMA CompareMoves ==
    ASSUME NEW p \in Peer, NEW q, Fits(p, q, divergence), q.phase = "none"
    PROVE  PeerMoves(p, q, CompareChecksums(p, q), divergence)
<1>1. CASE p = Host
  <2>1. Good(q, peer[Join], divergence)
    BY <1>1 DEF Fits
  <2>2. q.peerSums > divergence => peer[Join].phase \in Open
    <3>1. Together(q.phase, peer[Join].phase)
      BY <2>1 DEF Good, Pair
    <3>2. peer[Join].phase \in Open \/ peer[Join].phase = "releaseAck"
      BY <3>1 DEF Together, Open
    <3>3. peer[Join].phase = "releaseAck" => q.peerSums = 0
      BY <2>1 DEF Good, Pair
    <3>4. divergence \in Nat
      BY <2>1, GoodTypes
    <3> QED BY <3>2, <3>3, <3>4
  <2> QED BY <1>1, <2>1, <2>2, HostCompares, BarrierConstants DEF PeerMoves, Fits, HostMoves
<1>2. CASE p = Join
  <2>1. Good(peer[Host], q, divergence)
    BY <1>2, BarrierConstants DEF Fits
  <2> QED BY <1>2, <2>1, JoinCompares, BarrierConstants DEF PeerMoves, Fits, JoinMoves
<1> QED BY <1>1, <1>2, BarrierConstants

\* A session that plays and goes on by a frame.
LEMMA SimulateMoves ==
    ASSUME NEW p \in Peer, NEW s, NEW d, Fits(p, s, d), s.phase = "none", ~Held(s)
    PROVE  LET committed == Max({s.committed, s.frame + InputDelay + 1})
               n == Publish([s EXCEPT !.committed = committed])
               t == [n EXCEPT !.frame = @ + 1]
           IN  PeerMoves(p, s, t, d) /\ Fits(p, n, d) /\ Later(n, t)
<1>1. s \in Session
  BY FitsTypes
<1>2. PICK c \in Nat : c = Max({s.committed, s.frame + InputDelay + 1}) /\ s.committed <= c
  <2>1. /\ s.committed \in Nat /\ s.frame + InputDelay + 1 \in Nat
        /\ s.committed \in Int /\ s.frame + InputDelay + 1 \in Int
    BY <1>1, SessionNumbers, BarrierConstants
  <2> QED BY <2>1, MaxOfTwo
<1> DEFINE r == [s EXCEPT !.committed = c]
           n == Publish(r)
           t == [n EXCEPT !.frame = @ + 1]
<1>3. /\ r \in Session
      /\ r.phase = s.phase /\ r.peerPhase = s.peerPhase /\ r.id = s.id
      /\ r.applied = s.applied /\ r.first = s.first /\ r.resume = s.resume
      /\ r.snapshot = s.snapshot /\ r.transcript = s.transcript
      /\ r.expected = s.expected /\ r.replayed = s.replayed
      /\ r.frame = s.frame /\ r.peerSums = s.peerSums
      /\ r.committed = c /\ r.known = s.known /\ r.acked = s.acked
  BY <1>1 DEF Session
<1> HIDE DEF r
<1>4. Still(s, r)
  BY <1>1, <1>2, <1>3, SessionNumbers DEF Still
<1>5. /\ n \in Session /\ Still(r, n) /\ n.acked = r.acked
      /\ n.known = r.known /\ n.committed = r.committed
  BY <1>3, PublishStill
<1> HIDE DEF n
<1>6. Still(s, n) /\ n.acked = s.acked /\ n.known = s.known
  BY <1>1, <1>3, <1>4, <1>5, StillTransitive
<1>7. PICK f \in Nat : f = n.frame + 1
  BY <1>5, SessionNumbers
<1>8. t = [n EXCEPT !.frame = f]
  BY <1>5, <1>7 DEF Session
<1> HIDE DEF t
<1>9. /\ t \in Session
      /\ t.phase = n.phase /\ t.peerPhase = n.peerPhase /\ t.id = n.id
      /\ t.applied = n.applied /\ t.first = n.first /\ t.resume = n.resume
      /\ t.snapshot = n.snapshot /\ t.transcript = n.transcript
      /\ t.expected = n.expected /\ t.replayed = n.replayed
      /\ t.frame = f /\ t.peerSums = n.peerSums
      /\ t.committed = n.committed /\ t.known = n.known /\ t.acked = n.acked
  BY <1>5, <1>8 DEF Session
<1>10. s.frame < MaxFrame
  BY <1>1, SessionNumbers, BarrierConstants DEF Held
<1>11. n.phase = "none" /\ n.frame = s.frame
  BY <1>6 DEF Still
<1>12. PlaysOn(n, t)
  BY <1>5, <1>7, <1>9, <1>10, <1>11, SessionNumbers DEF PlaysOn
<1>13. PeerMoves(p, s, n, d) /\ SameRound(s, n)
  BY <1>5, <1>6, StillMoves
<1>14. PeerMoves(p, n, t, d)
  <2>1. CASE p = Host
    BY <1>9, <1>12, <1>13, <2>1, PlaysOnKeeps, BarrierConstants DEF PeerMoves, Fits
  <2>2. CASE p = Join
    BY <1>9, <1>12, <1>13, <2>2, PlaysOnKeeps, BarrierConstants DEF PeerMoves, Fits
  <2> QED BY <2>1, <2>2, BarrierConstants
<1>15. PeerMoves(p, s, t, d) /\ Fits(p, n, d) /\ Later(n, t)
  BY <1>1, <1>5, <1>13, <1>14, ChainMoves DEF PeerMoves
<1> QED BY <1>2, <1>15 DEF r, n, t

LEMMA PlaySteps ==
    ASSUME BarrierInv, NEW p \in Peer, setting' = setting,
           NEW q, Fits(p, q, divergence), Later(peer[p], q), SameRound(peer[p], q),
           NEW links, Sends(p, q, links), Play(p, q, links)
    PROVE  \E t : Step(p, t)
<1> DEFINE v == CompareChecksums(p, q)
<1>1. /\ q.phase = "none"
      /\ IF Frozen(v) \/ v.lost # "" \/ Held(v)
         THEN Become(p, v, links) ELSE Simulate(p, v, links)
  BY DEF Play, Frozen
<1>2. PeerMoves(p, q, v, divergence)
  BY <1>1, CompareMoves
<1> HIDE DEF v
<1>3. q \in Session /\ v \in Session /\ Fits(p, v, divergence)
  BY <1>2, FitsTypes DEF PeerMoves
<1>4. CASE Become(p, v, links)
  <2>1. /\ peer' = [peer EXCEPT ![p] = v] /\ divergence' = divergence
        /\ \A x \in net' : x \in links \/ x = Packet(p, v)
    BY <1>4, BecomeIs
  <2>2. PeerMoves(p, q, v, divergence')
    BY <1>2, <2>1
  <2> QED BY <2>1, <2>2, BecomeSteps
<1>5. CASE ~Frozen(v) /\ ~Held(v) /\ Simulate(p, v, links)
  <2>1. v.phase = "none"
    BY <1>5 DEF Frozen
  <2> DEFINE n == Publish([v EXCEPT !.committed =
                             Max({v.committed, v.frame + InputDelay + 1})])
             t == [n EXCEPT !.frame = @ + 1]
  <2>2. PeerMoves(p, v, t, divergence) /\ Fits(p, n, divergence) /\ Later(n, t)
    BY <1>3, <1>5, <2>1, SimulateMoves
  <2>3. /\ peer' = [peer EXCEPT ![p] = t] /\ divergence' = divergence
        /\ net' \in Sent(links, Packet(p, n))
    BY <1>5 DEF Simulate
  <2> HIDE DEF n, t
  <2>4. SameRound(q, v)
    BY <1>1, <1>2, <2>1 DEF PeerMoves, Turn, SameRound, RoundState, Frozen, HasReplayed
  <2>5. PeerMoves(p, q, t, divergence) /\ t \in Session
    BY <1>2, <1>3, <2>2, <2>4, ChainMoves, FitsTypes DEF PeerMoves
  <2>6. peer[p] \in Session
    BY PeerFits, FitsTypes
  <2>7. PeerMoves(p, peer[p], t, divergence)
    BY <1>3, <2>5, <2>6, ChainMoves
  <2>8. Spoken(p, t, Packet(p, n)) /\ Spoken(p, t, Packet(p, q)) /\ Spoken(p, t, Chunk(q))
    BY <2>2, <2>5, SpokenPacket, SpokenChunk DEF PeerMoves
  <2>9. \A m \in net' : m \in net \/ Spoken(p, t, m)
    BY <2>3, <2>8, SentIs DEF Sends
  <2>10. PeerMoves(p, peer[p], t, divergence')
    BY <2>3, <2>7
  <2> QED BY <2>3, <2>9, <2>10 DEF Step
<1> QED BY <1>1, <1>4, <1>5

LEMMA AdvanceSteps ==
    ASSUME BarrierInv, NEW p \in Peer, Advance(p)
    PROVE  \E t : Step(p, t)
<1> DEFINE n == Ticked(peer[p])
           s == Publish(n)
<1>1. Fits(p, peer[p], divergence) /\ peer[p] \in Session
  BY PeerFits, FitsTypes
<1>2. n \in Session /\ Still(peer[p], n) /\ n.acked = peer[p].acked
  BY <1>1, TickedStill DEF BarrierInv
<1>3. /\ setting' = setting
      /\ IF Expired(p, s)
         THEN Become(p, Disconnect(s, "timeout"), net)
         ELSE \E links \in Serviced(p, s) : Correct(p, s, links) \/ Play(p, s, links)
  BY DEF Advance
<1> HIDE DEF n
<1>4. s \in Session /\ Still(n, s) /\ s.acked = n.acked
  BY <1>2, PublishStill
<1> HIDE DEF s
<1>5. Still(peer[p], s) /\ s.acked = peer[p].acked
  BY <1>1, <1>2, <1>4, StillTransitive
<1>6. /\ Fits(p, s, divergence) /\ Later(peer[p], s) /\ SameRound(peer[p], s)
  BY <1>1, <1>4, <1>5, StillMoves DEF PeerMoves
<1>7. CASE Expired(p, s)
  <2> DEFINE t == Disconnect(s, "timeout")
  <2>1. /\ peer' = [peer EXCEPT ![p] = t] /\ divergence' = divergence
        /\ \A x \in net' : x \in net \/ x = Packet(p, t)
    BY <1>3, <1>7, BecomeIs
  <2>2. PeerMoves(p, s, t, divergence)
    BY <1>4, <1>6, DisconnectStill, StillMoves DEF Ending
  <2> HIDE DEF t
  <2>3. PeerMoves(p, s, t, divergence')
    BY <2>1, <2>2
  <2>4. Sends(p, s, net)
    BY DEF Sends
  <2> QED BY <1>3, <1>6, <2>1, <2>3, <2>4, BecomeSteps
<1>8. CASE ~Expired(p, s)
  <2>1. PICK links \in Serviced(p, s) : Correct(p, s, links) \/ Play(p, s, links)
    BY <1>3, <1>8
  <2>2. Sends(p, s, links)
    <3>1. CASE links \in Sent(net, Packet(p, s))
      BY <3>1, SentIs DEF Sends
    <3>2. CASE links \notin Sent(net, Packet(p, s))
      <4>1. PICK l \in Sent(net, Packet(p, s)) : links \in Sent(l, Chunk(s))
        BY <2>1, <3>2 DEF Serviced
      <4> QED BY <4>1, SentIs DEF Sends
    <3> QED BY <3>1, <3>2
  <2> QED BY <1>3, <1>6, <2>1, <2>2, CorrectSteps, PlaySteps
<1> QED BY <1>7, <1>8

LEMMA NextSteps ==
    ASSUME BarrierInv, Next
    PROVE  \E p \in Peer : \E t : Step(p, t)
  BY ReceiveSteps, AdvanceSteps DEF Next

-----------------------------------------------------------------------------
(***************************************************************************)
(* The invariant.                                                          *)
(***************************************************************************)
LEMMA StepKeeps ==
    ASSUME BarrierInv, NEW p \in Peer, NEW t, Step(p, t)
    PROVE  BarrierInv'
<1> DEFINE o == Other(p)
<1>1. /\ peer' = [peer EXCEPT ![p] = t] /\ setting' = setting
      /\ Fits(p, t, divergence') /\ Later(peer[p], t)
      /\ \A m \in net' : m \in net \/ Spoken(p, t, m)
  BY DEF Step, PeerMoves
<1>2. /\ DOMAIN peer' = Peer /\ peer'[p] = t /\ peer'[o] = peer[o]
      /\ o \in Peer /\ Other(o) = p /\ \A q \in Peer : q = p \/ q = o
  BY <1>1, BarrierConstants DEF BarrierInv
<1>3. Good(peer'[Host], peer'[Join], divergence')
  BY <1>1, <1>2, BarrierConstants DEF Fits
<1>4. setting' \in Settings
  BY <1>1 DEF BarrierInv
<1>5. ASSUME NEW m \in net'
      PROVE  /\ m.to \in Peer /\ m.kind \in {"control", "chunk"}
             /\ m.kind = "control" => Control(m) /\ Said(peer'[Other(m.to)], m)
  <2>1. CASE Spoken(p, t, m)
    BY <1>2, <2>1 DEF Spoken
  <2>2. CASE m \in net /\ Other(m.to) = o
    BY <1>2, <2>2 DEF BarrierInv, Carried
  <2>3. CASE m \in net /\ Other(m.to) = p
    <3>1. /\ m.to \in Peer /\ m.kind \in {"control", "chunk"}
          /\ m.kind = "control" => Control(m) /\ Said(peer[p], m)
      BY <2>3 DEF BarrierInv, Carried
    <3>2. /\ peer[p] \in Session /\ t \in Session
          /\ \/ peer[p].phase \in HostPhase /\ t.phase \in HostPhase
             \/ peer[p].phase \in JoinPhase /\ t.phase \in JoinPhase
      BY <1>1, PeerFits, FitsTypes, BarrierConstants
    <3>3. m.kind = "control" => Said(t, m)
      BY <1>1, <3>1, <3>2, SaidLater
    <3> QED BY <1>2, <2>3, <3>1, <3>3
  <2>4. m \in net => m.to \in Peer /\ Other(m.to) \in Peer
    BY BarrierConstants DEF BarrierInv, Carried
  <2> QED BY <1>1, <1>2, <2>1, <2>2, <2>3, <2>4
<1>6. \A m \in net' : Carried(m)'
  BY <1>5 DEF Carried
<1> QED BY <1>2, <1>3, <1>4, <1>6 DEF BarrierInv

LEMMA BarrierInit == Init => BarrierInv
<1> SUFFICES ASSUME Init PROVE BarrierInv
  OBVIOUS
<1> DEFINE s == InitialPeer
<1>1. peer[Host] = s /\ peer[Join] = s /\ DOMAIN peer = Peer /\ net = {}
  BY BarrierConstants DEF Init
<1>2. divergence \in Nat /\ setting \in Settings
  BY BarrierConstants DEF Init
<1>3. /\ s.phase = "none" /\ s.peerPhase = "none" /\ s.frame = 0 /\ s.id = 0
      /\ s.applied = 0 /\ s.acked = 0 /\ s.known = 0
  BY DEF InitialPeer
<1>4. s \in Session
  <2>1. /\ 0 \in Nat /\ InputDelay \in Nat /\ "none" \in Phase /\ "" \in Ending
        /\ NoTranscript \in Transcript /\ FALSE \in BOOLEAN
        /\ <<>> \in {<<>>} \cup (Nat \X BOOLEAN)
    BY BarrierConstants DEF Phase, Ending, Transcript
  <2> QED BY <2>1 DEF InitialPeer, Session
<1> HIDE DEF s
<1>5. HostOwn(s) /\ JoinOwn(s)
  BY <1>3, <1>4, BarrierConstants DEF HostOwn, JoinOwn, Own, Open, HostPhase, JoinPhase
<1>6. Pair(s, s, divergence)
  BY <1>3 DEF Pair, Together, Open
<1> QED BY <1>1, <1>2, <1>5, <1>6 DEF BarrierInv, Good

LEMMA BarrierStep == BarrierInv /\ [Next]_vars => BarrierInv'
<1> SUFFICES ASSUME BarrierInv, [Next]_vars PROVE BarrierInv'
  OBVIOUS
<1>1. CASE Next
  BY <1>1, NextSteps, StepKeeps
<1>2. CASE UNCHANGED vars
  <2>1. peer' = peer /\ net' = net /\ divergence' = divergence /\ setting' = setting
    BY <1>2 DEF vars
  <2>2. \A m \in net' : Carried(m)'
    BY <2>1 DEF BarrierInv, Carried
  <2> QED BY <2>1, <2>2 DEF BarrierInv
<1> QED BY <1>1, <1>2

\* In every reachable state the two sessions stand at phases of one correction
\* that go together, on the same frames, and every control packet on the way
\* names a stage that its sender has reached.
THEOREM BarrierInvHolds == Spec => []BarrierInv
  BY BarrierInit, BarrierStep, PTL DEF Spec

(***************************************************************************)
(* What the barrier promises.                                              *)
(***************************************************************************)
\* ggpo_net_handle_correction_control lets a peer play on only when the other
\* has made the same replay, whatever is lost, repeated or overtaken, and
\* whether or not equal inputs replay equally.
THEOREM TimelineIsShared == Spec => []PlayedTimelineIsShared
<1>1. BarrierInv => PlayedTimelineIsShared
  <2> SUFFICES ASSUME BarrierInv, NEW p \in Peer, ~Frozen(peer[p])
               PROVE  peer[Other(p)].replayed = peer[p].replayed
    BY DEF PlayedTimelineIsShared
  <2>1. ~ (peer[Host].phase = "commit" /\ peer[Join].phase = "ready")
    BY BarrierConstants DEF Frozen
  <2>2. peer[Join].replayed = peer[Host].replayed
    BY <2>1 DEF BarrierInv, Good, Pair
  <2> QED BY <2>2, BarrierConstants
<1> QED BY <1>1, BarrierInvHolds, PTL

\* From the offer on, both peers hold the inputs of every frame that
\* ggpo_net_progress_correction replays: no frozen peer waits for an input.
THEOREM ReplayNeedsNoInput == Spec => []ReplayIsSettled
<1>1. BarrierInv => ReplayIsSettled
  <2> SUFFICES ASSUME BarrierInv, NEW p \in Peer,
                      peer[p].phase \notin {"none", "request"}
               PROVE  /\ peer[p].first < peer[p].resume
                      /\ peer[p].resume <= peer[p].known
                      /\ peer[p].resume <= peer[Other(p)].known
    BY DEF ReplayIsSettled
  <2> DEFINE h == peer[Host]
             j == peer[Join]
  <2>1. HostOwn(h) /\ JoinOwn(j) /\ Pair(h, j, divergence) /\ h \in Session /\ j \in Session
    BY GoodTypes DEF BarrierInv, Good
  <2>2. CASE p = Host
    <3>1. h.first < h.resume /\ h.resume <= h.known /\ h.resume <= h.acked
      BY <2>1, <2>2 DEF HostOwn, Own, Open
    <3>2. h.acked <= j.known
      BY <2>1 DEF Pair
    <3>3. h.resume <= j.known
      BY <2>1, <3>1, <3>2, SessionNumbers
    <3> QED BY <2>2, <3>1, <3>3, BarrierConstants
  <2>3. CASE p = Join
    BY <2>1, <2>3, BarrierConstants DEF JoinOwn, Own, Pair, Open
  <2> QED BY <2>2, <2>3, BarrierConstants
<1> QED BY <1>1, BarrierInvHolds, PTL

\* A correction takes the frame counter back, and nothing else: inputs
\* committed, received or acknowledged stay so in every step, across every
\* generation.
THEOREM CorrectionKeepsInputs == Spec => InputsSurviveCorrection
<1> DEFINE Grows == \A p \in Peer :
                      /\ peer[p].committed <= peer'[p].committed
                      /\ peer[p].known <= peer'[p].known
                      /\ peer[p].acked <= peer'[p].acked
                      /\ peer[p].id <= peer'[p].id
<1>1. BarrierInv /\ [Next]_vars => [Grows]_vars
  <2> SUFFICES ASSUME BarrierInv, Next PROVE Grows
    OBVIOUS
  <2>0. PICK p \in Peer : \E t : Step(p, t)
    BY NextSteps
  <2>1. PICK t : Step(p, t)
    BY <2>0
  <2>2. peer' = [peer EXCEPT ![p] = t] /\ Later(peer[p], t) /\ DOMAIN peer = Peer
    BY <2>1 DEF Step, PeerMoves, BarrierInv
  <2>3. ASSUME NEW q \in Peer
        PROVE  /\ peer[q].committed <= peer'[q].committed
               /\ peer[q].known <= peer'[q].known
               /\ peer[q].acked <= peer'[q].acked
               /\ peer[q].id <= peer'[q].id
    <3>1. CASE q = p
      BY <2>2, <3>1 DEF Later
    <3>2. CASE q # p
      <4>1. peer'[q] = peer[q] /\ peer[q] \in Session
        BY <2>2, <3>2, PeerFits, FitsTypes
      <4> QED BY <4>1, SessionNumbers
    <3> QED BY <3>1, <3>2
  <2> QED BY <2>3
<1> QED BY <1>1, BarrierInvHolds, PTL DEF Spec, InputsSurviveCorrection

-----------------------------------------------------------------------------
(***************************************************************************)
(* The barrier implements CorrectionRound.                                 *)
(***************************************************************************)
LEMMA RoundOfStep ==
    ASSUME BarrierInv, NEW p \in Peer, NEW t, Step(p, t)
    PROVE  [Barrier!RoundNext]_(Barrier!roundVars)
<1> DEFINE A == [q \in Peer |-> RoundState(peer[q])]
           B == [q \in Peer |-> RoundNumber(peer[q])]
           C == [q \in Peer |-> RoundState(peer'[q])]
           D == [q \in Peer |-> RoundNumber(peer'[q])]
           o == Other(p)
<1>1. /\ peer' = [peer EXCEPT ![p] = t] /\ DOMAIN peer = Peer
      /\ Turn(peer[p], t, peer[o])
  BY DEF Step, PeerMoves, BarrierInv
<1>2. o \in Peer /\ \A q \in Peer : q = p \/ q = o
  BY BarrierConstants
<1>3. C = [A EXCEPT ![p] = RoundState(t)] /\ D = [B EXCEPT ![p] = RoundNumber(t)]
  BY <1>1
<1>4. /\ A[p] = RoundState(peer[p]) /\ A[o] = RoundState(peer[o])
      /\ B[p] = RoundNumber(peer[p]) /\ B[o] = RoundNumber(peer[o])
      /\ A = [A EXCEPT ![p] = A[p]] /\ B = [B EXCEPT ![p] = B[p]]
  BY <1>2
<1> HIDE DEF o
<1>5. \/ C = A /\ D = B
      \/ A[p] = "playing" /\ C = [A EXCEPT ![p] = "frozen"] /\ D = B
      \/ /\ A[p] = "frozen" /\ \A q \in Peer : A[q] # "playing"
         /\ C = [A EXCEPT ![p] = "replayed"] /\ D = [B EXCEPT ![p] = B[p] + 1]
      \/ /\ A[p] = "replayed" /\ \A q \in Peer : B[q] = B[p]
         /\ C = [A EXCEPT ![p] = "playing"] /\ D = B
  <2> HIDE DEF A, B, C, D
  <2>1. CASE SameRound(peer[p], t)
    BY <1>3, <1>4, <2>1 DEF SameRound
  <2>2. CASE ~SameRound(peer[p], t)
    BY <1>1, <1>2, <1>3, <1>4, <2>2 DEF Turn
  <2> QED BY <2>1, <2>2
<1>6. /\ C = A /\ D = B => UNCHANGED Barrier!roundVars
      /\ (A[p] = "playing" /\ C = [A EXCEPT ![p] = "frozen"] /\ D = B)
            => Barrier!Freeze(p)
      /\ (/\ A[p] = "frozen" /\ \A q \in Peer : A[q] # "playing"
          /\ C = [A EXCEPT ![p] = "replayed"] /\ D = [B EXCEPT ![p] = B[p] + 1])
            => Barrier!Replay(p)
      /\ (/\ A[p] = "replayed" /\ \A q \in Peer : B[q] = B[p]
          /\ C = [A EXCEPT ![p] = "playing"] /\ D = B)
            => Barrier!Resume(p)
  BY DEF RoundState, RoundNumber, Frozen, HasReplayed,
         Barrier!roundVars, Barrier!Freeze, Barrier!Replay, Barrier!Resume
<1> HIDE DEF A, B, C, D
<1> QED BY <1>5, <1>6 DEF Barrier!RoundNext

\* Of any length, over any link: the peers freeze, both are out of the game
\* before the first one replays, and both have replayed before the first one
\* plays on.
THEOREM BarrierImplementsRound == Spec => ImplementsRound
<1>1. Init => Barrier!RoundInit
  <2> SUFFICES ASSUME Init PROVE Barrier!RoundInit
    OBVIOUS
  <2>1. InitialPeer.phase = "none" /\ InitialPeer.applied = 0
    BY DEF InitialPeer
  <2>2. \A p \in Peer : peer[p].phase = "none" /\ peer[p].applied = 0
    BY <2>1 DEF Init
  <2> QED BY <2>2 DEF Frozen, HasReplayed, Barrier!RoundInit
<1>2. BarrierInv /\ [Next]_vars => [Barrier!RoundNext]_(Barrier!roundVars)
  <2>1. CASE UNCHANGED vars
    BY <2>1 DEF vars, Frozen, HasReplayed, Barrier!roundVars
  <2>2. CASE BarrierInv /\ Next
    BY <2>2, NextSteps, RoundOfStep
  <2> QED BY <2>1, <2>2
<1> QED BY <1>1, <1>2, BarrierInvHolds, PTL DEF Spec, ImplementsRound, Barrier!RoundSpec

-----------------------------------------------------------------------------
(***************************************************************************)
(* No packet is taken for a violation.                                     *)
(***************************************************************************)
\* What acknowledgements of the checksum stream are measured against: the new
\* stream's start, once a correction is under way.
Limit(s) == IF s.phase \in {"offer", "receiving", "ready"} THEN s.first ELSE s.published

\* A session keeps the correction it has come through, until the next one.
Recalls(s) ==
    /\ s.id # 0 /\ s.phase # "request" => s.snapshot = s.first
    /\ \/ s.phase \in {"commit", "release", "applied", "releaseAck"}
       \/ s.phase = "none" /\ s.id # 0
       => s.transcript = <<s.id, s.first, s.resume, TRUE>>
    /\ s.phase = "request" => s.resume = s.first

\* The host asks for, and offers, the frame of the divergence d; what it
\* published is settled.
HostClean(h, d) ==
    /\ Recalls(h)
    /\ h.verified <= d
    /\ h.published <= h.known /\ h.published <= h.acked /\ h.published <= h.frame
    /\ h.phase \in {"request", "offer"} => h.first = d
    /\ h.phase = "request" => d < h.published
    /\ h.phase \in {"commit", "release"} => h.first <= h.published

JoinClean(j, d) ==
    /\ Recalls(j)
    /\ j.verified <= d
    /\ j.phase = "request" => j.request = d /\ j.first = d
    /\ j.phase \in {"applied", "releaseAck"} => j.peerSums = 0

\* Neither holds inputs that the other has not committed, nor has verified or
\* heard of checksums that the other has not published in this generation.
Agreed(h, j, d) ==
    /\ h.known <= j.committed /\ j.known <= h.committed
    /\ h.id = j.id => h.verified <= Limit(j) /\ j.verified <= Limit(h)
    /\ h.phase = "none" => h.peerSums <= j.published
    /\ j.phase = "none" /\ h.id = j.id => j.peerSums <= h.published
    /\ j.phase = "request" /\ h.id = j.id => d < h.published

Clean(h, j, d) == HostClean(h, d) /\ JoinClean(j, d) /\ Agreed(h, j, d)

\* A packet by itself.
Plain(m) ==
    /\ m.phase \in IF m.to = Host THEN JoinPhase ELSE HostPhase
    /\ m.phase \notin Open =>
          /\ m.id # 0 /\ m.ackId = m.id /\ m.first < m.resume
          /\ m.phase \in {"offer", "receiving", "ready"} => m.sum = <<m.first>>
          /\ m.phase \in {"commit", "release", "applied", "releaseAck"} =>
                m.sum = <<m.id, m.first, m.resume, TRUE>>

\* A packet of a sender whose session is now o.
Honest(o, m) ==
    /\ m.inputs <= o.committed
    /\ m.id = o.id =>
          /\ m.phase = "none" => m.sums <= o.published
          /\ m.phase = "request" => o.phase = "request" /\ m.first = o.first
          /\ m.phase \notin Open /\ o.phase = "none" =>
                m.first = o.first /\ m.resume = o.resume

\* The acknowledgements it carries for a receiver whose session is r.
Bounded(r, m, d) ==
    /\ m.id = r.id => m.verified <= Limit(r)
    /\ m.id = r.id + 1 => m.verified <= d

CleanInv ==
    /\ Clean(peer[Host], peer[Join], divergence)
    /\ \A m \in net : m.kind = "control" =>
          /\ Plain(m)
          /\ Honest(peer[Other(m.to)], m)
          /\ Bounded(peer[m.to], m, divergence)

\* What a session's own step leaves true of packets: its stream is taken up
\* within a generation, and a new generation starts at the divergence.
Moved(s, t, d) ==
    /\ s.committed <= t.committed
    /\ t.id = s.id \/ (t.id = s.id + 1 /\ Limit(t) = d)
    /\ t.id = s.id =>
          /\ Limit(s) <= Limit(t)
          /\ s.phase \in Open => t.phase \in Open /\ s.published <= t.published
          /\ s.phase = "request" => t.phase = "request" /\ t.first = s.first
          /\ t.phase # "request" =>
                s.phase # "request" /\ t.first = s.first /\ t.resume = s.resume

\* The barrier stays as it is, inputs and checksums come in or go out.
Streams(s, t) ==
    /\ t.phase = s.phase /\ t.id = s.id /\ t.first = s.first /\ t.resume = s.resume
    /\ t.snapshot = s.snapshot /\ t.transcript = s.transcript /\ t.request = s.request
    /\ s.frame <= t.frame
    /\ s.committed <= t.committed /\ s.known <= t.known /\ s.acked <= t.acked
    /\ s.published <= t.published /\ (s.phase = "none" \/ t.published = s.published)

LEMMA StreamNumbers ==
    ASSUME NEW s \in Session
    PROVE  /\ s.verified \in Nat /\ s.published \in Nat /\ s.request \in Nat
           /\ Limit(s) \in Nat
  BY DEF Session, Limit

LEMMA MovedOn ==
    ASSUME NEW s \in Session, NEW n \in Session, NEW t \in Session, NEW d,
           Moved(s, n, d), Moved(n, t, d), n.id = s.id
    PROVE  Moved(s, t, d)
  BY SessionNumbers, StreamNumbers DEF Moved

LEMMA StreamsMoved ==
    ASSUME NEW s \in Session, NEW t \in Session, Streams(s, t), NEW d
    PROVE  Moved(s, t, d)
<1>1. Limit(s) <= Limit(t)
  BY SessionNumbers, StreamNumbers DEF Streams, Limit
<1> QED BY <1>1, SessionNumbers DEF Streams, Moved

LEMMA StreamsLimit ==
    ASSUME NEW s \in Session, NEW t \in Session, Streams(s, t)
    PROVE  Limit(s) <= Limit(t) /\ (Recalls(s) => Recalls(t))
<1>1. Limit(s) <= Limit(t)
  BY SessionNumbers, StreamNumbers DEF Streams, Limit
<1>2. Recalls(s) => Recalls(t)
  BY DEF Streams, Recalls
<1> QED BY <1>1, <1>2

LEMMA StreamHost ==
    ASSUME NEW h, NEW j, NEW d, Good(h, j, d), Clean(h, j, d),
           NEW t \in Session, Streams(h, t), t.known <= j.committed,
           t.published <= t.known, t.published <= t.acked, t.published <= t.frame,
           t.verified <= d, h.id = j.id => t.verified <= Limit(j),
           h.phase = "none" => t.peerSums <= j.published
    PROVE  Clean(t, j, d) /\ Moved(h, t, d)
<1>1. h \in Session /\ j \in Session /\ d \in Nat
  BY GoodTypes
<1>2. Moved(h, t, d) /\ Limit(h) <= Limit(t) /\ Recalls(t)
  BY <1>1, StreamsMoved, StreamsLimit DEF Clean, HostClean
<1>3. HostClean(t, d)
  BY <1>1, <1>2, SessionNumbers, StreamNumbers DEF Clean, HostClean, Streams
<1>4. Agreed(t, j, d)
  BY <1>1, <1>2, SessionNumbers, StreamNumbers DEF Clean, Agreed, Streams
<1> QED BY <1>2, <1>3, <1>4 DEF Clean

LEMMA StreamJoin ==
    ASSUME NEW h, NEW j, NEW d, Good(h, j, d), Clean(h, j, d),
           NEW t \in Session, Streams(j, t), t.known <= h.committed,
           t.verified <= d, h.id = j.id => t.verified <= Limit(h),
           j.phase = "none" /\ h.id = j.id => t.peerSums <= h.published,
           j.phase \in {"applied", "releaseAck"} => t.peerSums = j.peerSums
    PROVE  Clean(h, t, d) /\ Moved(j, t, d)
<1>1. h \in Session /\ j \in Session /\ d \in Nat
  BY GoodTypes
<1>2. Moved(j, t, d) /\ Limit(j) <= Limit(t) /\ Recalls(t)
  BY <1>1, StreamsMoved, StreamsLimit DEF Clean, JoinClean
<1>3. JoinClean(t, d)
  BY <1>1, <1>2, SessionNumbers, StreamNumbers DEF Clean, JoinClean, Streams
<1>4. Agreed(h, t, d)
  BY <1>1, <1>2, SessionNumbers, StreamNumbers DEF Clean, Agreed, Streams
<1> QED BY <1>2, <1>3, <1>4 DEF Clean

\* A phase is over, and nothing else changes.
Rests(s, t) ==
    /\ t.id = s.id /\ t.first = s.first /\ t.resume = s.resume
    /\ t.snapshot = s.snapshot /\ t.transcript = s.transcript /\ t.request = s.request
    /\ t.frame = s.frame /\ t.committed = s.committed /\ t.known = s.known
    /\ t.acked = s.acked /\ t.verified = s.verified /\ t.published = s.published
    /\ t.peerSums = s.peerSums

\* A game that plays asks for frame f.
AskedFor(s, t, f) ==
    /\ s.phase = "none" /\ t.phase = "request" /\ t.id = s.id
    /\ t.request = f /\ t.first = f /\ t.resume = f
    /\ t.frame = s.frame /\ t.committed = s.committed /\ t.known = s.known
    /\ t.acked = s.acked /\ t.verified = s.verified /\ t.published = s.published
    /\ t.peerSums = s.peerSums

\* The host offers its state at frame f.
OfferedAt(s, t, f) ==
    /\ s.phase \in Open /\ t.phase = "offer" /\ t.id = s.id + 1
    /\ t.first = f /\ t.snapshot = f
    /\ t.frame = s.frame /\ t.committed = s.committed /\ t.known = s.known
    /\ t.acked = s.acked /\ t.verified = s.verified /\ t.published = s.published

\* A session starts its checksum stream over behind the replay.
Restarted(s, t) ==
    /\ t.id = s.id /\ t.first = s.first /\ t.resume = s.resume
    /\ t.snapshot = s.snapshot /\ t.request = s.request
    /\ t.known = s.known /\ t.acked = s.acked /\ s.committed <= t.committed
    /\ t.frame = s.resume /\ t.verified = s.first /\ t.published = s.first
    /\ t.peerSums = 0

LEMMA PhaseHost ==
    ASSUME NEW h, NEW j, NEW d, Good(h, j, d), Clean(h, j, d),
           NEW t \in Session, Rests(h, t),
           \/ h.phase = "commit" /\ t.phase = "release"
           \/ h.phase = "release" /\ t.phase = "none"
    PROVE  Clean(t, j, d) /\ Moved(h, t, d)
<1>1. h \in Session /\ j \in Session /\ d \in Nat /\ h.peerSums = 0 /\ h.id = j.id
  BY GoodTypes DEF Good, HostOwn, Pair
<1>2. Limit(t) = Limit(h)
  BY DEF Limit, Rests
<1>3. HostClean(t, d)
  BY DEF Clean, HostClean, Rests, Recalls
<1>4. Agreed(t, j, d)
  BY <1>1, <1>2, SessionNumbers, StreamNumbers DEF Clean, Agreed, Rests
<1>5. Moved(h, t, d)
  BY <1>1, <1>2, SessionNumbers, StreamNumbers DEF Moved, Rests, Open
<1> QED BY <1>3, <1>4, <1>5 DEF Clean

LEMMA PhaseJoin ==
    ASSUME NEW h, NEW j, NEW d, Good(h, j, d), Clean(h, j, d),
           NEW t \in Session, Rests(j, t),
           \/ j.phase = "receiving" /\ t.phase = "ready"
           \/ j.phase = "applied" /\ t.phase = "releaseAck"
           \/ j.phase = "releaseAck" /\ t.phase = "none"
    PROVE  Clean(h, t, d) /\ Moved(j, t, d)
<1>1. h \in Session /\ j \in Session /\ d \in Nat
  BY GoodTypes
<1>2. Limit(t) = Limit(j)
  BY DEF Limit, Rests
<1>3. JoinClean(t, d)
  BY DEF Clean, JoinClean, Rests, Recalls
<1>4. t.phase = "none" => t.peerSums = 0
  BY DEF Clean, JoinClean, Rests
<1>5. Agreed(h, t, d)
  BY <1>1, <1>2, <1>4, SessionNumbers, StreamNumbers DEF Clean, Agreed, Rests
<1>6. Moved(j, t, d)
  BY <1>1, <1>2, SessionNumbers, StreamNumbers DEF Moved, Rests, Open
<1> QED BY <1>3, <1>5, <1>6 DEF Clean

LEMMA AskedHost ==
    ASSUME NEW h, NEW j, NEW d, Good(h, j, d), Clean(h, j, d),
           NEW t \in Session, AskedFor(h, t, d), d < h.published
    PROVE  Clean(t, j, d) /\ Moved(h, t, d)
<1>1. h \in Session /\ j \in Session /\ d \in Nat
  BY GoodTypes
<1>2. Limit(t) = Limit(h)
  BY DEF Limit, AskedFor
<1>3. HostClean(t, d)
  BY DEF Clean, HostClean, AskedFor, Recalls
<1>4. Agreed(t, j, d)
  BY <1>2 DEF Clean, Agreed, AskedFor
<1>5. Moved(h, t, d)
  BY <1>1, <1>2, SessionNumbers, StreamNumbers DEF Moved, AskedFor, Open
<1> QED BY <1>3, <1>4, <1>5 DEF Clean

LEMMA AskedJoin ==
    ASSUME NEW h, NEW j, NEW d, Good(h, j, d), Clean(h, j, d),
           NEW t \in Session, AskedFor(j, t, d), h.id = j.id => d < h.published
    PROVE  Clean(h, t, d) /\ Moved(j, t, d)
<1>1. h \in Session /\ j \in Session /\ d \in Nat
  BY GoodTypes
<1>2. Limit(t) = Limit(j)
  BY DEF Limit, AskedFor
<1>3. JoinClean(t, d)
  BY DEF Clean, JoinClean, AskedFor, Recalls
<1>4. Agreed(h, t, d)
  BY <1>2 DEF Clean, Agreed, AskedFor
<1>5. Moved(j, t, d)
  BY <1>1, <1>2, SessionNumbers, StreamNumbers DEF Moved, AskedFor, Open
<1> QED BY <1>3, <1>4, <1>5 DEF Clean

LEMMA OfferedHost ==
    ASSUME NEW h, NEW j, NEW d, Good(h, j, d), Clean(h, j, d),
           NEW t \in Session, OfferedAt(h, t, d)
    PROVE  Clean(t, j, d) /\ Moved(h, t, d)
<1>1. /\ h \in Session /\ j \in Session /\ d \in Nat
      /\ h.id \in Nat /\ j.id \in Nat /\ t.id = h.id + 1
  BY GoodTypes, SessionNumbers DEF OfferedAt
<1>2. Limit(t) = d /\ t.id # j.id
  BY <1>1 DEF Limit, OfferedAt, Good, Pair, Open
<1>3. HostClean(t, d)
  BY DEF Clean, HostClean, OfferedAt, Recalls
<1>4. Agreed(t, j, d)
  BY <1>2 DEF Clean, Agreed, OfferedAt
<1>5. Moved(h, t, d)
  BY <1>1, <1>2, SessionNumbers DEF Moved, OfferedAt
<1> QED BY <1>3, <1>4, <1>5 DEF Clean

LEMMA RestartedHost ==
    ASSUME NEW h, NEW j, NEW d, Good(h, j, d), Clean(h, j, d), MayCommit(h),
           NEW t \in Session, Restarted(h, t), t.phase = "commit",
           t.transcript = <<t.id, t.first, t.resume, TRUE>>,
           NEW c \in Nat, h.resume <= c
    PROVE  Clean(t, j, c) /\ Moved(h, t, d)
<1>1. h \in Session /\ j \in Session /\ d \in Nat /\ h.phase = "offer" /\ h.peerPhase = "ready"
  BY GoodTypes DEF MayCommit
<1>2. /\ h.first < h.resume /\ h.resume <= h.known /\ h.resume <= h.acked
      /\ h.applied + 1 = h.id
  BY <1>1 DEF Good, HostOwn, Own, Open
<1>3. h.id \in Nat /\ h.id # 0
  BY <1>1, <1>2, SessionNumbers
<1>4. h.id = j.id /\ j.phase = "ready" /\ h.first = j.first
  BY <1>1 DEF Good, Pair, Open
<1>5. /\ h \in Session /\ j \in Session /\ d \in Nat
      /\ h.phase = "offer" /\ h.id = j.id /\ j.phase = "ready"
      /\ h.first = j.first /\ h.first < h.resume /\ h.resume <= h.known
      /\ h.resume <= h.acked /\ h.id # 0 /\ h.id \in Nat
  BY <1>1, <1>2, <1>3, <1>4
<1>6. Limit(t) = h.first /\ Limit(j) = h.first /\ Limit(h) = h.first
  BY <1>5 DEF Limit, Restarted
<1>7. HostClean(t, c)
  BY <1>5, SessionNumbers DEF Clean, HostClean, Restarted, Recalls
<1>8. j.verified <= c
  BY <1>5, <1>6, SessionNumbers, StreamNumbers DEF Clean, Agreed
<1>9. JoinClean(j, c)
  BY <1>5, <1>8 DEF Clean, JoinClean
<1>10. t.known <= j.committed /\ j.known <= t.committed
  BY <1>5, SessionNumbers DEF Clean, Agreed, Restarted
<1>11. t.verified = h.first /\ h.first \in Nat /\ t.phase = "commit"
  BY <1>5, SessionNumbers DEF Restarted
<1>12. t.id = j.id => t.verified <= Limit(j) /\ j.verified <= Limit(t)
  BY <1>5, <1>6, <1>11 DEF Clean, Agreed
<1>13. Agreed(t, j, c)
  BY <1>5, <1>10, <1>11, <1>12 DEF Agreed
<1>14. Moved(h, t, d)
  BY <1>5, <1>6, SessionNumbers, StreamNumbers DEF Moved, Restarted, Open
<1> QED BY <1>7, <1>9, <1>13, <1>14 DEF Clean

LEMMA RestartedJoin ==
    ASSUME NEW h, NEW j, NEW d, Good(h, j, d), Clean(h, j, d), MayApply(j),
           NEW t \in Session, Restarted(j, t),
           \/ t.phase = "ready"
           \/ t.phase = "applied" /\ t.transcript = <<t.id, t.first, t.resume, TRUE>>
    PROVE  Clean(h, t, d) /\ Moved(j, t, d)
<1>1. h \in Session /\ j \in Session /\ d \in Nat /\ j.phase = "ready" /\ j.peerPhase = "commit"
  BY GoodTypes DEF MayApply
<1>2. h.phase = "commit" /\ h.id = j.id /\ h.first = j.first /\ h.resume <= d
  BY <1>1 DEF Good, Pair, Open
<1>3. h.first < h.resume /\ h.applied + 1 = h.id
  BY <1>2 DEF Good, HostOwn, Own, Open
<1>4. h.id \in Nat /\ h.id # 0 /\ h.first <= h.published
  BY <1>1, <1>2, <1>3, SessionNumbers DEF Clean, HostClean
<1>5. /\ h \in Session /\ j \in Session /\ d \in Nat
      /\ j.phase = "ready" /\ h.phase = "commit" /\ h.id = j.id
      /\ h.first = j.first /\ h.first < h.resume /\ h.resume <= d
      /\ h.id # 0 /\ h.id \in Nat /\ h.first <= h.published
  BY <1>1, <1>2, <1>3, <1>4
<1>6. Limit(t) = j.first /\ Limit(j) = j.first /\ Limit(h) = h.published
  BY <1>5 DEF Limit, Restarted
<1>7. j.first <= d
  BY <1>5, SessionNumbers
<1>8. JoinClean(t, d)
  BY <1>5, <1>7 DEF Clean, JoinClean, Restarted, Recalls
<1>9. h.known <= t.committed /\ t.known <= h.committed
  BY <1>5, SessionNumbers DEF Clean, Agreed, Restarted
<1>10. h.id = t.id => h.verified <= Limit(t) /\ t.verified <= Limit(h)
  BY <1>5, <1>6 DEF Clean, Agreed, Restarted
<1>11. Agreed(h, t, d)
  BY <1>5, <1>9, <1>10 DEF Agreed
<1>12. Moved(j, t, d)
  BY <1>5, <1>6, SessionNumbers, StreamNumbers DEF Moved, Restarted, Open
<1> QED BY <1>5, <1>8, <1>11, <1>12 DEF Clean

LEMMA TakenJoin ==
    ASSUME NEW h, NEW j, NEW d, Good(h, j, d), Clean(h, j, d), j.phase \in Open,
           h.phase = "offer", h.id = j.id + 1, NEW t \in Session,
           t.phase = "receiving", t.id = h.id, t.first = h.first,
           t.resume = h.resume, t.snapshot = h.snapshot, t.verified = j.verified,
           t.committed = j.committed, t.known = j.known
    PROVE  Clean(h, t, d) /\ Moved(j, t, d)
<1>1. /\ h \in Session /\ j \in Session /\ d \in Nat /\ h.first = d
      /\ h.id # 0 /\ h.id \in Nat /\ j.id \in Nat /\ h.snapshot = h.first
  BY GoodTypes, SessionNumbers DEF Clean, HostClean, Recalls
<1>2. Limit(t) = d /\ Limit(h) = d
  BY <1>1 DEF Limit
<1>3. JoinClean(t, d)
  BY <1>1 DEF Clean, JoinClean, Recalls
<1>4. Agreed(h, t, d)
  BY <1>1, <1>2 DEF Clean, Agreed, HostClean, JoinClean
<1>5. Moved(j, t, d)
  BY <1>1, <1>2, SessionNumbers DEF Moved
<1> QED BY <1>1, <1>3, <1>4, <1>5 DEF Clean

-----------------------------------------------------------------------------
(***************************************************************************)
(* What the operations do to inputs and checksums.                         *)
(***************************************************************************)
\* Only inputs come in, and what the host or the joiner knows of the other.
Quiet(s, t) ==
    /\ Streams(s, t) /\ t.frame = s.frame /\ t.verified = s.verified
    /\ t.published = s.published /\ t.peerSums = s.peerSums

LEMMA QuietHost ==
    ASSUME NEW h, NEW j, NEW d, Good(h, j, d), Clean(h, j, d),
           NEW t \in Session, Quiet(h, t), t.known <= j.committed
    PROVE  Clean(t, j, d) /\ Moved(h, t, d)
<1>1. h \in Session /\ j \in Session /\ d \in Nat
  BY GoodTypes
<1>2. /\ h.published <= h.known /\ h.published <= h.acked /\ h.published <= h.frame
      /\ h.verified <= d
  BY DEF Clean, HostClean
<1>3. t.published <= t.known /\ t.published <= t.acked /\ t.published <= t.frame
  BY <1>1, <1>2, SessionNumbers, StreamNumbers DEF Quiet, Streams
<1>4. /\ h.id = j.id => h.verified <= Limit(j)
      /\ h.phase = "none" => h.peerSums <= j.published
  BY DEF Clean, Agreed
<1> QED BY <1>2, <1>3, <1>4, StreamHost DEF Quiet

LEMMA QuietJoin ==
    ASSUME NEW h, NEW j, NEW d, Good(h, j, d), Clean(h, j, d),
           NEW t \in Session, Quiet(j, t), t.known <= h.committed
    PROVE  Clean(h, t, d) /\ Moved(j, t, d)
<1>1. /\ j.verified <= d
      /\ h.id = j.id => j.verified <= Limit(h)
      /\ j.phase = "none" /\ h.id = j.id => j.peerSums <= h.published
  BY DEF Clean, JoinClean, Agreed
<1> QED BY <1>1, StreamJoin DEF Quiet

\* Neither knows more than the other committed.
LEMMA KnownIs ==
    ASSUME NEW h, NEW j, NEW d, Clean(h, j, d)
    PROVE  h.known <= j.committed /\ j.known <= h.committed
  BY DEF Clean, Agreed

LEMMA NoteQuiet ==
    ASSUME NEW s \in Session, NEW m, Control(m)
    PROVE  LET t == NoteInputs(s, m)
           IN  /\ Quiet(s, t)
               /\ t.known = s.known \/ t.known = m.inputs
<1>1. PICK k \in Nat : /\ k = Max({s.known, m.inputs}) /\ s.known <= k
                       /\ k = s.known \/ k = m.inputs
  <2>1. s.known \in Int /\ m.inputs \in Int /\ s.known \in Nat /\ m.inputs \in Nat
    BY SessionNumbers DEF Control
  <2> QED BY <2>1, MaxOfTwo
<1>2. PICK a \in Nat : a = Max({s.acked, m.known}) /\ s.acked <= a
  <2>1. s.acked \in Int /\ m.known \in Int /\ s.acked \in Nat /\ m.known \in Nat
    BY SessionNumbers DEF Control
  <2> QED BY <2>1, MaxOfTwo
<1> DEFINE t == [s EXCEPT !.known = k, !.acked = a]
<1>3. NoteInputs(s, m) = t
  BY <1>1, <1>2, Zenon DEF NoteInputs
<1>4. /\ t.phase = s.phase /\ t.id = s.id /\ t.first = s.first /\ t.resume = s.resume
      /\ t.snapshot = s.snapshot /\ t.transcript = s.transcript
      /\ t.request = s.request /\ t.frame = s.frame /\ t.peerSums = s.peerSums
      /\ t.verified = s.verified /\ t.published = s.published
      /\ t.committed = s.committed /\ t.known = k /\ t.acked = a
  BY DEF Session
<1> HIDE DEF t
<1>5. Quiet(s, t)
  BY <1>1, <1>2, <1>4, SessionNumbers, StreamNumbers DEF Quiet, Streams
<1> QED BY <1>1, <1>3, <1>4, <1>5

\* Nothing that is measured changes.
LEMMA SameQuiet ==
    ASSUME NEW s \in Session, NEW t,
           t.phase = s.phase, t.id = s.id, t.first = s.first, t.resume = s.resume,
           t.snapshot = s.snapshot, t.transcript = s.transcript,
           t.request = s.request, t.frame = s.frame, t.peerSums = s.peerSums,
           t.verified = s.verified, t.published = s.published,
           t.committed = s.committed, t.known = s.known, t.acked = s.acked
    PROVE  Quiet(s, t)
  BY SessionNumbers, StreamNumbers DEF Quiet, Streams

LEMMA DisconnectQuiet ==
    ASSUME NEW s \in Session, NEW why
    PROVE  Quiet(s, Disconnect(s, why)) /\ Disconnect(s, why).lost = why
<1> DEFINE t == Disconnect(s, why)
<1>1. /\ t.phase = s.phase /\ t.id = s.id /\ t.first = s.first /\ t.resume = s.resume
      /\ t.snapshot = s.snapshot /\ t.transcript = s.transcript
      /\ t.request = s.request /\ t.frame = s.frame /\ t.peerSums = s.peerSums
      /\ t.verified = s.verified /\ t.published = s.published
      /\ t.committed = s.committed /\ t.known = s.known /\ t.acked = s.acked
      /\ t.lost = why
  BY DEF Disconnect, Session
<1> HIDE DEF t
<1>2. Quiet(s, t)
  BY <1>1, SameQuiet
<1> QED BY <1>1, <1>2 DEF t

LEMMA ChunkQuiet ==
    ASSUME NEW s \in Session, NEW m
    PROVE  LET t == JoinOnChunk(s, m)
           IN  Quiet(s, t) /\ t.known = s.known /\ t.lost = s.lost
<1> DEFINE t == [Progress(s) EXCEPT !.staged = TRUE]
<1>1. /\ t.phase = s.phase /\ t.id = s.id /\ t.first = s.first /\ t.resume = s.resume
      /\ t.snapshot = s.snapshot /\ t.transcript = s.transcript
      /\ t.request = s.request /\ t.frame = s.frame /\ t.peerSums = s.peerSums
      /\ t.verified = s.verified /\ t.published = s.published
      /\ t.committed = s.committed /\ t.known = s.known /\ t.acked = s.acked
      /\ t.lost = s.lost
  BY DEF Progress, Session
<1>2. JoinOnChunk(s, m) = t \/ JoinOnChunk(s, m) = s
  BY DEF JoinOnChunk
<1> HIDE DEF t
<1>3. Quiet(s, t) /\ Quiet(s, s)
  BY <1>1, SameQuiet
<1> QED BY <1>1, <1>2, <1>3

LEMMA TickedQuiet ==
    ASSUME NEW s \in Session
    PROVE  LET t == Ticked(s)
           IN  Quiet(s, t) /\ t.known = s.known /\ t.lost = s.lost
<1>1. PICK k : k = IF Frozen(s) /\ s.waited < setting.timeout
                   THEN s.waited + 1 ELSE s.waited
  OBVIOUS
<1> DEFINE t == [s EXCEPT !.waited = k]
<1>2. Ticked(s) = t
  BY <1>1, Zenon DEF Ticked
<1>3. /\ t.phase = s.phase /\ t.id = s.id /\ t.first = s.first /\ t.resume = s.resume
      /\ t.snapshot = s.snapshot /\ t.transcript = s.transcript
      /\ t.request = s.request /\ t.frame = s.frame /\ t.peerSums = s.peerSums
      /\ t.verified = s.verified /\ t.published = s.published
      /\ t.committed = s.committed /\ t.known = s.known /\ t.acked = s.acked
      /\ t.lost = s.lost
  BY DEF Session
<1> HIDE DEF t
<1> QED BY <1>2, <1>3, SameQuiet

\* Once published, all that is settled is.
UpToDate(s) == s.phase = "none" => Horizon(s) <= s.published

LEMMA PublishStreams ==
    ASSUME NEW s \in Session
    PROVE  LET t == Publish(s)
           IN  /\ Streams(s, t) /\ UpToDate(t) /\ t.frame = s.frame
               /\ t.known = s.known /\ t.acked = s.acked /\ t.lost = s.lost
               /\ t.verified = s.verified /\ t.peerSums = s.peerSums
               /\ \/ t.published = s.published
                  \/ /\ t.published <= s.known /\ t.published <= s.acked
                     /\ t.published <= s.frame
<1>1. Horizon(s) \in Nat /\ s.published \in Nat
  BY HorizonIs, StreamNumbers
<1>2. PICK k \in Nat :
        /\ k = (IF Frozen(s) THEN s.published ELSE Max({s.published, Horizon(s)}))
        /\ s.published <= k /\ (Frozen(s) => k = s.published)
        /\ ~Frozen(s) => Horizon(s) <= k
        /\ k = s.published \/ k = Horizon(s)
  <2>1. s.published \in Int /\ Horizon(s) \in Int
    BY <1>1
  <2>2. Max({s.published, Horizon(s)}) =
          IF s.published >= Horizon(s) THEN s.published ELSE Horizon(s)
    BY <2>1, MaxOfTwo
  <2> QED BY <1>1, <2>2
<1> DEFINE t == [s EXCEPT !.published = k]
<1>3. Publish(s) = t
  BY <1>2, Zenon DEF Publish
<1>4. /\ t.phase = s.phase /\ t.id = s.id /\ t.first = s.first /\ t.resume = s.resume
      /\ t.snapshot = s.snapshot /\ t.transcript = s.transcript
      /\ t.request = s.request /\ t.frame = s.frame /\ t.peerSums = s.peerSums
      /\ t.verified = s.verified /\ t.published = k /\ t.lost = s.lost
      /\ t.committed = s.committed /\ t.known = s.known /\ t.acked = s.acked
  BY DEF Session
<1> HIDE DEF t
<1>5. Horizon(t) = Horizon(s)
  BY <1>4 DEF Horizon
<1>6. UpToDate(t)
  BY <1>2, <1>4, <1>5 DEF UpToDate, Frozen
<1>7. Streams(s, t)
  BY <1>2, <1>4, SessionNumbers DEF Streams, Frozen
<1>8. k = s.published \/ (k <= s.known /\ k <= s.acked /\ k <= s.frame)
  BY <1>2, HorizonIs
<1> QED BY <1>3, <1>4, <1>6, <1>7, <1>8

LEMMA PublishHost ==
    ASSUME NEW h, NEW j, NEW d, Good(h, j, d), Clean(h, j, d)
    PROVE  LET t == Publish(h)
           IN  Clean(t, j, d) /\ Moved(h, t, d)
<1> DEFINE t == Publish(h)
<1>1. h \in Session /\ j \in Session /\ d \in Nat /\ t \in Session
  BY GoodTypes, PublishStill
<1>2. /\ Streams(h, t) /\ t.frame = h.frame
      /\ t.known = h.known /\ t.acked = h.acked
      /\ t.verified = h.verified /\ t.peerSums = h.peerSums
      /\ \/ t.published = h.published
         \/ /\ t.published <= h.known /\ t.published <= h.acked
            /\ t.published <= h.frame
  BY <1>1, PublishStreams
<1> HIDE DEF t
<1>3. /\ h.published <= h.known /\ h.published <= h.acked /\ h.published <= h.frame
      /\ h.verified <= d /\ h.known <= j.committed
      /\ h.id = j.id => h.verified <= Limit(j)
      /\ h.phase = "none" => h.peerSums <= j.published
  BY DEF Clean, HostClean, Agreed
<1>4. /\ t.published <= t.known /\ t.published <= t.acked /\ t.published <= t.frame
      /\ t.known <= j.committed /\ t.verified <= d
      /\ h.id = j.id => t.verified <= Limit(j)
      /\ h.phase = "none" => t.peerSums <= j.published
  BY <1>2, <1>3
<1>5. Clean(t, j, d) /\ Moved(h, t, d)
  BY <1>1, <1>2, <1>4, StreamHost
<1> QED BY <1>5 DEF t

LEMMA PublishJoin ==
    ASSUME NEW h, NEW j, NEW d, Good(h, j, d), Clean(h, j, d)
    PROVE  LET t == Publish(j)
           IN  Clean(h, t, d) /\ Moved(j, t, d)
<1> DEFINE t == Publish(j)
<1>1. j \in Session /\ t \in Session
  BY GoodTypes, PublishStill
<1>2. /\ Streams(j, t) /\ t.known = j.known
      /\ t.verified = j.verified /\ t.peerSums = j.peerSums
  BY <1>1, PublishStreams
<1> HIDE DEF t
<1>3. /\ j.verified <= d /\ j.known <= h.committed
      /\ h.id = j.id => j.verified <= Limit(h)
      /\ j.phase = "none" /\ h.id = j.id => j.peerSums <= h.published
  BY DEF Clean, JoinClean, Agreed
<1>4. Clean(h, t, d) /\ Moved(j, t, d)
  BY <1>1, <1>2, <1>3, StreamJoin
<1> QED BY <1>4 DEF t

\* The host makes its offer at once when the frame it starts from is settled.
LEMMA PrepareOfferAt ==
    ASSUME NEW s \in Session, s.phase \in Open, s.first < Horizon(s)
    PROVE  LET t == PrepareOffer(s)
           IN  OfferedAt(s, t, s.first) /\ t.lost = s.lost
<1>1. PICK r \in Nat : r = Horizon(s)
  BY HorizonIs
<1>2. /\ s.first \in Nat /\ s.frame \in Nat /\ s.known \in Nat
      /\ r <= s.frame /\ r <= s.known
  BY <1>1, SessionNumbers, HorizonIs
<1>3. /\ s.frame # 0 /\ ~(s.first > s.frame) /\ ~(s.first >= s.known)
      /\ ~(s.first >= r)
  BY <1>1, <1>2
<1> DEFINE t == [Progress(s) EXCEPT
                   !.phase = "offer", !.peerPhase = "none", !.id = @ + 1,
                   !.resume = r, !.snapshot = s.first, !.staged = TRUE,
                   !.transcript = NoTranscript, !.expected = NoTranscript]
<1>4. PrepareOffer(s) = t
  BY <1>1, <1>3, Zenon DEF PrepareOffer, ResumeFrame
<1>5. PICK n \in Nat : n = s.id + 1
  BY SessionNumbers
<1>6. t = [s EXCEPT !.waited = 0,
                    !.phase = "offer", !.peerPhase = "none", !.id = n,
                    !.resume = r, !.snapshot = s.first, !.staged = TRUE,
                    !.transcript = NoTranscript, !.expected = NoTranscript]
  BY <1>5 DEF Progress, Session
<1> HIDE DEF t
<1>7. /\ t.phase = "offer" /\ t.id = n /\ t.first = s.first /\ t.snapshot = s.first
      /\ t.frame = s.frame /\ t.committed = s.committed /\ t.known = s.known
      /\ t.acked = s.acked /\ t.verified = s.verified /\ t.published = s.published
      /\ t.lost = s.lost
  BY <1>6 DEF Session
<1>8. OfferedAt(s, t, s.first)
  BY <1>5, <1>7 DEF OfferedAt
<1> QED BY <1>4, <1>7, <1>8

LEMMA BeginAwaitingFor ==
    ASSUME NEW s \in Session, s.phase = "none", NEW f \in Nat
    PROVE  LET t == BeginAwaiting(s, f)
           IN  AskedFor(s, t, f) /\ t.lost = s.lost
<1> DEFINE t == BeginAwaiting(s, f)
<1>1. t = [s EXCEPT !.waited = 0, !.phase = "request", !.peerPhase = "none",
                    !.request = f, !.first = f, !.resume = f, !.staged = FALSE]
  BY DEF BeginAwaiting, Progress, Session
<1> HIDE DEF t
<1>2. AskedFor(s, t, f) /\ t.lost = s.lost
  BY <1>1 DEF Session, AskedFor
<1> QED BY <1>2 DEF t

LEMMA BeginHostRequestFor ==
    ASSUME NEW s \in Session, s.phase = "none", NEW f \in Nat
    PROVE  LET t == BeginHostRequest(s, f)
           IN  AskedFor(s, t, f) /\ t.lost = s.lost
<1> DEFINE r == BeginAwaiting(s, f)
           t == BeginHostRequest(s, f)
<1>1. r \in Session /\ AskedFor(s, r, f) /\ r.lost = s.lost
  BY BeginAwaitingIs, BeginAwaitingFor
<1>2. t = [r EXCEPT !.peerPhase = "request",
                    !.transcript = NoTranscript, !.expected = NoTranscript]
  BY DEF BeginHostRequest
<1> HIDE DEF r, t
<1>3. AskedFor(s, t, f) /\ t.lost = s.lost
  BY <1>1, <1>2 DEF Session, AskedFor
<1> QED BY <1>3 DEF t

\* The host answers a mismatch of its own with an offer.
LEMMA HostDesync ==
    ASSUME NEW s \in Session, s.phase = "none", NEW f \in Nat, f < Horizon(s)
    PROVE  LET t == Desync(Host, s, f)
           IN  OfferedAt(s, t, f) /\ t.lost = s.lost
<1> DEFINE r == BeginHostRequest(s, f)
           t == PrepareOffer(r)
<1>1. Desync(Host, s, f) = t
  BY DEF Desync, Frozen
<1>2. r \in Session /\ AskedFor(s, r, f) /\ r.lost = s.lost
  BY BeginHostRequestIs, BeginHostRequestFor
<1> HIDE DEF r
<1>3. r.first = f /\ Horizon(r) = Horizon(s) /\ r.phase \in Open
  BY <1>2 DEF AskedFor, Horizon, Open
<1>4. OfferedAt(r, t, f) /\ t.lost = r.lost
  BY <1>2, <1>3, PrepareOfferAt
<1> HIDE DEF t
<1>5. OfferedAt(s, t, f)
  BY <1>2, <1>4 DEF OfferedAt, AskedFor, Open
<1> QED BY <1>1, <1>2, <1>4, <1>5

\* The verified prefix moves, to v.
Checked(s, t, v) ==
    /\ Still(s, t) /\ t.acked = s.acked
    /\ Streams(s, t) /\ t.frame = s.frame /\ t.known = s.known /\ t.lost = s.lost
    /\ t.published = s.published /\ t.peerSums = s.peerSums /\ t.verified = v

LEMMA CheckedIs ==
    ASSUME NEW s \in Session, NEW v \in Nat
    PROVE  LET t == [s EXCEPT !.verified = v]
           IN  t \in Session /\ Checked(s, t, v)
<1> DEFINE t == [s EXCEPT !.verified = v]
<1>1. /\ t \in Session /\ t.verified = v
      /\ t.phase = s.phase /\ t.peerPhase = s.peerPhase /\ t.id = s.id
      /\ t.applied = s.applied /\ t.first = s.first /\ t.resume = s.resume
      /\ t.snapshot = s.snapshot /\ t.transcript = s.transcript
      /\ t.expected = s.expected /\ t.replayed = s.replayed
      /\ t.request = s.request /\ t.published = s.published
      /\ t.frame = s.frame /\ t.peerSums = s.peerSums /\ t.lost = s.lost
      /\ t.committed = s.committed /\ t.known = s.known /\ t.acked = s.acked
  BY DEF Session
<1> HIDE DEF t
<1>2. Still(s, t)
  BY <1>1, SessionNumbers DEF Still
<1>3. Streams(s, t)
  BY <1>1, SessionNumbers, StreamNumbers DEF Streams
<1>4. Checked(s, t, v)
  BY <1>1, <1>2, <1>3 DEF Checked
<1> QED BY <1>1, <1>4 DEF t

\* Of the checksums that both have, those before the divergence agree.
LEMMA CompareChecks ==
    ASSUME NEW p, NEW s \in Session, divergence \in Nat, s.verified <= divergence
    PROVE  LET t == CompareChecksums(p, s)
           IN  \/ \E v \in Nat : /\ t \in Session /\ Checked(s, t, v) /\ v <= divergence
                                 /\ v = s.verified \/ v <= s.peerSums
               \/ /\ divergence < s.peerSums /\ divergence < Horizon(s)
                  /\ \E r \in Session : /\ Checked(s, r, divergence)
                                        /\ t = Desync(p, r, divergence)
<1>1. PICK due \in Nat : /\ due = Min({s.peerSums, Horizon(s)})
                         /\ due <= s.peerSums /\ due <= Horizon(s)
  <2>1. /\ s.peerSums \in Nat /\ Horizon(s) \in Nat
        /\ s.peerSums \in Int /\ Horizon(s) \in Int
    BY HorizonIs, SessionNumbers
  <2> QED BY <2>1, MinOfTwo
<1>2. s.verified \in Nat /\ s.verified \in Int /\ divergence \in Int /\ due \in Int
      /\ s.peerSums \in Nat /\ Horizon(s) \in Nat
  BY StreamNumbers, SessionNumbers, HorizonIs
<1>3. Max({s.verified, divergence}) = divergence
  BY <1>2, MaxOfTwo
<1>4. PICK b \in Nat : /\ b = Max({s.verified, due})
                       /\ b = s.verified \/ b = due
  BY <1>2, MaxOfTwo
<1>5. CASE due > divergence
  <2> DEFINE r == [s EXCEPT !.verified = divergence]
  <2>1. CompareChecksums(p, s) = Desync(p, r, divergence)
    BY <1>1, <1>3, <1>5, Zenon DEF CompareChecksums
  <2>2. r \in Session /\ Checked(s, r, divergence)
    BY CheckedIs
  <2>3. divergence < s.peerSums /\ divergence < Horizon(s)
    BY <1>1, <1>2, <1>5
  <2> HIDE DEF r
  <2> QED BY <2>1, <2>2, <2>3
<1>6. CASE ~ (due > divergence)
  <2>1. CompareChecksums(p, s) = [s EXCEPT !.verified = b]
    BY <1>1, <1>4, <1>6, Zenon DEF CompareChecksums
  <2>2. b <= divergence /\ (b = s.verified \/ b <= s.peerSums)
    BY <1>1, <1>2, <1>4, <1>6
  <2>3. CompareChecksums(p, s) \in Session /\ Checked(s, CompareChecksums(p, s), b)
    BY <2>1, CheckedIs
  <2> QED BY <2>2, <2>3
<1> QED BY <1>5, <1>6

LEMMA CheckedHost ==
    ASSUME NEW h, NEW j, NEW d, Good(h, j, d), Clean(h, j, d), h.phase = "none",
           NEW v \in Nat, v <= d, v = h.verified \/ v <= h.peerSums,
           NEW t \in Session, Checked(h, t, v)
    PROVE  Good(t, j, d) /\ Clean(t, j, d) /\ Moved(h, t, d)
<1>1. h \in Session /\ j \in Session /\ d \in Nat /\ h.acked <= j.known
  BY GoodTypes DEF Good, Pair
<1>2. Good(t, j, d)
  BY <1>1, StillKeepsHost DEF Checked
<1>3. /\ h.published <= h.known /\ h.published <= h.acked /\ h.published <= h.frame
      /\ h.known <= j.committed
      /\ h.id = j.id => h.verified <= Limit(j)
      /\ h.peerSums <= j.published
  BY DEF Clean, HostClean, Agreed
<1>4. h.id = j.id => Limit(j) = j.published
  BY DEF Good, Pair, Together, Limit, Open
<1>5. h.id = j.id => v <= Limit(j)
  BY <1>1, <1>3, <1>4, SessionNumbers, StreamNumbers
<1>6. /\ Streams(h, t) /\ t.known <= j.committed
      /\ t.published <= t.known /\ t.published <= t.acked /\ t.published <= t.frame
      /\ t.verified <= d /\ (h.id = j.id => t.verified <= Limit(j))
      /\ t.peerSums <= j.published
  BY <1>3, <1>5 DEF Checked
<1>7. Clean(t, j, d) /\ Moved(h, t, d)
  BY <1>6, StreamHost
<1> QED BY <1>2, <1>7

LEMMA CheckedJoin ==
    ASSUME NEW h, NEW j, NEW d, Good(h, j, d), Clean(h, j, d), j.phase = "none",
           NEW v \in Nat, v <= d, v = j.verified \/ v <= j.peerSums,
           NEW t \in Session, Checked(j, t, v)
    PROVE  Good(h, t, d) /\ Clean(h, t, d) /\ Moved(j, t, d)
<1>1. h \in Session /\ j \in Session /\ d \in Nat
  BY GoodTypes
<1>2. Good(h, t, d)
  BY <1>1, StillKeepsJoin DEF Checked
<1>3. /\ j.known <= h.committed
      /\ h.id = j.id => j.verified <= Limit(h)
      /\ h.id = j.id => j.peerSums <= h.published
  BY DEF Clean, Agreed
<1>4. h.id = j.id => Limit(h) = h.published
  <2>1. h.id \in Nat /\ j.id \in Nat
    BY <1>1, SessionNumbers
  <2> QED BY <2>1 DEF Good, Pair, Together, Limit, Open
<1>5. h.id = j.id => v <= Limit(h)
  BY <1>1, <1>3, <1>4, SessionNumbers, StreamNumbers
<1>6. /\ Streams(j, t) /\ t.known <= h.committed
      /\ t.verified <= d /\ (h.id = j.id => t.verified <= Limit(h))
      /\ (h.id = j.id => t.peerSums <= h.published)
  BY <1>3, <1>5 DEF Checked
<1>7. Clean(h, t, d) /\ Moved(j, t, d)
  BY <1>6, StreamJoin DEF Checked
<1> QED BY <1>2, <1>7

\* What a comparison does not change is as much up to date as before.
LEMMA CheckedUpToDate ==
    ASSUME NEW s, NEW t, NEW v, Checked(s, t, v), UpToDate(s)
    PROVE  UpToDate(t)
  BY DEF Checked, Streams, UpToDate, Horizon

LEMMA HostComparesCleanly ==
    ASSUME NEW h, NEW j, Good(h, j, divergence), Clean(h, j, divergence),
           h.phase = "none"
    PROVE  LET t == CompareChecksums(Host, h)
           IN  /\ Clean(t, j, divergence) /\ Moved(h, t, divergence)
               /\ t.lost = h.lost /\ (UpToDate(h) => UpToDate(t))
<1> DEFINE t == CompareChecksums(Host, h)
<1>1. h \in Session /\ j \in Session /\ divergence \in Nat /\ h.verified <= divergence
  BY GoodTypes DEF Clean, HostClean
<1>2. CASE \E v \in Nat : /\ t \in Session /\ Checked(h, t, v) /\ v <= divergence
                          /\ v = h.verified \/ v <= h.peerSums
  <2> HIDE DEF t
  <2>1. Clean(t, j, divergence) /\ Moved(h, t, divergence) /\ t.lost = h.lost
    BY <1>2, CheckedHost DEF Checked
  <2> QED BY <1>2, <2>1, CheckedUpToDate DEF t
<1>3. CASE /\ divergence < h.peerSums /\ divergence < Horizon(h)
           /\ \E r \in Session : /\ Checked(h, r, divergence)
                                 /\ t = Desync(Host, r, divergence)
  <2>1. PICK r \in Session : Checked(h, r, divergence) /\ t = Desync(Host, r, divergence)
    BY <1>3
  <2> HIDE DEF t
  <2>2. /\ Good(r, j, divergence) /\ Clean(r, j, divergence)
        /\ Moved(h, r, divergence) /\ r.id = h.id
    <3>1. divergence <= h.peerSums /\ divergence <= divergence
      BY <1>1, <1>3, SessionNumbers
    <3> QED BY <1>1, <2>1, <3>1, CheckedHost DEF Checked, Streams
  <2>3. r.phase = "none" /\ Horizon(r) = Horizon(h) /\ r.lost = h.lost
    BY <2>1 DEF Checked, Streams, Horizon
  <2>4. OfferedAt(r, t, divergence) /\ t.lost = r.lost
    BY <1>1, <1>3, <2>1, <2>3, HostDesync
  <2>5. t \in Session
    BY <2>1, <2>3, <1>1, DesyncIs, BarrierConstants
  <2>6. Clean(t, j, divergence) /\ Moved(r, t, divergence)
    BY <2>2, <2>4, <2>5, OfferedHost
  <2>7. Moved(h, t, divergence)
    BY <1>1, <2>1, <2>2, <2>5, <2>6, MovedOn
  <2>8. UpToDate(t)
    BY <2>4 DEF OfferedAt, UpToDate
  <2> QED BY <2>3, <2>4, <2>6, <2>7, <2>8 DEF t
<1> QED BY <1>1, <1>2, <1>3, CompareChecks

LEMMA JoinComparesCleanly ==
    ASSUME NEW h, NEW j, Good(h, j, divergence), Clean(h, j, divergence),
           j.phase = "none"
    PROVE  LET t == CompareChecksums(Join, j)
           IN  /\ Clean(h, t, divergence) /\ Moved(j, t, divergence)
               /\ t.lost = j.lost /\ (UpToDate(j) => UpToDate(t))
<1> DEFINE t == CompareChecksums(Join, j)
<1>1. h \in Session /\ j \in Session /\ divergence \in Nat /\ j.verified <= divergence
  BY GoodTypes DEF Clean, JoinClean
<1>2. CASE \E v \in Nat : /\ t \in Session /\ Checked(j, t, v) /\ v <= divergence
                          /\ v = j.verified \/ v <= j.peerSums
  <2> HIDE DEF t
  <2>1. Clean(h, t, divergence) /\ Moved(j, t, divergence) /\ t.lost = j.lost
    BY <1>2, CheckedJoin DEF Checked
  <2> QED BY <1>2, <2>1, CheckedUpToDate DEF t
<1>3. CASE /\ divergence < j.peerSums /\ divergence < Horizon(j)
           /\ \E r \in Session : /\ Checked(j, r, divergence)
                                 /\ t = Desync(Join, r, divergence)
  <2>1. PICK r \in Session : Checked(j, r, divergence) /\ t = Desync(Join, r, divergence)
    BY <1>3
  <2> HIDE DEF t
  <2>2. /\ Good(h, r, divergence) /\ Clean(h, r, divergence)
        /\ Moved(j, r, divergence) /\ r.id = j.id
    <3>1. divergence <= j.peerSums /\ divergence <= divergence
      BY <1>1, <1>3, SessionNumbers
    <3> QED BY <1>1, <2>1, <3>1, CheckedJoin DEF Checked, Streams
  <2>3. r.phase = "none" /\ r.lost = j.lost
    BY <2>1 DEF Checked, Streams
  <2>4. t = BeginAwaiting(r, divergence)
    BY <2>1, <2>3, BarrierConstants DEF Desync, Frozen
  <2>5. t \in Session /\ AskedFor(r, t, divergence) /\ t.lost = r.lost
    BY <1>1, <2>1, <2>3, <2>4, BeginAwaitingIs, BeginAwaitingFor
  <2>6. h.id = r.id => divergence < h.published
    BY <1>1, <1>3, <2>2, SessionNumbers, StreamNumbers DEF Clean, Agreed
  <2>7. Clean(h, t, divergence) /\ Moved(r, t, divergence)
    BY <2>2, <2>5, <2>6, AskedJoin
  <2>8. Moved(j, t, divergence)
    BY <1>1, <2>1, <2>2, <2>5, <2>7, MovedOn
  <2>9. UpToDate(t)
    BY <2>5 DEF AskedFor, UpToDate
  <2> QED BY <2>3, <2>5, <2>7, <2>8, <2>9 DEF t
<1> QED BY <1>1, <1>2, <1>3, CompareChecks

-----------------------------------------------------------------------------
(***************************************************************************)
(* The handlers of control packets find nothing wrong.                     *)
(***************************************************************************)
HostTurns(h, t, j, d) == Clean(t, j, d) /\ Moved(h, t, d)

JoinTurns(j, t, h, d) == Clean(h, t, d) /\ Moved(j, t, d)

LEMMA SameTurns ==
    ASSUME NEW h, NEW j, NEW d, Good(h, j, d), Clean(h, j, d)
    PROVE  HostTurns(h, h, j, d) /\ JoinTurns(j, j, h, d)
<1>1. h \in Session /\ j \in Session
  BY GoodTypes
<1>2. Streams(h, h) /\ Streams(j, j)
  BY <1>1, SessionNumbers, StreamNumbers DEF Streams
<1> QED BY <1>1, <1>2, StreamsMoved DEF HostTurns, JoinTurns

LEMMA QuietTurns ==
    ASSUME NEW h, NEW j, NEW d, Good(h, j, d), Clean(h, j, d), NEW t \in Session
    PROVE  /\ Quiet(h, t) /\ t.known = h.known => HostTurns(h, t, j, d)
           /\ Quiet(j, t) /\ t.known = j.known => JoinTurns(j, t, h, d)
<1>1. h.known <= j.committed /\ j.known <= h.committed
  BY KnownIs
<1> QED BY <1>1, QuietHost, QuietJoin DEF HostTurns, JoinTurns

\* A reply to the correction that the host is in, or has just come out of.
LEMMA HostRecalls ==
    ASSUME NEW h, NEW j, NEW d, Good(h, j, d), Clean(h, j, d),
           NEW m, Control(m), Said(j, m), Plain(m), m.to = Host,
           TupleMatches(h, m)
    PROVE  /\ m.phase \in {"receiving", "ready"} => m.sum = <<h.snapshot>>
           /\ m.phase \in {"applied", "releaseAck"} => m.sum = h.transcript
<1>1. /\ h \in Session /\ j \in Session /\ m.id = h.id /\ m.first = h.first
      /\ m.resume = h.resume /\ j.phase \in JoinPhase /\ h.phase \in HostPhase
  BY GoodTypes DEF TupleMatches
<1>2. ASSUME m.phase \notin Open
      PROVE  h.phase # "request" /\ h.id # 0
  <2>1. m.id # 0 /\ m.first < m.resume
    BY <1>2 DEF Plain
  <2>2. h.phase = "request" => h.resume = h.first
    BY DEF Clean, HostClean, Recalls
  <2> QED BY <1>1, <2>1, <2>2, SessionNumbers
<1>3. ASSUME m.phase \in {"receiving", "ready"}
      PROVE  m.sum = <<h.snapshot>>
  <2>1. h.snapshot = h.first
    BY <1>2, <1>3 DEF Clean, HostClean, Recalls, Open
  <2>2. m.sum = <<m.first>>
    BY <1>3 DEF Plain, Open
  <2> QED BY <1>1, <2>1, <2>2
<1>4. ASSUME m.phase \in {"applied", "releaseAck"}
      PROVE  m.sum = h.transcript
  <2>1. Together(h.phase, j.phase) /\ Stage(m.phase) <= Stage(j.phase)
    BY <1>1, HostHears
  <2>2. Stage(m.phase) >= 3
    BY <1>4, StageIs
  <2>3. Stage(j.phase) >= 3
    BY <2>1, <2>2, StageType
  <2>4. j.phase \notin {"receiving", "ready"}
    BY <2>3, StageIs
  <2>5. h.phase \in {"commit", "release", "none"}
    BY <1>1, <1>2, <1>4, <2>1, <2>4 DEF Together, Open, JoinPhase
  <2>6. h.transcript = <<h.id, h.first, h.resume, TRUE>>
    BY <1>2, <1>4, <2>5 DEF Clean, HostClean, Recalls, Open
  <2>7. m.sum = <<m.id, m.first, m.resume, TRUE>>
    BY <1>4 DEF Plain, Open
  <2> QED BY <1>1, <2>6, <2>7
<1> QED BY <1>3, <1>4

LEMMA HostRepliesCleanly ==
    ASSUME NEW h, NEW j, NEW d, Good(h, j, d), Clean(h, j, d),
           NEW m, Control(m), Said(j, m), Plain(m), m.to = Host,
           TupleMatches(h, m)
    PROVE  LET t == HostOnReply(h, m)
           IN  HostTurns(h, t, j, d) /\ t.lost = h.lost
<1> DEFINE t == HostOnReply(h, m)
<1>1. h \in Session /\ t \in Session
  <2>1. HostMoves(h, t, j, d)
    BY HostReplies DEF TupleMatches
  <2> QED BY <2>1, GoodTypes DEF HostMoves
<1>2. /\ m.phase \in {"receiving", "ready"} => m.sum = <<h.snapshot>>
      /\ m.phase \in {"applied", "releaseAck"} => m.sum = h.transcript
  BY HostRecalls
<1>3. CASE t = h
  BY <1>3, SameTurns
<1>4. CASE t # h /\ m.phase \in {"receiving", "ready"}
  <2> DEFINE u == [Progress(h) EXCEPT !.peerPhase = m.phase]
  <2>1. t = u
    BY <1>2, <1>4, Zenon DEF HostOnReply
  <2>2. /\ u.phase = h.phase /\ u.id = h.id /\ u.first = h.first
        /\ u.resume = h.resume /\ u.snapshot = h.snapshot
        /\ u.transcript = h.transcript /\ u.request = h.request
        /\ u.frame = h.frame /\ u.peerSums = h.peerSums
        /\ u.verified = h.verified /\ u.published = h.published
        /\ u.committed = h.committed /\ u.known = h.known /\ u.acked = h.acked
        /\ u.lost = h.lost
    BY <1>1 DEF Progress, Session
  <2> HIDE DEF u, t
  <2>3. Quiet(h, u) /\ u \in Session
    BY <1>1, <2>1, <2>2, SameQuiet
  <2>4. HostTurns(h, u, j, d)
    BY <2>2, <2>3, QuietTurns
  <2> QED BY <2>1, <2>2, <2>4 DEF t
<1>5. CASE t # h /\ m.phase = "applied"
  <2> DEFINE u == [Progress(h) EXCEPT !.phase = "release", !.peerPhase = "applied"]
  <2>1. t = u /\ h.phase = "commit"
    BY <1>2, <1>5 DEF HostOnReply
  <2>2. Rests(h, u) /\ u.phase = "release" /\ u.lost = h.lost
    BY <1>1 DEF Progress, Session, Rests
  <2> HIDE DEF u, t
  <2>3. HostTurns(h, u, j, d)
    BY <1>1, <2>1, <2>2, PhaseHost DEF HostTurns
  <2> QED BY <2>1, <2>2, <2>3 DEF t
<1>6. CASE t # h /\ m.phase = "releaseAck"
  <2> DEFINE u == Finish(h)
  <2>1. t = u /\ h.phase = "release"
    BY <1>2, <1>6 DEF HostOnReply
  <2>2. Rests(h, u) /\ u.phase = "none" /\ u.lost = h.lost
    BY <1>1 DEF Finish, Session, Rests
  <2> HIDE DEF u, t
  <2>3. HostTurns(h, u, j, d)
    BY <1>1, <2>1, <2>2, PhaseHost DEF HostTurns
  <2> QED BY <2>1, <2>2, <2>3 DEF t
<1>7. t # h => m.phase \in {"receiving", "ready", "applied", "releaseAck"}
  BY Zenon DEF HostOnReply
<1> QED BY <1>3, <1>4, <1>5, <1>6, <1>7

\* The frames of a reply are those of the correction that both are in.
LEMMA HostTuple ==
    ASSUME NEW h, NEW j, NEW d, Good(h, j, d),
           NEW m, Control(m), Said(j, m), Plain(m),
           m.phase \notin Open, m.id = h.id, h.phase \notin Open
    PROVE  TupleMatches(h, m)
<1>1. h.id = j.id /\ Together(h.phase, j.phase)
  BY HostHears
<1>2. j.phase \notin Open
  BY <1>1 DEF Together, Open
<1>3. m.first = j.first /\ m.resume = j.resume
  BY <1>1, <1>2 DEF Said
<1>4. h.first = j.first /\ h.resume = j.resume
  BY <1>2 DEF Good, Pair
<1>5. m.ackId = m.id
  BY DEF Plain
<1> QED BY <1>3, <1>4, <1>5 DEF TupleMatches

LEMMA HostControlsCleanly ==
    ASSUME NEW h, NEW j, NEW d, Good(h, j, d), Clean(h, j, d),
           NEW m, Control(m), Said(j, m), Plain(m), Honest(j, m), m.to = Host
    PROVE  LET t == HandleControl(Host, h, m)
           IN  HostTurns(h, t, j, d) /\ t.lost = h.lost
<1> DEFINE t == HandleControl(Host, h, m)
<1>1. h \in Session /\ j \in Session /\ d \in Nat
  BY GoodTypes
<1>2. CASE t = h
  BY <1>2, SameTurns
<1>3. CASE t # h /\ m.phase = "request"
  <2>1. t = HostOnRequest(h, m)
    BY <1>3, BarrierConstants DEF HandleControl
  <2>2. m.id = h.id /\ h.phase = "none" /\ t = BeginHostRequest(h, m.first)
    BY <1>3, <2>1 DEF HostOnRequest, Frozen
  <2>3. h.id = j.id
    BY <2>2, HostHears
  <2>4. j.phase = "request" /\ m.first = j.first
    BY <1>3, <2>2, <2>3 DEF Honest
  <2>5. m.first = d /\ d < h.published
    BY <2>3, <2>4 DEF Clean, JoinClean, Agreed
  <2>6. t \in Session /\ AskedFor(h, t, d) /\ t.lost = h.lost
    BY <1>1, <2>2, <2>5, BeginHostRequestIs, BeginHostRequestFor
  <2> HIDE DEF t
  <2>7. HostTurns(h, t, j, d)
    BY <2>5, <2>6, AskedHost DEF HostTurns
  <2> QED BY <2>6, <2>7 DEF t
<1>4. CASE t # h /\ m.phase \notin {"none", "request"}
  <2>1. /\ m.phase # "offer"
        /\ TupleMatches(h, m) => t = HostOnReply(h, m)
        /\ ~TupleMatches(h, m) => m.id = h.id /\ m.id # h.applied
    BY <1>4, BarrierConstants DEF HandleControl
  <2>2. TupleMatches(h, m)
    <3> SUFFICES ASSUME ~TupleMatches(h, m) PROVE FALSE
      OBVIOUS
    <3>1. h.phase \notin Open
      BY <2>1 DEF Good, HostOwn, Own
    <3> QED BY <1>4, <2>1, <3>1, HostTuple DEF Open
  <2> QED BY <2>1, <2>2, HostRepliesCleanly
<1>5. m.phase = "none" => t = h
  BY BarrierConstants DEF HandleControl
<1> QED BY <1>2, <1>3, <1>4, <1>5

-----------------------------------------------------------------------------
LEMMA JoinTuple ==
    ASSUME NEW h, NEW j, NEW d, Good(h, j, d), Clean(h, j, d),
           NEW m, Control(m), Said(h, m), Plain(m), Honest(h, m),
           m.phase \notin Open, m.id = j.id, j.phase \notin Open
    PROVE  TupleMatches(j, m)
<1>1. h.id = j.id /\ Together(h.phase, j.phase)
  BY JoinHears
<1>2. h.phase \notin Open \/ h.phase = "none"
  BY <1>1 DEF Together, Open
<1>3. m.first = h.first /\ m.resume = h.resume
  BY <1>1, <1>2 DEF Said, Honest
<1>4. h.first = j.first /\ h.resume = j.resume
  BY DEF Good, Pair
<1>5. m.ackId = m.id
  BY DEF Plain
<1> QED BY <1>3, <1>4, <1>5 DEF TupleMatches

LEMMA JoinRecalls ==
    ASSUME NEW h, NEW j, NEW d, Good(h, j, d), Clean(h, j, d),
           NEW m, Control(m), Said(h, m), Plain(m), m.to = Join,
           TupleMatches(j, m)
    PROVE  /\ m.phase = "offer" => m.sum = <<j.snapshot>>
           /\ m.phase = "commit" /\ j.phase \in {"applied", "releaseAck"} =>
                 m.sum = j.transcript
           /\ m.phase = "release" => m.sum = j.transcript
<1>1. /\ h \in Session /\ j \in Session /\ m.id = j.id /\ m.first = j.first
      /\ m.resume = j.resume /\ j.phase \in JoinPhase /\ h.phase \in HostPhase
  BY GoodTypes DEF TupleMatches
<1>2. ASSUME m.phase \notin Open
      PROVE  j.phase # "request" /\ j.id # 0
  <2>1. m.id # 0 /\ m.first < m.resume
    BY <1>2 DEF Plain
  <2>2. j.phase = "request" => j.resume = j.first
    BY DEF Clean, JoinClean, Recalls
  <2> QED BY <1>1, <2>1, <2>2, SessionNumbers
<1>3. ASSUME m.phase = "offer"
      PROVE  m.sum = <<j.snapshot>>
  <2>1. j.snapshot = j.first
    BY <1>2, <1>3 DEF Clean, JoinClean, Recalls, Open
  <2>2. m.sum = <<m.first>>
    BY <1>3 DEF Plain, Open
  <2> QED BY <1>1, <2>1, <2>2
<1>4. ASSUME m.phase \in {"commit", "release"}, j.phase \in {"applied", "releaseAck", "none"}
      PROVE  m.sum = j.transcript
  <2>1. j.transcript = <<j.id, j.first, j.resume, TRUE>>
    BY <1>2, <1>4 DEF Clean, JoinClean, Recalls, Open
  <2>2. m.sum = <<m.id, m.first, m.resume, TRUE>>
    BY <1>4 DEF Plain, Open
  <2> QED BY <1>1, <2>1, <2>2
<1>5. ASSUME m.phase = "release"
      PROVE  j.phase \in {"applied", "releaseAck", "none"}
  <2>1. CASE j.phase \in Open
    BY <1>2, <1>5, <2>1 DEF Open
  <2>2. CASE j.phase \notin Open
    <3>1. Together(h.phase, j.phase) /\ Stage(m.phase) <= Stage(h.phase)
      BY <1>1, <2>2, JoinHears
    <3>2. h.phase \notin {"offer", "commit"}
      BY <1>5, <3>1, StageIs
    <3> QED BY <1>1, <2>2, <3>1, <3>2 DEF Together, Open, HostPhase
  <2> QED BY <2>1, <2>2
<1> QED BY <1>3, <1>4, <1>5

LEMMA JoinRepliesCleanly ==
    ASSUME NEW h, NEW j, NEW d, Good(h, j, d), Clean(h, j, d),
           NEW m, Control(m), Said(h, m), Plain(m), m.to = Join,
           TupleMatches(j, m)
    PROVE  LET t == JoinOnReply(j, m)
           IN  JoinTurns(j, t, h, d) /\ t.lost = j.lost
<1> DEFINE t == JoinOnReply(j, m)
<1>1. j \in Session /\ t \in Session
  <2>1. JoinMoves(j, t, h, d)
    BY JoinReplies DEF TupleMatches
  <2> QED BY <2>1, GoodTypes DEF JoinMoves
<1>2. /\ m.phase = "commit" /\ j.phase \in {"applied", "releaseAck"} =>
            m.sum = j.transcript
      /\ m.phase = "release" => m.sum = j.transcript
  BY JoinRecalls
<1>3. CASE t = j
  BY <1>3, SameTurns
<1>4. CASE t # j /\ m.phase = "commit"
  <2> DEFINE u == [Progress(j) EXCEPT !.expected = m.sum, !.peerPhase = "commit"]
  <2>1. t = u
    BY <1>2, <1>4, Zenon DEF JoinOnReply
  <2>2. /\ u.phase = j.phase /\ u.id = j.id /\ u.first = j.first
        /\ u.resume = j.resume /\ u.snapshot = j.snapshot
        /\ u.transcript = j.transcript /\ u.request = j.request
        /\ u.frame = j.frame /\ u.peerSums = j.peerSums
        /\ u.verified = j.verified /\ u.published = j.published
        /\ u.committed = j.committed /\ u.known = j.known /\ u.acked = j.acked
        /\ u.lost = j.lost
    BY <1>1 DEF Progress, Session
  <2> HIDE DEF u, t
  <2>3. Quiet(j, u) /\ u \in Session
    BY <1>1, <2>1, <2>2, SameQuiet
  <2>4. JoinTurns(j, u, h, d)
    BY <2>2, <2>3, QuietTurns
  <2> QED BY <2>1, <2>2, <2>4 DEF t
<1>5. CASE t # j /\ m.phase # "commit"
  <2> DEFINE u == [Progress(j) EXCEPT !.phase = "releaseAck", !.peerPhase = "release"]
  <2>1. t = u /\ j.phase = "applied"
    BY <1>2, <1>5, Zenon DEF JoinOnReply
  <2>2. Rests(j, u) /\ u.phase = "releaseAck" /\ u.lost = j.lost
    BY <1>1 DEF Progress, Session, Rests
  <2> HIDE DEF u, t
  <2>3. JoinTurns(j, u, h, d)
    BY <1>1, <2>1, <2>2, PhaseJoin DEF JoinTurns
  <2> QED BY <2>1, <2>2, <2>3 DEF t
<1> QED BY <1>3, <1>4, <1>5

\* The joiner takes up the offer on the table, and minds only one that is two
\* corrections old.
LEMMA JoinTakesCleanly ==
    ASSUME NEW h, NEW j, NEW d, Good(h, j, d), Clean(h, j, d),
           NEW m, Control(m), Said(h, m), Plain(m), Honest(h, m), m.to = Join,
           m.phase = "offer"
    PROVE  LET t == JoinOnOffer(j, m)
           IN  /\ JoinTurns(j, t, h, d)
               /\ t.lost = j.lost \/ (t.lost = "protocol" /\ m.id < j.applied)
<1> DEFINE t == JoinOnOffer(j, m)
<1>1. h \in Session /\ j \in Session /\ t \in Session
  <2>1. JoinMoves(j, t, h, d)
    BY JoinTakes
  <2> QED BY <2>1, GoodTypes DEF JoinMoves
<1>2. h.id \in Nat /\ j.id \in Nat /\ m.id \in Nat /\ m.id <= h.id
  BY <1>1, SessionNumbers DEF Control, Said
<1>3. h.id = j.id \/ h.id = j.id + 1
  BY DEF Good, Pair
<1>4. CASE t = j
  BY <1>4, SameTurns
<1>5. CASE t = Disconnect(j, "protocol")
  <2>1. Quiet(j, t) /\ t.known = j.known /\ t.lost = "protocol"
    <3> DEFINE u == Disconnect(j, "protocol")
    <3>1. Quiet(j, u) /\ u.lost = "protocol"
      BY <1>1, DisconnectQuiet
    <3>2. u.known = j.known
      BY <1>1, DisconnectStill DEF Ending
    <3> HIDE DEF u, t
    <3> QED BY <1>5, <3>1, <3>2 DEF u
  <2> HIDE DEF t
  <2>2. JoinTurns(j, t, h, d)
    BY <1>1, <2>1, QuietTurns
  <2>3. CASE t = j
    BY <1>4, <2>3 DEF t
  <2>4. CASE t # j
    <3>1. \/ /\ m.id = j.id /\ j.phase \in {"receiving", "ready", "applied", "releaseAck"}
             /\ ~(TupleMatches(j, m) /\ m.sum = <<j.snapshot>>)
          \/ /\ j.phase \in Open /\ m.id # j.id + 1 /\ m.id # j.applied
          \/ /\ j.phase = "request" /\ m.id = j.id + 1 /\ m.first # j.request
          \/ t = [Progress(j) EXCEPT
                   !.phase = "receiving", !.peerPhase = "offer", !.id = m.id,
                   !.request = m.first, !.first = m.first, !.resume = m.resume,
                   !.snapshot = m.sum[1], !.staged = FALSE,
                   !.transcript = NoTranscript, !.expected = NoTranscript]
             /\ j.phase \in Open
      BY <2>4, Zenon DEF t, JoinOnOffer, Open
    <3>2. CASE /\ m.id = j.id /\ j.phase \in {"receiving", "ready", "applied", "releaseAck"}
               /\ ~(TupleMatches(j, m) /\ m.sum = <<j.snapshot>>)
      <4>1. TupleMatches(j, m)
        BY <3>2, JoinTuple DEF Open
      <4>2. m.sum = <<j.snapshot>>
        BY <4>1, JoinRecalls
      <4> QED BY <3>2, <4>1, <4>2
    <3>3. CASE j.phase \in Open /\ m.id # j.id + 1 /\ m.id # j.applied
      <4>1. j.applied = j.id
        BY <3>3 DEF Good, JoinOwn, Own
      <4>2. m.id < j.applied
        BY <1>2, <1>3, <3>3, <4>1
      <4> QED BY <2>1, <2>2, <4>2 DEF t
    <3>4. CASE j.phase = "request" /\ m.id = j.id + 1 /\ m.first # j.request
      <4>1. h.id = m.id /\ h.phase = "offer"
        BY <1>2, <1>3, <3>4 DEF Good, Pair
      <4>2. m.first = h.first
        BY <4>1 DEF Said, Open
      <4>3. h.first = d /\ j.request = d
        BY <3>4, <4>1 DEF Clean, HostClean, JoinClean
      <4> QED BY <3>4, <4>2, <4>3
    <3>5. CASE /\ t = [Progress(j) EXCEPT
                        !.phase = "receiving", !.peerPhase = "offer", !.id = m.id,
                        !.request = m.first, !.first = m.first, !.resume = m.resume,
                        !.snapshot = m.sum[1], !.staged = FALSE,
                        !.transcript = NoTranscript, !.expected = NoTranscript]
               /\ j.phase \in Open
      <4>1. t.phase = "receiving"
        BY <1>1, <3>5 DEF Progress, Session
      <4>2. t.phase = j.phase
        BY <2>1 DEF Quiet, Streams
      <4> QED BY <3>5, <4>1, <4>2 DEF Open
    <3> QED BY <3>1, <3>2, <3>3, <3>4, <3>5
  <2> QED BY <2>3, <2>4
<1>6. CASE t # j /\ t # Disconnect(j, "protocol")
  <2> DEFINE u == [Progress(j) EXCEPT
                     !.phase = "receiving", !.peerPhase = "offer", !.id = m.id,
                     !.request = m.first, !.first = m.first, !.resume = m.resume,
                     !.snapshot = m.sum[1], !.staged = FALSE,
                     !.transcript = NoTranscript, !.expected = NoTranscript]
  <2>1. t = u /\ j.phase \in Open /\ m.id = j.id + 1
    BY <1>6, Zenon DEF JoinOnOffer, Open
  <2>2. h.id = m.id /\ h.phase = "offer"
    BY <1>2, <1>3, <2>1 DEF Good, Pair
  <2>3. m.first = h.first /\ m.resume = h.resume /\ m.sum = <<h.snapshot>>
    BY <2>2 DEF Said, Open
  <2>4. m.sum[1] = h.snapshot
    BY <2>3
  <2>5. /\ u.phase = "receiving" /\ u.id = m.id /\ u.first = m.first
        /\ u.resume = m.resume /\ u.snapshot = m.sum[1] /\ u.verified = j.verified
        /\ u.committed = j.committed /\ u.known = j.known /\ u.lost = j.lost
    BY <1>1 DEF Progress, Session
  <2> HIDE DEF u, t
  <2>6. JoinTurns(j, u, h, d)
    BY <1>1, <2>1, <2>2, <2>3, <2>4, <2>5, TakenJoin DEF JoinTurns
  <2> QED BY <2>1, <2>5, <2>6 DEF t
<1> QED BY <1>4, <1>5, <1>6

LEMMA JoinControlsCleanly ==
    ASSUME NEW h, NEW j, NEW d, Good(h, j, d), Clean(h, j, d),
           NEW m, Control(m), Said(h, m), Plain(m), Honest(h, m), m.to = Join
    PROVE  LET t == HandleControl(Join, j, m)
           IN  /\ JoinTurns(j, t, h, d)
               /\ \/ t.lost = j.lost
                  \/ t.lost = "protocol" /\ m.phase = "offer" /\ m.id < j.applied
               /\ m.phase = "none" => t.id = j.id
<1> DEFINE t == HandleControl(Join, j, m)
<1>1. h \in Session /\ j \in Session /\ t \in Session
  <2>1. JoinMoves(j, t, h, d)
    BY JoinControls
  <2> QED BY <2>1, GoodTypes DEF JoinMoves
<1>2. CASE t = j
  BY <1>2, SameTurns
<1>3. CASE t # j /\ m.phase = "none"
  <2> DEFINE u == Finish(j)
  <2>1. t = JoinOnNone(j, m)
    BY <1>3, BarrierConstants DEF HandleControl
  <2>2. t = u /\ j.phase = "releaseAck"
    BY <1>3, <2>1 DEF JoinOnNone
  <2>3. Rests(j, u) /\ u.phase = "none" /\ u.lost = j.lost /\ u.id = j.id
    BY <1>1 DEF Finish, Session, Rests
  <2> HIDE DEF u, t
  <2>4. JoinTurns(j, u, h, d)
    BY <1>1, <2>2, <2>3, PhaseJoin DEF JoinTurns
  <2> QED BY <2>2, <2>3, <2>4 DEF t
<1>4. CASE m.phase = "offer"
  <2>1. t = JoinOnOffer(j, m)
    BY <1>4, BarrierConstants DEF HandleControl
  <2> QED BY <1>4, <2>1, JoinTakesCleanly
<1>5. CASE t # j /\ m.phase \notin {"none", "offer"}
  <2>1. /\ m.phase # "request"
        /\ TupleMatches(j, m) => t = JoinOnReply(j, m)
        /\ ~TupleMatches(j, m) => m.id = j.id /\ m.id # j.applied
    BY <1>5, BarrierConstants DEF HandleControl
  <2>2. TupleMatches(j, m)
    <3> SUFFICES ASSUME ~TupleMatches(j, m) PROVE FALSE
      OBVIOUS
    <3>1. j.phase \notin Open
      BY <2>1 DEF Good, JoinOwn, Own
    <3> QED BY <1>5, <2>1, <3>1, JoinTuple DEF Open
  <2> QED BY <1>5, <2>1, <2>2, JoinRepliesCleanly
<1> QED BY <1>2, <1>3, <1>4, <1>5

-----------------------------------------------------------------------------
(***************************************************************************)
(* The handler of packets.                                                 *)
(***************************************************************************)
LEMMA SumsStreams ==
    ASSUME NEW s \in Session, NEW n \in Nat
    PROVE  LET t == [s EXCEPT !.peerSums = n]
           IN  /\ t \in Session /\ Streams(s, t) /\ t.frame = s.frame
               /\ t.known = s.known /\ t.acked = s.acked /\ t.lost = s.lost
               /\ t.published = s.published /\ t.verified = s.verified
               /\ t.peerSums = n /\ t.phase = s.phase /\ t.id = s.id
<1> DEFINE t == [s EXCEPT !.peerSums = n]
<1>1. /\ t \in Session /\ t.phase = s.phase /\ t.id = s.id /\ t.first = s.first
      /\ t.resume = s.resume /\ t.snapshot = s.snapshot
      /\ t.transcript = s.transcript /\ t.request = s.request
      /\ t.published = s.published /\ t.frame = s.frame /\ t.peerSums = n
      /\ t.lost = s.lost /\ t.verified = s.verified
      /\ t.committed = s.committed /\ t.known = s.known /\ t.acked = s.acked
  BY DEF Session
<1> HIDE DEF t
<1>2. Streams(s, t)
  BY <1>1, SessionNumbers, StreamNumbers DEF Streams
<1> QED BY <1>1, <1>2 DEF t

LEMMA SumsMax ==
    ASSUME NEW s \in Session, NEW m, Control(m)
    PROVE  \E n \in Nat : /\ n = Max({s.peerSums, m.sums})
                          /\ n = s.peerSums \/ n = m.sums
<1>1. /\ s.peerSums \in Nat /\ m.sums \in Nat
      /\ s.peerSums \in Int /\ m.sums \in Int
  BY SessionNumbers DEF Control
<1> QED BY <1>1, MaxOfTwo

\* What the host knows of a packet of the joiner, and the joiner of one of the
\* host.
Heard(o, r, m, d) ==
    Control(m) /\ Said(o, m) /\ Plain(m) /\ Honest(o, m) /\ Bounded(r, m, d)

LEMMA HostEnvelope ==
    ASSUME NEW h, NEW j, NEW d, Good(h, j, d), Clean(h, j, d),
           NEW m, Heard(j, h, m, d)
    PROVE  ValidEnvelope(h, m)
<1>1. h \in Session /\ j \in Session
  BY GoodTypes
<1>2. m.known <= h.committed
  <2>1. m.known <= j.known /\ j.known <= h.committed /\ m.known \in Nat
    BY KnownIs DEF Heard, Said, Control
  <2> QED BY <1>1, <2>1, SessionNumbers
<1>3. SameStream(h, m) => m.verified <= h.published
  BY DEF SameStream, Frozen, Heard, Bounded, Limit
<1> QED BY <1>2, <1>3 DEF ValidEnvelope

LEMMA JoinEnvelope ==
    ASSUME NEW h, NEW j, NEW d, Good(h, j, d), Clean(h, j, d),
           NEW m, Heard(h, j, m, d)
    PROVE  ValidEnvelope(j, m)
<1>1. h \in Session /\ j \in Session
  BY GoodTypes
<1>2. m.known <= j.committed
  <2>1. m.known <= h.known /\ h.known <= j.committed /\ m.known \in Nat
    BY KnownIs DEF Heard, Said, Control
  <2> QED BY <1>1, <2>1, SessionNumbers
<1>3. SameStream(j, m) => m.verified <= j.published
  BY DEF SameStream, Frozen, Heard, Bounded, Limit
<1> QED BY <1>2, <1>3 DEF ValidEnvelope

LEMMA HostHandlesCleanly ==
    ASSUME NEW h, NEW j, Good(h, j, divergence), Clean(h, j, divergence),
           NEW m, m.kind # "chunk" => Heard(j, h, m, divergence) /\ m.to = Host
    PROVE  LET t == HandlePacket(Host, h, m)
           IN  HostTurns(h, t, j, divergence) /\ t.lost = h.lost
<1>1. h \in Session /\ j \in Session /\ h.acked <= j.known
  BY GoodTypes DEF Good, Pair
<1>2. CASE m.kind = "chunk"
  <2> DEFINE t == JoinOnChunk(h, m)
  <2>1. HandlePacket(Host, h, m) = t
    BY <1>2 DEF HandlePacket
  <2>2. t \in Session /\ Quiet(h, t) /\ t.known = h.known /\ t.lost = h.lost
    BY <1>1, ChunkStill, ChunkQuiet
  <2> HIDE DEF t
  <2> QED BY <2>1, <2>2, QuietTurns
<1>3. CASE m.kind # "chunk"
  <2> DEFINE n == NoteInputs(h, m)
             c == HandleControl(Host, n, m)
             t == NoteChecksums(Host, c, m)
  <2>0. Heard(j, h, m, divergence) /\ m.to = Host /\ Control(m) /\ Said(j, m)
    BY <1>3 DEF Heard
  <2>1. HandlePacket(Host, h, m) = t
    BY <1>3, <2>0, HostEnvelope DEF HandlePacket
  <2>2. n \in Session /\ Still(h, n) /\ n.acked <= j.known /\ n.lost = h.lost
    BY <1>1, <2>0, NoteStill DEF Said
  <2>3. Quiet(h, n) /\ n.known <= j.committed
    <3>1. h.known <= j.committed /\ m.inputs <= j.committed
      BY <2>0, KnownIs DEF Heard, Honest
    <3> QED BY <1>1, <2>0, <3>1, NoteQuiet
  <2> HIDE DEF n
  <2>4. Good(n, j, divergence)
    BY <1>1, <2>2, StillKeepsHost
  <2>5. Clean(n, j, divergence) /\ Moved(h, n, divergence)
    BY <2>2, <2>3, QuietHost
  <2>6. HostTurns(n, c, j, divergence) /\ c.lost = n.lost
    BY <2>0, <2>4, <2>5, HostControlsCleanly DEF Heard
  <2>7. HostMoves(n, c, j, divergence) /\ (m.phase = "none" => c = n)
    BY <2>0, <2>4, HostControls
  <2> HIDE DEF c
  <2>8. c \in Session
    BY <2>7, GoodTypes DEF HostMoves
  <2>9. HostTurns(n, t, j, divergence) /\ t.lost = n.lost /\ t \in Session
    <3>1. CASE t = c
      BY <2>6, <2>8, <3>1
    <3>2. CASE t # c
      <4>1. PICK k \in Nat : /\ k = Max({c.peerSums, m.sums})
                             /\ k = c.peerSums \/ k = m.sums
        BY <2>0, <2>8, SumsMax
      <4> DEFINE q == [c EXCEPT !.peerSums = k]
      <4>2. SameStream(c, m) /\ m.phase = "none" /\ t = CompareChecksums(Host, q)
        BY <3>2, <4>1, Zenon DEF NoteChecksums
      <4>3. c = n /\ m.id = n.id /\ n.phase = "none"
        BY <2>7, <4>2 DEF SameStream, Frozen
      <4>4. n.id = j.id /\ j.phase \in Open
        <5>1. n.id = j.id /\ Together(n.phase, j.phase) /\ Stage(m.phase) <= Stage(j.phase)
          BY <2>0, <2>4, <4>3, HostHears
        <5> QED BY <4>2, <4>3, <5>1, StageIs DEF Together, Open
      <4>5. /\ q \in Session /\ Streams(n, q) /\ q.frame = n.frame
            /\ q.known = n.known /\ q.acked = n.acked /\ q.lost = n.lost
            /\ q.published = n.published /\ q.verified = n.verified
            /\ q.peerSums = k /\ q.phase = "none" /\ q.id = n.id
        BY <2>2, <4>3, SumsStreams
      <4>6. Good(q, j, divergence)
        BY <2>4, <4>3, <4>4, SumsKeepHost
      <4> HIDE DEF q
      <4>7. k <= j.published
        <5>1. n.peerSums <= j.published
          BY <2>5, <4>3 DEF Clean, Agreed
        <5>2. m.sums <= j.published
          BY <2>0, <4>2, <4>3, <4>4 DEF Heard, Honest
        <5> QED BY <4>1, <4>3, <5>1, <5>2
      <4>8. Clean(q, j, divergence) /\ Moved(n, q, divergence)
        <5>1. /\ n.published <= n.known /\ n.published <= n.acked
              /\ n.published <= n.frame /\ n.verified <= divergence
              /\ n.known <= j.committed
              /\ n.id = j.id => n.verified <= Limit(j)
          BY <2>5 DEF Clean, HostClean, Agreed
        <5> QED BY <2>4, <2>5, <4>5, <4>7, <5>1, StreamHost
      <4>9. Clean(t, j, divergence) /\ Moved(q, t, divergence) /\ t.lost = q.lost
        BY <4>2, <4>5, <4>6, <4>8, HostComparesCleanly
      <4>10. t \in Session
        <5>1. HostMoves(q, t, j, divergence)
          BY <4>2, <4>4, <4>5, <4>6, HostCompares
        <5> QED BY <5>1, GoodTypes DEF HostMoves
      <4> QED BY <2>2, <4>5, <4>8, <4>9, <4>10, MovedOn DEF HostTurns
    <3> QED BY <3>1, <3>2
  <2> HIDE DEF t
  <2>10. n.id = h.id
    BY <2>3 DEF Quiet, Streams
  <2>11. HostTurns(h, t, j, divergence)
    BY <1>1, <2>2, <2>5, <2>9, <2>10, MovedOn DEF HostTurns
  <2> QED BY <2>1, <2>2, <2>9, <2>11
<1> QED BY <1>2, <1>3

LEMMA JoinHandlesCleanly ==
    ASSUME NEW h, NEW j, Good(h, j, divergence), Clean(h, j, divergence),
           NEW m, m.kind # "chunk" => Heard(h, j, m, divergence) /\ m.to = Join
    PROVE  LET t == HandlePacket(Join, j, m)
           IN  /\ JoinTurns(j, t, h, divergence)
               /\ \/ t.lost = j.lost
                  \/ /\ t.lost = "protocol" /\ m.kind # "chunk"
                     /\ m.phase = "offer" /\ m.id < j.applied
<1>1. h \in Session /\ j \in Session
  BY GoodTypes
<1>2. CASE m.kind = "chunk"
  <2> DEFINE t == JoinOnChunk(j, m)
  <2>1. HandlePacket(Join, j, m) = t
    BY <1>2 DEF HandlePacket
  <2>2. t \in Session /\ Quiet(j, t) /\ t.known = j.known /\ t.lost = j.lost
    BY <1>1, ChunkStill, ChunkQuiet
  <2> HIDE DEF t
  <2> QED BY <2>1, <2>2, QuietTurns
<1>3. CASE m.kind # "chunk"
  <2> DEFINE n == NoteInputs(j, m)
             c == HandleControl(Join, n, m)
             t == NoteChecksums(Join, c, m)
  <2>0. Heard(h, j, m, divergence) /\ m.to = Join /\ Control(m) /\ Said(h, m)
    BY <1>3 DEF Heard
  <2>1. HandlePacket(Join, j, m) = t
    BY <1>3, <2>0, JoinEnvelope DEF HandlePacket
  <2>2. n \in Session /\ Still(j, n) /\ n.lost = j.lost
    BY <1>1, <2>0, NoteStill
  <2>3. Quiet(j, n) /\ n.known <= h.committed
    <3>1. j.known <= h.committed /\ m.inputs <= h.committed
      BY <2>0, KnownIs DEF Heard, Honest
    <3> QED BY <1>1, <2>0, <3>1, NoteQuiet
  <2> HIDE DEF n
  <2>4. Good(h, n, divergence)
    BY <1>1, <2>2, StillKeepsJoin
  <2>5. Clean(h, n, divergence) /\ Moved(j, n, divergence)
    BY <2>2, <2>3, QuietJoin
  <2>6. /\ JoinTurns(n, c, h, divergence)
        /\ \/ c.lost = n.lost
           \/ c.lost = "protocol" /\ m.phase = "offer" /\ m.id < n.applied
        /\ m.phase = "none" => c.id = n.id
    BY <2>0, <2>4, <2>5, JoinControlsCleanly DEF Heard
  <2>7. JoinMoves(n, c, h, divergence)
    BY <2>0, <2>4, JoinControls
  <2> HIDE DEF c
  <2>8. c \in Session /\ Good(h, c, divergence) /\ Clean(h, c, divergence)
    BY <2>6, <2>7, GoodTypes DEF JoinMoves, JoinTurns
  <2>9. /\ JoinTurns(n, t, h, divergence) /\ t \in Session
        /\ \/ t.lost = n.lost
           \/ t.lost = "protocol" /\ m.phase = "offer" /\ m.id < n.applied
    <3>1. CASE t = c
      BY <2>6, <2>8, <3>1
    <3>2. CASE t # c
      <4>1. PICK k \in Nat : /\ k = Max({c.peerSums, m.sums})
                             /\ k = c.peerSums \/ k = m.sums
        BY <2>0, <2>8, SumsMax
      <4> DEFINE q == [c EXCEPT !.peerSums = k]
      <4>2. SameStream(c, m) /\ m.phase = "none" /\ t = CompareChecksums(Join, q)
        BY <3>2, <4>1, Zenon DEF NoteChecksums
      <4>3. c.phase = "none" /\ m.id = c.id /\ c.id = n.id /\ c.lost = n.lost
        BY <2>6, <4>2 DEF SameStream, Frozen
      <4>4. /\ q \in Session /\ Streams(c, q) /\ q.frame = c.frame
            /\ q.known = c.known /\ q.lost = c.lost
            /\ q.published = c.published /\ q.verified = c.verified
            /\ q.peerSums = k /\ q.phase = "none" /\ q.id = c.id
        BY <2>8, <4>3, SumsStreams
      <4>5. Good(h, q, divergence)
        BY <2>8, SumsKeepJoin
      <4> HIDE DEF q
      <4>6. h.id = c.id => k <= h.published
        <5>1. h.id = c.id => c.peerSums <= h.published
          BY <2>8, <4>3 DEF Clean, Agreed
        <5>2. h.id = c.id => m.sums <= h.published
          BY <2>0, <4>2, <4>3 DEF Heard, Honest
        <5> QED BY <4>1, <5>1, <5>2
      <4>7. Clean(h, q, divergence) /\ Moved(c, q, divergence)
        <5>1. /\ c.verified <= divergence /\ c.known <= h.committed
              /\ h.id = c.id => c.verified <= Limit(h)
          BY <2>8 DEF Clean, JoinClean, Agreed
        <5> QED BY <2>8, <4>3, <4>4, <4>6, <5>1, StreamJoin
      <4>8. Clean(h, t, divergence) /\ Moved(q, t, divergence) /\ t.lost = q.lost
        BY <4>2, <4>4, <4>5, <4>7, JoinComparesCleanly
      <4>9. t \in Session
        <5>1. JoinMoves(q, t, h, divergence)
          BY <4>2, <4>4, <4>5, JoinCompares
        <5> QED BY <5>1, GoodTypes DEF JoinMoves
      <4>10. Moved(n, q, divergence)
        BY <2>2, <2>6, <2>8, <4>3, <4>4, <4>7, MovedOn DEF JoinTurns
      <4>11. Moved(n, t, divergence)
        BY <2>2, <4>3, <4>4, <4>8, <4>9, <4>10, MovedOn
      <4> QED BY <4>3, <4>4, <4>8, <4>9, <4>11 DEF JoinTurns
    <3> QED BY <3>1, <3>2
  <2> HIDE DEF t
  <2>10. n.id = j.id /\ n.applied = j.applied
    BY <2>2 DEF Still
  <2>11. JoinTurns(j, t, h, divergence)
    BY <1>1, <2>2, <2>5, <2>9, <2>10, MovedOn DEF JoinTurns
  <2> QED BY <1>3, <2>1, <2>2, <2>9, <2>10, <2>11
<1> QED BY <1>2, <1>3

-----------------------------------------------------------------------------
(***************************************************************************)
(* The packets of a clean session, and the ones on the way while the       *)
(* sessions move.                                                          *)
(***************************************************************************)
CleanFits(p, s, d) ==
    IF p = Host THEN Clean(s, peer[Join], d) ELSE Clean(peer[Host], s, d)

\* A packet that p may have sent with its session at t.
Fair(p, t, d, m) ==
    m.kind = "control" =>
        m.to = Other(p) /\ Plain(m) /\ Honest(t, m) /\ Bounded(peer[Other(p)], m, d)

LEMMA PlainPacket ==
    ASSUME NEW p \in Peer, NEW s, NEW c, Fits(p, s, c), CleanFits(p, s, c)
    PROVE  Plain(Packet(p, s))
<1> DEFINE m == Packet(p, s)
<1>1. /\ m.to = Other(p) /\ m.phase = s.phase /\ m.id = s.id
      /\ m.ackId = (IF Frozen(s) THEN s.id ELSE s.applied)
      /\ m.first = (IF Frozen(s) THEN s.first ELSE 0)
      /\ m.resume = (IF Frozen(s) THEN s.resume ELSE 0)
      /\ m.sum = AckChecksum(s)
  BY DEF Packet
<1> HIDE DEF m
<1>2. s \in Session /\ Own(s) /\ Recalls(s)
  <2>1. CASE p = Host
    BY <2>1 DEF Fits, CleanFits, Good, HostOwn, Own, Clean, HostClean
  <2>2. CASE p = Join
    BY <2>2, BarrierConstants DEF Fits, CleanFits, Good, JoinOwn, Own, Clean, JoinClean
  <2> QED BY <2>1, <2>2, BarrierConstants
<1>3. m.phase \in IF m.to = Host THEN JoinPhase ELSE HostPhase
  <2>1. CASE p = Host
    BY <1>1, <2>1, FitsTypes, BarrierConstants
  <2>2. CASE p = Join
    BY <1>1, <2>2, FitsTypes, BarrierConstants
  <2> QED BY <2>1, <2>2, BarrierConstants
<1>4. ASSUME m.phase \notin Open
      PROVE  /\ m.id # 0 /\ m.ackId = m.id /\ m.first < m.resume
             /\ m.phase \in {"offer", "receiving", "ready"} => m.sum = <<m.first>>
             /\ m.phase \in {"commit", "release", "applied", "releaseAck"} =>
                   m.sum = <<m.id, m.first, m.resume, TRUE>>
  <2>1. s.phase \notin Open /\ Frozen(s) /\ s.phase # "none" /\ s.phase # "request"
    BY <1>1, <1>4 DEF Open, Frozen
  <2>2. s.applied + 1 = s.id /\ s.first < s.resume /\ s.id # 0
    BY <1>2, <2>1, SessionNumbers DEF Own
  <2>3. m.ackId = s.id /\ m.first = s.first /\ m.resume = s.resume
    BY <1>1, <2>1
  <2>4. s.snapshot = s.first
    BY <1>2, <2>1, <2>2 DEF Recalls
  <2>5. s.phase \in {"offer", "receiving", "ready"} => m.sum = <<s.first>>
    BY <1>1, <2>4 DEF AckChecksum
  <2>6. s.phase \in {"commit", "release", "applied", "releaseAck"} =>
           m.sum = <<s.id, s.first, s.resume, TRUE>>
    BY <1>1, <1>2 DEF AckChecksum, Recalls
  <2> QED BY <1>1, <2>2, <2>3, <2>5, <2>6
<1>5. Plain(m)
  BY <1>3, <1>4 DEF Plain
<1> QED BY <1>5 DEF m

LEMMA HonestPacket ==
    ASSUME NEW p \in Peer, NEW s \in Session, UpToDate(s)
    PROVE  Honest(s, Packet(p, s))
<1> DEFINE m == Packet(p, s)
<1>1. m.inputs <= s.committed
  <2>1. /\ s.committed \in Nat /\ s.acked + PacketInputs \in Nat
        /\ s.committed \in Int /\ s.acked + PacketInputs \in Int
    BY SessionNumbers, BarrierConstants
  <2>2. m.inputs = Min({s.committed, s.acked + PacketInputs})
    BY DEF Packet
  <2> HIDE DEF m
  <2> QED BY <2>1, <2>2, MinOfTwo
<1>2. /\ m.phase = s.phase /\ m.id = s.id
      /\ m.first = (IF Frozen(s) THEN s.first ELSE 0)
      /\ m.resume = (IF Frozen(s) THEN s.resume ELSE 0)
      /\ m.sums = (IF Frozen(s) THEN 0 ELSE Horizon(s))
  BY DEF Packet
<1> HIDE DEF m
<1>3. Honest(s, m)
  BY <1>1, <1>2 DEF Honest, UpToDate, Frozen, Open
<1> QED BY <1>3 DEF m

LEMMA BoundedPacket ==
    ASSUME NEW p \in Peer, NEW s, NEW c, Fits(p, s, c), CleanFits(p, s, c)
    PROVE  Bounded(peer[Other(p)], Packet(p, s), c)
<1> DEFINE m == Packet(p, s)
<1>1. m.id = s.id /\ m.verified = s.verified
  BY DEF Packet
<1> HIDE DEF m
<1>2. Bounded(peer[Other(p)], m, c)
  <2>1. CASE p = Host
    BY <1>1, <2>1, BarrierConstants DEF CleanFits, Clean, HostClean, Agreed, Bounded
  <2>2. CASE p = Join
    BY <1>1, <2>2, BarrierConstants DEF CleanFits, Clean, JoinClean, Agreed, Bounded
  <2> QED BY <2>1, <2>2, BarrierConstants
<1> QED BY <1>2 DEF m

LEMMA FairPacket ==
    ASSUME NEW p \in Peer, NEW s, NEW c, Fits(p, s, c), CleanFits(p, s, c), UpToDate(s)
    PROVE  Fair(p, s, c, Packet(p, s))
<1>1. s \in Session
  BY FitsTypes
<1>2. Packet(p, s).to = Other(p)
  BY DEF Packet
<1> QED BY <1>1, <1>2, PlainPacket, HonestPacket, BoundedPacket DEF Fair

\* What was true of the sender of a packet stays true while it moves on.
LEMMA HonestLater ==
    ASSUME NEW s \in Session, NEW t \in Session, NEW m, Control(m), NEW d,
           Honest(s, m), Said(s, m), Later(s, t), Moved(s, t, d)
    PROVE  Honest(t, m)
<1>1. m.inputs <= t.committed
  BY SessionNumbers DEF Honest, Later, Control
<1>2. ASSUME m.id = t.id
      PROVE  /\ m.phase = "none" => m.sums <= t.published
             /\ m.phase = "request" => t.phase = "request" /\ m.first = t.first
             /\ m.phase \notin Open /\ t.phase = "none" =>
                   m.first = t.first /\ m.resume = t.resume
  <2>1. s.id = t.id /\ m.id = s.id /\ Stage(m.phase) <= Stage(s.phase)
    BY <1>2, SessionNumbers DEF Said, Later, Control
  <2>2. m.phase = "none" => m.sums <= t.published
    <3> SUFFICES ASSUME m.phase = "none" PROVE m.sums <= t.published
      OBVIOUS
    <3>1. s.phase \in Open
      BY <2>1, SessionNumbers, StageOpen, StageType
    <3>2. m.sums <= s.published /\ s.published <= t.published
      BY <2>1, <3>1 DEF Honest, Moved
    <3> QED BY <3>2, StreamNumbers DEF Control
  <2>3. m.phase = "request" => t.phase = "request" /\ m.first = t.first
    BY <2>1 DEF Honest, Moved
  <2>4. m.phase \notin Open /\ t.phase = "none" =>
           m.first = t.first /\ m.resume = t.resume
    <3> SUFFICES ASSUME m.phase \notin Open, t.phase = "none"
                 PROVE  m.first = t.first /\ m.resume = t.resume
      OBVIOUS
    <3>1. s.phase # "request" /\ t.first = s.first /\ t.resume = s.resume
      BY <2>1 DEF Moved
    <3>2. m.first = s.first /\ m.resume = s.resume
      BY <2>1, <3>1 DEF Honest, Said, Open
    <3> QED BY <3>1, <3>2
  <2> QED BY <2>2, <2>3, <2>4
<1> QED BY <1>1, <1>2 DEF Honest

LEMMA BoundedLater ==
    ASSUME NEW r \in Session, NEW t \in Session, NEW m, Control(m),
           NEW d \in Nat, NEW c,
           Bounded(r, m, d), Moved(r, t, d), m.id <= r.id + 1,
           c = d \/ m.id <= r.id
    PROVE  Bounded(t, m, c)
<1>1. r.id \in Nat /\ t.id \in Nat /\ m.id \in Nat /\ m.verified \in Nat
      /\ Limit(r) \in Nat /\ Limit(t) \in Nat
  BY SessionNumbers, StreamNumbers DEF Control
<1>2. t.id = r.id \/ (t.id = r.id + 1 /\ Limit(t) = d)
  BY DEF Moved
<1>3. m.id = t.id => m.verified <= Limit(t)
  BY <1>1, <1>2 DEF Bounded, Moved
<1>4. m.id = t.id + 1 => m.verified <= c
  BY <1>1, <1>2 DEF Bounded
<1> QED BY <1>3, <1>4 DEF Bounded

\* The receiver's correction number is at most one behind a packet's.
LEMMA NumbersMeet ==
    ASSUME NEW p \in Peer, NEW s, NEW c, Fits(p, s, c)
    PROVE  /\ peer[Other(p)] \in Session /\ s \in Session
           /\ s.id <= peer[Other(p)].id + 1
           /\ peer[Other(p)].id <= s.id + 1
<1>1. CASE p = Host
  <2>1. Good(s, peer[Join], c)
    BY <1>1 DEF Fits
  <2>2. s \in Session /\ peer[Join] \in Session
    BY <2>1, GoodTypes
  <2>3. s.id = peer[Join].id \/ s.id = peer[Join].id + 1
    BY <2>1 DEF Good, Pair
  <2> QED BY <1>1, <2>2, <2>3, SessionNumbers, BarrierConstants
<1>2. CASE p = Join
  <2>1. Good(peer[Host], s, c)
    BY <1>2, BarrierConstants DEF Fits
  <2>2. s \in Session /\ peer[Host] \in Session
    BY <2>1, GoodTypes
  <2>3. peer[Host].id = s.id \/ peer[Host].id = s.id + 1
    BY <2>1 DEF Good, Pair
  <2> QED BY <1>2, <2>2, <2>3, SessionNumbers, BarrierConstants
<1> QED BY <1>1, <1>2, BarrierConstants

\* Packets of p at s, once it stands at t.
LEMMA FairLater ==
    ASSUME NEW p \in Peer, NEW s, NEW d, Fits(p, s, d), NEW t \in Session,
           NEW m, m.kind = "control" => Control(m) /\ Said(s, m),
           Fair(p, s, d, m), Later(s, t), Moved(s, t, d),
           NEW c, c = d \/ s.id = peer[Other(p)].id
    PROVE  Fair(p, t, c, m)
<1> SUFFICES ASSUME m.kind = "control"
             PROVE  m.to = Other(p) /\ Plain(m) /\ Honest(t, m)
                    /\ Bounded(peer[Other(p)], m, c)
  BY DEF Fair
<1>1. s \in Session /\ peer[Other(p)] \in Session
  BY NumbersMeet
<1>2. m.to = Other(p) /\ Plain(m) /\ Honest(s, m) /\ Bounded(peer[Other(p)], m, d)
  BY DEF Fair
<1>3. Honest(t, m)
  BY <1>1, <1>2, HonestLater
<1>4. m.id <= s.id
  BY <1>1, SessionNumbers DEF Said, Control
<1>5. Bounded(peer[Other(p)], m, c)
  BY <1>1, <1>2, <1>4, SessionNumbers DEF Bounded, Control
<1> QED BY <1>2, <1>3, <1>5

-----------------------------------------------------------------------------
(***************************************************************************)
(* The steps, cleanly.                                                     *)
(***************************************************************************)
\* How a session that goes on may come to an end without a packet's doing.
Ended(s, t) ==
    \/ t.lost = s.lost
    \/ t.lost = "timeout"
    \/ t.lost = "transcript" /\ t.replayed = <<t.id, FALSE>>

\* Session s of p moves to t: both go with the other peer's session, and the
\* divergence stays where it is unless both have the same correction.
Turns(p, s, t) ==
    /\ CleanFits(p, t, divergence') /\ Moved(s, t, divergence)
    /\ divergence' = divergence \/ s.id = peer[Other(p)].id

CleanStep(p, t) ==
    /\ peer' = [peer EXCEPT ![p] = t]
    /\ Turns(p, peer[p], t)
    /\ \A m \in net' : m \in net \/ Fair(p, t, divergence', m)
    /\ \/ Ended(peer[p], t)
       \/ p = Join /\ t.lost = "protocol" /\ \E m \in net \ net' : Outdated(m)

LEMMA PeerCleanFits ==
    ASSUME CleanInv, NEW p \in Peer
    PROVE  CleanFits(p, peer[p], divergence)
  BY BarrierConstants DEF CleanInv, CleanFits

LEMMA TurnsFit ==
    ASSUME NEW p \in Peer, NEW s, NEW t, NEW d
    PROVE  /\ HostTurns(s, t, peer[Join], d) /\ p = Host =>
                 CleanFits(p, t, d) /\ Moved(s, t, d)
           /\ JoinTurns(s, t, peer[Host], d) /\ p = Join =>
                 CleanFits(p, t, d) /\ Moved(s, t, d)
  BY BarrierConstants DEF HostTurns, JoinTurns, CleanFits

LEMMA MessageHeard ==
    ASSUME BarrierInv, CleanInv, NEW m \in net
    PROVE  m.kind # "chunk" => Heard(peer[Other(m.to)], peer[m.to], m, divergence)
  BY DEF BarrierInv, Carried, CleanInv, Heard

LEMMA ReceivesCleanly ==
    ASSUME BarrierInv, CleanInv, NEW p \in Peer, Receive(p)
    PROVE  \E t : CleanStep(p, t)
<1>1. PICK m \in net :
        /\ m.to = p
        /\ \E s \in {HandlePacket(p, peer[p], m)} :
             /\ peer' = [peer EXCEPT ![p] = s]
             /\ IF s.phase = "request" /\ p = Join /\ ~Frozen(peer[p])
                THEN net' \in Sent(net \ {m}, Packet(p, s))
                ELSE net' = net \ {m}
  BY DEF Receive
<1> DEFINE t == HandlePacket(p, peer[p], m)
<1>2. /\ peer' = [peer EXCEPT ![p] = t] /\ divergence' = divergence
      /\ \/ net' = net \ {m}
         \/ t.phase = "request" /\ net' \in Sent(net \ {m}, Packet(p, t))
  BY <1>1 DEF Receive
<1>3. /\ m.kind # "chunk" => Heard(peer[Other(p)], peer[p], m, divergence)
      /\ m.kind # "chunk" => Control(m) /\ Said(peer[Other(p)], m)
  BY <1>1, MessageHeard DEF Heard
<1>4. Good(peer[Host], peer[Join], divergence) /\ Clean(peer[Host], peer[Join], divergence)
  BY DEF BarrierInv, CleanInv
<1>5. /\ Fits(p, t, divergence) /\ CleanFits(p, t, divergence)
      /\ Moved(peer[p], t, divergence)
      /\ \/ t.lost = peer[p].lost
         \/ /\ p = Join /\ t.lost = "protocol" /\ m.kind # "chunk"
            /\ m.phase = "offer" /\ m.id < peer[Join].applied
  <2>1. CASE p = Host
    <3>1. HostTurns(peer[p], t, peer[Join], divergence) /\ t.lost = peer[p].lost
      BY <1>1, <1>3, <1>4, <2>1, HostHandlesCleanly, BarrierConstants
    <3>2. Fits(p, t, divergence)
      BY <1>3, <1>4, <2>1, HostHandles, BarrierConstants DEF Fits, HostMoves
    <3> QED BY <2>1, <3>1, <3>2, TurnsFit
  <2>2. CASE p = Join
    <3>1. /\ JoinTurns(peer[p], t, peer[Host], divergence)
          /\ \/ t.lost = peer[p].lost
             \/ /\ t.lost = "protocol" /\ m.kind # "chunk"
                /\ m.phase = "offer" /\ m.id < peer[Join].applied
      BY <1>1, <1>3, <1>4, <2>2, JoinHandlesCleanly, BarrierConstants
    <3>2. Fits(p, t, divergence)
      BY <1>3, <1>4, <2>2, JoinHandles, BarrierConstants DEF Fits, JoinMoves
    <3> QED BY <2>2, <3>1, <3>2, TurnsFit
  <2> QED BY <2>1, <2>2, BarrierConstants
<1> HIDE DEF t
<1>6. \A x \in net' : x \in net \ {m} \/ (t.phase = "request" /\ x = Packet(p, t))
  BY <1>2, SentIs
<1>7. \A x \in net' : x \in net \/ Fair(p, t, divergence', x)
  <2>1. t.phase = "request" => Fair(p, t, divergence, Packet(p, t))
    BY <1>5, FairPacket DEF UpToDate
  <2> QED BY <1>2, <1>6, <2>1
<1>8. \/ Ended(peer[p], t)
      \/ p = Join /\ t.lost = "protocol" /\ \E x \in net \ net' : Outdated(x)
  <2>1. CASE t.lost = peer[p].lost
    BY <2>1 DEF Ended
  <2>2. CASE /\ p = Join /\ t.lost = "protocol" /\ m.kind # "chunk" /\ m.phase = "offer"
             /\ m.id < peer[Join].applied
    <3>1. m.kind = "control"
      BY <2>2 DEF BarrierInv, Carried
    <3>2. Outdated(m)
      BY <1>1, <2>2, <3>1 DEF Outdated
    <3>3. Packet(p, t).to = Host
      BY <2>2, BarrierConstants DEF Packet
    <3>4. m \notin net'
      BY <1>1, <1>6, <2>2, <3>3, BarrierConstants
    <3> QED BY <2>2, <3>2, <3>4
  <2> QED BY <1>5, <2>1, <2>2
<1> QED BY <1>2, <1>5, <1>7, <1>8 DEF CleanStep, Turns

-----------------------------------------------------------------------------
\* The session a tick starts from, after its own moves.
Poised(p, q) ==
    /\ Fits(p, q, divergence) /\ CleanFits(p, q, divergence) /\ UpToDate(q)
    /\ Moved(peer[p], q, divergence) /\ q.id = peer[p].id /\ q.lost = peer[p].lost

LEMMA BecomesCleanly ==
    ASSUME BarrierInv, CleanInv, NEW p \in Peer,
           NEW q, Poised(p, q), NEW links, Sends(p, q, links),
           NEW t, Fits(p, t, divergence'), Later(q, t), Turns(p, q, t), Ended(q, t),
           peer' = [peer EXCEPT ![p] = t],
           \A x \in net' : x \in links \/ Fair(p, t, divergence', x)
    PROVE  CleanStep(p, t)
<1>1. peer[p] \in Session /\ q \in Session /\ t \in Session
  BY PeerFits, FitsTypes DEF Poised
<1>2. Turns(p, peer[p], t)
  BY <1>1, MovedOn DEF Turns, Poised
<1>3. Ended(peer[p], t)
  BY DEF Ended, Poised
<1>4. Fair(p, t, divergence', Packet(p, q)) /\ Fair(p, t, divergence', Chunk(q))
  <2>1. Packet(p, q).kind = "control" => Control(Packet(p, q)) /\ Said(q, Packet(p, q))
    BY <1>1, PacketIs
  <2>2. Fits(p, q, divergence) /\ Fair(p, q, divergence, Packet(p, q))
    BY FairPacket DEF Poised
  <2>3. Moved(q, t, divergence) /\ (divergence' = divergence \/ q.id = peer[Other(p)].id)
    BY DEF Turns
  <2>4. Fair(p, t, divergence', Packet(p, q))
    BY <1>1, <2>1, <2>2, <2>3, FairLater
  <2>5. Fair(p, t, divergence', Chunk(q))
    BY DEF Fair, Chunk
  <2> QED BY <2>4, <2>5
<1>5. \A m \in net' : m \in net \/ Fair(p, t, divergence', m)
  BY <1>4 DEF Sends
<1> QED BY <1>2, <1>3, <1>5 DEF CleanStep

\* A packet goes out on the spot when the phase has changed.
LEMMA BecomeSays ==
    ASSUME NEW p \in Peer, NEW t, NEW links, Become(p, t, links)
    PROVE  /\ peer' = [peer EXCEPT ![p] = t] /\ divergence' = divergence
           /\ \A x \in net' : \/ x \in links
                              \/ x = Packet(p, t) /\ t.lost = ""
  BY SentIs DEF Become

\* A step that leaves the divergence alone.
LEMMA BecomeIsClean ==
    ASSUME BarrierInv, CleanInv, NEW p \in Peer,
           NEW q, Poised(p, q), NEW links, Sends(p, q, links),
           NEW t, PeerMoves(p, q, t, divergence), CleanFits(p, t, divergence),
           Moved(q, t, divergence), Ended(q, t), t.lost = "" => UpToDate(t),
           Become(p, t, links)
    PROVE  CleanStep(p, t)
<1>1. /\ peer' = [peer EXCEPT ![p] = t] /\ divergence' = divergence
      /\ \A x \in net' : x \in links \/ (x = Packet(p, t) /\ t.lost = "")
  BY BecomeSays
<1>2. Fits(p, t, divergence) /\ Later(q, t)
  BY DEF PeerMoves
<1>3. t.lost = "" => Fair(p, t, divergence, Packet(p, t))
  BY <1>2, FairPacket
<1>4. Turns(p, q, t)
  BY <1>1 DEF Turns
<1> QED BY <1>1, <1>2, <1>3, <1>4, BecomesCleanly

LEMMA HorizonReaches ==
    ASSUME NEW s \in Session, NEW n \in Nat,
           n <= s.known, n <= s.acked, n <= s.frame
    PROVE  n <= Horizon(s)
<1> DEFINE T == {s.known, s.acked, s.frame}
<1>1. T \subseteq Int /\ T # {} /\ n \in Int /\ \A x \in T : n <= x
  BY SessionNumbers
<1>2. Min(T) \in T
  <2> HIDE DEF T
  <2> QED BY <1>1, MinOfBounded
<1> QED BY <1>1, <1>2 DEF Horizon

\* A replay: the stream starts over, and the transcript says what came out.
LEMMA ReplayIs ==
    ASSUME NEW s \in Session, NEW exact \in BOOLEAN
    PROVE  LET r == Replay(s, exact)
           IN  /\ r \in Session /\ Restarted(s, r) /\ r.phase = s.phase
               /\ r.transcript = <<s.id, s.first, s.resume, exact>>
               /\ r.replayed = <<s.id, exact>> /\ r.expected = s.expected
               /\ r.lost = s.lost
<1> DEFINE r == Replay(s, exact)
<1>1. PICK c \in Nat : c = Max({s.committed, s.resume + InputDelay}) /\ s.committed <= c
  <2>1. s.committed \in Nat /\ s.resume + InputDelay \in Nat
    BY BarrierConstants, SMTT(30) DEF Session
  <2> QED BY <2>1, MaxOfTwo
<1>2. r = [s EXCEPT !.frame = s.resume, !.committed = c,
                    !.verified = s.first, !.published = s.first, !.peerSums = 0,
                    !.transcript = <<s.id, s.first, s.resume, exact>>,
                    !.replayed = <<s.id, exact>>]
  BY <1>1 DEF Replay, Session
<1> HIDE DEF r
<1>3. <<s.id, s.first, s.resume, exact>> \in Transcript /\ <<s.id, exact>> \in Nat \X BOOLEAN
  BY SessionNumbers DEF Transcript
<1>4. /\ r.frame = s.resume /\ r.committed = c /\ r.verified = s.first
      /\ r.published = s.first /\ r.peerSums = 0
      /\ r.transcript = <<s.id, s.first, s.resume, exact>>
      /\ r.replayed = <<s.id, exact>> /\ r.expected = s.expected
      /\ r.lost = s.lost /\ r.phase = s.phase /\ r.id = s.id /\ r.first = s.first
      /\ r.resume = s.resume /\ r.snapshot = s.snapshot /\ r.request = s.request
      /\ r.known = s.known /\ r.acked = s.acked
  BY <1>2 DEF Session
<1>5. r \in Session
  BY <1>1, <1>2, <1>3 DEF Session
<1>6. Restarted(s, r)
  BY <1>1, <1>4, SessionNumbers DEF Restarted
<1> QED BY <1>4, <1>5, <1>6 DEF r

\* The clock starts over in the phase that follows.
LEMMA EntersIs ==
    ASSUME NEW s \in Session, NEW x \in Phase
    PROVE  LET t == [Progress(s) EXCEPT !.phase = x]
           IN  /\ t \in Session /\ Rests(s, t) /\ t.phase = x /\ t.lost = s.lost
               /\ t.replayed = s.replayed
               /\ \A q : Restarted(q, s) => Restarted(q, t)
<1> DEFINE t == [Progress(s) EXCEPT !.phase = x]
<1>1. t = [s EXCEPT !.waited = 0, !.phase = x]
  BY DEF Progress, Session
<1> HIDE DEF t
<1>2. /\ t \in Session /\ Rests(s, t) /\ t.phase = x /\ t.lost = s.lost
      /\ t.replayed = s.replayed
  BY <1>1 DEF Session, Rests
<1>3. \A q : Restarted(q, s) => Restarted(q, t)
  BY <1>2 DEF Restarted, Rests
<1> QED BY <1>2, <1>3 DEF t

\* The joiner's replay ends the correction unless it comes out different.
LEMMA AppliesCleanly ==
    ASSUME NEW h, NEW j, NEW d, Good(h, j, d), Clean(h, j, d), MayApply(j),
           NEW exact \in BOOLEAN
    PROVE  LET t == Applied(Replay(j, exact))
           IN  Clean(h, t, d) /\ Moved(j, t, d) /\ Ended(j, t) /\ t.phase # "none"
<1> DEFINE r == Replay(j, exact)
           t == Applied(r)
<1>1. j \in Session /\ h \in Session /\ j.phase = "ready" /\ j.peerPhase = "commit"
  BY GoodTypes DEF MayApply
<1>2. /\ r \in Session /\ Restarted(j, r) /\ r.phase = "ready" /\ r.lost = j.lost
      /\ r.transcript = <<j.id, j.first, j.resume, exact>>
      /\ r.replayed = <<j.id, exact>> /\ r.expected = j.expected
  BY <1>1, ReplayIs
<1> HIDE DEF r
<1>3. r.id = j.id /\ r.first = j.first /\ r.resume = j.resume
  BY <1>2 DEF Restarted
<1>4. j.expected = <<j.id, j.first, j.resume, TRUE>>
  <2>1. /\ h.phase = "commit" /\ j.expected = h.transcript
        /\ h.id = j.id /\ h.first = j.first /\ h.resume = j.resume
    BY <1>1 DEF Good, Pair, Open
  <2>2. h.transcript = <<h.id, h.first, h.resume, TRUE>>
    BY <2>1 DEF Good, HostOwn
  <2> QED BY <2>1, <2>2
<1>5. ASSUME r.transcript = r.expected
      PROVE  Clean(h, t, d) /\ Moved(j, t, d) /\ Ended(j, t) /\ t.phase # "none"
  <2> DEFINE u == [Progress(r) EXCEPT !.phase = "applied"]
  <2>1. t = u
    BY <1>5 DEF Applied
  <2>2. /\ u \in Session /\ Rests(r, u) /\ u.phase = "applied" /\ u.lost = r.lost
        /\ Restarted(j, u)
    BY <1>2, EntersIs DEF Phase
  <2> HIDE DEF u
  <2>3. u.transcript = <<u.id, u.first, u.resume, TRUE>>
    BY <1>2, <1>3, <1>4, <1>5, <2>2 DEF Rests
  <2>4. Clean(h, u, d) /\ Moved(j, u, d)
    BY <2>2, <2>3, RestartedJoin
  <2>5. Ended(j, u)
    BY <1>2, <2>2 DEF Ended
  <2> QED BY <2>1, <2>2, <2>4, <2>5
<1>6. ASSUME r.transcript # r.expected
      PROVE  Clean(h, t, d) /\ Moved(j, t, d) /\ Ended(j, t) /\ t.phase # "none"
  <2>1. t = Disconnect(r, "transcript")
    BY <1>6 DEF Applied
  <2>2. exact = FALSE
    BY <1>2, <1>4, <1>6
  <2> HIDE DEF t
  <2>3. t \in Session /\ Still(r, t) /\ Quiet(r, t) /\ t.lost = "transcript"
    BY <1>2, <2>1, DisconnectStill, DisconnectQuiet DEF Ending
  <2>4. Restarted(j, t) /\ t.phase = "ready" /\ t.id = j.id /\ t.replayed = <<j.id, FALSE>>
    <3>1. /\ t.known = r.known /\ t.acked = r.acked /\ t.committed = r.committed
      BY <1>2, <2>1, DisconnectStill DEF Ending
    <3>2. Restarted(j, t)
      BY <1>2, <2>3, <3>1 DEF Restarted, Quiet, Streams
    <3> QED BY <1>2, <1>3, <2>2, <2>3, <3>2 DEF Still
  <2>5. Clean(h, t, d) /\ Moved(j, t, d)
    BY <2>3, <2>4, RestartedJoin
  <2>6. Ended(j, t)
    BY <2>3, <2>4 DEF Ended
  <2> QED BY <2>4, <2>5, <2>6
<1> QED BY <1>5, <1>6 DEF r

LEMMA CommitsCleanly ==
    ASSUME NEW h, NEW j, NEW d, Good(h, j, d), Clean(h, j, d), MayCommit(h),
           NEW c \in Nat, h.resume <= c
    PROVE  LET t == [Progress(Replay(h, TRUE)) EXCEPT !.phase = "commit"]
           IN  Clean(t, j, c) /\ Moved(h, t, d) /\ t.lost = h.lost /\ t.phase = "commit"
<1> DEFINE r == Replay(h, TRUE)
           t == [Progress(r) EXCEPT !.phase = "commit"]
<1>1. h \in Session
  BY GoodTypes
<1>2. /\ r \in Session /\ Restarted(h, r) /\ r.lost = h.lost
      /\ r.transcript = <<h.id, h.first, h.resume, TRUE>>
  BY <1>1, ReplayIs
<1> HIDE DEF r
<1>3. /\ t \in Session /\ Rests(r, t) /\ t.phase = "commit" /\ t.lost = r.lost
      /\ Restarted(h, t)
  BY <1>2, EntersIs DEF Phase
<1> HIDE DEF t
<1>4. t.transcript = <<t.id, t.first, t.resume, TRUE>>
  BY <1>2, <1>3 DEF Rests, Restarted
<1>5. Clean(t, j, c) /\ Moved(h, t, d)
  BY <1>3, <1>4, RestartedHost
<1>6. t.lost = h.lost /\ t.phase = "commit"
  BY <1>2, <1>3
<1> QED BY <1>5, <1>6 DEF t, r

LEMMA OffersCleanly ==
    ASSUME NEW h, NEW j, NEW d, Good(h, j, d), Clean(h, j, d), h.phase = "request"
    PROVE  LET t == PrepareOffer(h)
           IN  Clean(t, j, d) /\ Moved(h, t, d) /\ t.lost = h.lost /\ t.phase = "offer"
<1> DEFINE t == PrepareOffer(h)
<1>1. h \in Session /\ d \in Nat
  BY GoodTypes
<1>2. /\ h.first = d /\ d < h.published /\ h.published <= h.known
      /\ h.published <= h.acked /\ h.published <= h.frame
  BY DEF Clean, HostClean
<1>3. h.published <= Horizon(h)
  BY <1>1, <1>2, StreamNumbers, HorizonReaches
<1>4. h.first < Horizon(h)
  BY <1>1, <1>2, <1>3, HorizonIs, StreamNumbers
<1>5. OfferedAt(h, t, d) /\ t.lost = h.lost /\ t \in Session
  BY <1>1, <1>2, <1>4, PrepareOfferAt, PrepareOfferIs DEF Open
<1> HIDE DEF t
<1>6. Clean(t, j, d) /\ Moved(h, t, d)
  BY <1>5, OfferedHost
<1>7. t.phase = "offer"
  BY <1>5 DEF OfferedAt
<1> QED BY <1>5, <1>6, <1>7 DEF t

LEMMA ReadiesCleanly ==
    ASSUME NEW h, NEW j, NEW d, Good(h, j, d), Clean(h, j, d), j.phase = "receiving"
    PROVE  LET t == [Progress(j) EXCEPT !.phase = "ready"]
           IN  Clean(h, t, d) /\ Moved(j, t, d) /\ t.lost = j.lost /\ t.phase = "ready"
<1> DEFINE t == [Progress(j) EXCEPT !.phase = "ready"]
<1>1. t \in Session /\ Rests(j, t) /\ t.phase = "ready" /\ t.lost = j.lost
  BY GoodTypes, EntersIs DEF Phase
<1> HIDE DEF t
<1>2. Clean(h, t, d) /\ Moved(j, t, d)
  BY <1>1, PhaseJoin
<1> QED BY <1>1, <1>2 DEF t

-----------------------------------------------------------------------------
LEMMA CorrectsCleanly ==
    ASSUME BarrierInv, CleanInv, NEW p \in Peer, NEW q, Poised(p, q),
           NEW links, Sends(p, q, links), Correct(p, q, links)
    PROVE  \E t : CleanStep(p, t)
<1>1. q \in Session /\ Fits(p, q, divergence) /\ CleanFits(p, q, divergence)
  BY FitsTypes DEF Poised
<1>2. ASSUME NEW t, PeerMoves(p, q, t, divergence), CleanFits(p, t, divergence),
             Moved(q, t, divergence), Ended(q, t), t.phase # "none" \/ t = q,
             Become(p, t, links)
      PROVE  CleanStep(p, t)
  <2>1. t.lost = "" => UpToDate(t)
    BY <1>2 DEF UpToDate, Poised
  <2> QED BY <1>2, <2>1, BecomeIsClean
<1>3. /\ PeerMoves(p, q, q, divergence) /\ Moved(q, q, divergence) /\ Ended(q, q)
  <2>1. Still(q, q)
    BY <1>1, SessionNumbers DEF Still
  <2>2. Moved(q, q, divergence)
    BY <1>1, SessionNumbers, StreamNumbers DEF Moved
  <2> QED BY <1>1, <2>1, <2>2, StillMoves DEF Ended
<1>4. CASE p = Host
  <2>1. Good(q, peer[Join], divergence) /\ Clean(q, peer[Join], divergence)
    BY <1>1, <1>4 DEF Fits, CleanFits
  <2>2. CASE MayCommit(q)
    <3> DEFINE t == [Progress(Replay(q, TRUE)) EXCEPT !.phase = "commit"]
    <3>1. Commit(q, links)
      BY <1>4, <2>2 DEF Correct
    <3>2. /\ peer' = [peer EXCEPT ![Host] = t]
          /\ net' \in Sent(links, Packet(Host, t))
          /\ divergence' \in {MaxFrame} \cup
               (IF q.id < MaxCorrections THEN q.resume .. (MaxFrame - 1) ELSE {})
      BY <3>1 DEF Commit
    <3>3. divergence' \in Nat /\ q.resume <= divergence'
      <4>1. q.resume \in Nat /\ q.resume <= MaxFrame /\ MaxFrame \in Nat
        BY <1>1, <2>1, <2>2, SessionNumbers, BarrierConstants
           DEF Good, HostOwn, Own, MayCommit, Open
      <4> QED BY <3>2, <4>1
    <3>4. Good(t, peer[Join], divergence') /\ Later(q, t)
      BY <2>1, <2>2, <3>3, CommitKeepsHost
    <3>5. /\ Clean(t, peer[Join], divergence') /\ Moved(q, t, divergence)
          /\ t.lost = q.lost /\ t.phase = "commit"
      BY <2>1, <2>2, <3>3, CommitsCleanly
    <3> HIDE DEF t
    <3>6. q.id = peer[Other(p)].id
      BY <1>4, <2>1, <2>2, BarrierConstants DEF Good, Pair, MayCommit
    <3>7. Fits(p, t, divergence') /\ CleanFits(p, t, divergence') /\ UpToDate(t)
      BY <1>4, <3>4, <3>5 DEF Fits, CleanFits, UpToDate
    <3>8. Turns(p, q, t) /\ Ended(q, t)
      BY <3>5, <3>6, <3>7 DEF Turns, Ended
    <3>9. Fair(p, t, divergence', Packet(p, t))
      BY <3>7, FairPacket
    <3>10. \A x \in net' : x \in links \/ Fair(p, t, divergence', x)
      BY <1>4, <3>2, <3>9, SentIs
    <3>11. peer' = [peer EXCEPT ![p] = t]
      BY <1>4, <3>2
    <3> QED BY <3>4, <3>7, <3>8, <3>10, <3>11, BecomesCleanly
  <2>3. CASE ~MayCommit(q) /\ q.phase = "request"
    <3> DEFINE t == PrepareOffer(q)
    <3>1. Become(p, t, links)
      BY <1>4, <2>3 DEF Correct
    <3>2. /\ Clean(t, peer[Join], divergence) /\ Moved(q, t, divergence)
          /\ t.lost = q.lost /\ t.phase = "offer"
      BY <2>1, <2>3, OffersCleanly
    <3>3. t \in Session /\ (t = q \/ t = Disconnect(q, "boundary") \/ Offered(q, t))
      BY <1>1, <2>3, PrepareOfferIs DEF Open
    <3> HIDE DEF t
    <3>4. Offered(q, t)
      <4>1. t # Disconnect(q, "boundary")
        BY <1>1, <2>3, <3>2 DEF Disconnect, Session
      <4> QED BY <2>3, <3>2, <3>3, <4>1
    <3>5. peer[Join].phase \in Open
      BY <2>1, <2>3 DEF Good, Pair, Together, Open
    <3>6. PeerMoves(p, q, t, divergence)
      BY <1>4, <2>1, <3>3, <3>4, <3>5, OfferedKeepsHost, BarrierConstants
         DEF PeerMoves, Fits
    <3>7. CleanFits(p, t, divergence) /\ Ended(q, t)
      BY <1>4, <3>2 DEF CleanFits, Ended
    <3> QED BY <1>2, <3>1, <3>2, <3>6, <3>7
  <2>4. CASE ~MayCommit(q) /\ q.phase # "request"
    <3>1. Become(p, q, links)
      BY <1>4, <2>4 DEF Correct
    <3> QED BY <1>1, <1>2, <1>3, <3>1
  <2> QED BY <2>2, <2>3, <2>4
<1>5. CASE p = Join
  <2>1. /\ Good(peer[Host], q, divergence) /\ p # Host
        /\ Clean(peer[Host], q, divergence)
    BY <1>1, <1>5, BarrierConstants DEF Fits, CleanFits
  <2>2. CASE MayApply(q)
    <3>1. PICK exact \in setting.faithful : Become(p, Applied(Replay(q, exact)), links)
      BY <2>1, <2>2 DEF Correct
    <3>2. exact \in BOOLEAN
      <4>1. setting.faithful \subseteq BOOLEAN
        BY SettingType DEF BarrierInv
      <4> QED BY <3>1, <4>1, Zenon
    <3> DEFINE t == Applied(Replay(q, exact))
    <3>3. Good(peer[Host], t, divergence) /\ Later(q, t) /\ Turn(q, t, peer[Host])
      BY <2>1, <2>2, <3>2, ApplyKeepsJoin
    <3>4. /\ Clean(peer[Host], t, divergence) /\ Moved(q, t, divergence)
          /\ Ended(q, t) /\ t.phase # "none"
      BY <2>1, <2>2, <3>2, AppliesCleanly
    <3>5. Become(p, t, links)
      BY <3>1
    <3> HIDE DEF t
    <3>6. PeerMoves(p, q, t, divergence)
      BY <1>5, <2>1, <3>3, BarrierConstants DEF PeerMoves, Fits
    <3>7. CleanFits(p, t, divergence)
      BY <2>1, <3>4 DEF CleanFits
    <3> QED BY <1>2, <3>4, <3>5, <3>6, <3>7
  <2>3. CASE ~MayApply(q) /\ MayBeReady(q)
    <3> DEFINE t == [Progress(q) EXCEPT !.phase = "ready"]
    <3>1. Become(p, t, links)
      BY <2>1, <2>3, Zenon DEF Correct
    <3>2. Good(peer[Host], t, divergence) /\ Later(q, t) /\ Turn(q, t, peer[Host])
      BY <2>1, <2>3, ReadyKeepsJoin DEF MayBeReady
    <3>3. /\ Clean(peer[Host], t, divergence) /\ Moved(q, t, divergence)
          /\ t.lost = q.lost /\ t.phase = "ready"
      BY <2>1, <2>3, ReadiesCleanly DEF MayBeReady
    <3> HIDE DEF t
    <3>4. PeerMoves(p, q, t, divergence)
      BY <1>5, <2>1, <3>2, BarrierConstants DEF PeerMoves, Fits
    <3>5. CleanFits(p, t, divergence) /\ Ended(q, t)
      BY <2>1, <3>3 DEF CleanFits, Ended
    <3> QED BY <1>2, <3>1, <3>3, <3>4, <3>5
  <2>4. CASE ~MayApply(q) /\ ~MayBeReady(q)
    <3>1. Become(p, q, links)
      BY <2>1, <2>4 DEF Correct
    <3> QED BY <1>1, <1>2, <1>3, <3>1
  <2> QED BY <2>2, <2>3, <2>4
<1> QED BY <1>4, <1>5, BarrierConstants

\* A peer that plays compares first.
LEMMA ComparesCleanly ==
    ASSUME NEW p \in Peer, NEW q, Fits(p, q, divergence), CleanFits(p, q, divergence),
           q.phase = "none"
    PROVE  LET t == CompareChecksums(p, q)
           IN  /\ CleanFits(p, t, divergence) /\ Moved(q, t, divergence)
               /\ t.lost = q.lost /\ (UpToDate(q) => UpToDate(t))
<1> DEFINE t == CompareChecksums(p, q)
<1>1. CASE p = Host
  <2>1. Good(q, peer[Join], divergence) /\ Clean(q, peer[Join], divergence)
    BY <1>1 DEF Fits, CleanFits
  <2>2. /\ Clean(t, peer[Join], divergence) /\ Moved(q, t, divergence)
        /\ t.lost = q.lost /\ (UpToDate(q) => UpToDate(t))
    BY <1>1, <2>1, HostComparesCleanly
  <2> HIDE DEF t
  <2>3. CleanFits(p, t, divergence)
    BY <1>1, <2>2 DEF CleanFits
  <2> QED BY <2>2, <2>3 DEF t
<1>2. CASE p = Join
  <2>1. Good(peer[Host], q, divergence) /\ Clean(peer[Host], q, divergence)
    BY <1>2, BarrierConstants DEF Fits, CleanFits
  <2>2. /\ Clean(peer[Host], t, divergence) /\ Moved(q, t, divergence)
        /\ t.lost = q.lost /\ (UpToDate(q) => UpToDate(t))
    BY <1>2, <2>1, JoinComparesCleanly
  <2> HIDE DEF t
  <2>3. CleanFits(p, t, divergence)
    BY <1>2, <2>2, BarrierConstants DEF CleanFits
  <2> QED BY <2>2, <2>3 DEF t
<1> QED BY <1>1, <1>2, BarrierConstants

\* A session whose stream goes on stays clean: its inputs are not touched.
LEMMA StreamFits ==
    ASSUME NEW p \in Peer, NEW s, NEW d, Fits(p, s, d), CleanFits(p, s, d),
           NEW t \in Session, Streams(s, t), t.known = s.known, t.acked = s.acked,
           t.published = s.published, t.verified = s.verified, t.peerSums = s.peerSums
    PROVE  CleanFits(p, t, d) /\ Moved(s, t, d)
<1>1. CASE p = Host
  <2>1. Good(s, peer[Join], d) /\ Clean(s, peer[Join], d) /\ s \in Session
    BY <1>1, FitsTypes DEF Fits, CleanFits
  <2>2. /\ s.published <= s.known /\ s.published <= s.acked /\ s.published <= s.frame
        /\ s.verified <= d /\ s.known <= peer[Join].committed
        /\ s.id = peer[Join].id => s.verified <= Limit(peer[Join])
        /\ s.phase = "none" => s.peerSums <= peer[Join].published
    BY <2>1 DEF Clean, HostClean, Agreed
  <2>3. t.published <= t.frame
    BY <2>1, <2>2, SessionNumbers, StreamNumbers DEF Streams
  <2>4. Clean(t, peer[Join], d) /\ Moved(s, t, d)
    BY <2>1, <2>2, <2>3, StreamHost
  <2> QED BY <1>1, <2>4 DEF CleanFits
<1>2. CASE p = Join
  <2>1. Good(peer[Host], s, d) /\ Clean(peer[Host], s, d)
    BY <1>2, BarrierConstants DEF Fits, CleanFits
  <2>2. /\ s.verified <= d /\ s.known <= peer[Host].committed
        /\ peer[Host].id = s.id => s.verified <= Limit(peer[Host])
        /\ s.phase = "none" /\ peer[Host].id = s.id => s.peerSums <= peer[Host].published
    BY <2>1 DEF Clean, JoinClean, Agreed
  <2>3. Clean(peer[Host], t, d) /\ Moved(s, t, d)
    BY <2>1, <2>2, StreamJoin
  <2> QED BY <1>2, <2>3, BarrierConstants DEF CleanFits
<1> QED BY <1>1, <1>2, BarrierConstants

LEMMA PublishFits ==
    ASSUME NEW p \in Peer, NEW s, NEW d, Fits(p, s, d), CleanFits(p, s, d)
    PROVE  LET t == Publish(s)
           IN  CleanFits(p, t, d) /\ Moved(s, t, d)
<1>1. CASE p = Host
  BY <1>1, PublishHost DEF Fits, CleanFits
<1>2. CASE p = Join
  BY <1>2, PublishJoin, BarrierConstants DEF Fits, CleanFits
<1> QED BY <1>1, <1>2, BarrierConstants

LEMMA SimulatesCleanly ==
    ASSUME NEW p \in Peer, NEW s, NEW d, Fits(p, s, d), CleanFits(p, s, d)
    PROVE  LET committed == Max({s.committed, s.frame + InputDelay + 1})
               n == Publish([s EXCEPT !.committed = committed])
               t == [n EXCEPT !.frame = @ + 1]
           IN  /\ Fits(p, n, d) /\ CleanFits(p, n, d) /\ UpToDate(n)
               /\ Moved(s, n, d) /\ n.id = s.id
               /\ (Fits(p, t, d) => CleanFits(p, t, d)) /\ Moved(n, t, d)
               /\ t.lost = s.lost
<1>1. s \in Session
  BY FitsTypes
<1>2. PICK c \in Nat : c = Max({s.committed, s.frame + InputDelay + 1}) /\ s.committed <= c
  <2>1. /\ s.committed \in Nat /\ s.frame + InputDelay + 1 \in Nat
        /\ s.committed \in Int /\ s.frame + InputDelay + 1 \in Int
    BY <1>1, SessionNumbers, BarrierConstants
  <2> QED BY <2>1, MaxOfTwo
<1> DEFINE r == [s EXCEPT !.committed = c]
           n == Publish(r)
           t == [n EXCEPT !.frame = @ + 1]
<1>3. /\ r \in Session
      /\ r.phase = s.phase /\ r.peerPhase = s.peerPhase /\ r.id = s.id
      /\ r.applied = s.applied /\ r.first = s.first /\ r.resume = s.resume
      /\ r.snapshot = s.snapshot /\ r.transcript = s.transcript
      /\ r.expected = s.expected /\ r.replayed = s.replayed
      /\ r.frame = s.frame /\ r.peerSums = s.peerSums
      /\ r.committed = c /\ r.known = s.known /\ r.acked = s.acked
      /\ r.request = s.request /\ r.published = s.published
      /\ r.verified = s.verified /\ r.lost = s.lost
  BY <1>1 DEF Session
<1> HIDE DEF r
<1>4. Still(s, r) /\ Streams(s, r)
  BY <1>1, <1>2, <1>3, SessionNumbers, StreamNumbers DEF Still, Streams
<1>5. Fits(p, r, d)
  BY <1>3, <1>4, StillMoves DEF PeerMoves
<1>6. CleanFits(p, r, d) /\ Moved(s, r, d)
  BY <1>3, <1>4, StreamFits
<1>7. /\ n \in Session /\ Still(r, n) /\ n.acked = r.acked
      /\ n.known = r.known /\ n.committed = r.committed
  BY <1>3, PublishStill
<1>8. UpToDate(n) /\ n.lost = r.lost
  BY <1>3, PublishStreams
<1>9. CleanFits(p, n, d) /\ Moved(r, n, d)
  BY <1>5, <1>6, PublishFits
<1> HIDE DEF n
<1>10. Fits(p, n, d)
  BY <1>5, <1>7, StillMoves DEF PeerMoves
<1>11. Moved(s, n, d) /\ n.id = s.id
  BY <1>1, <1>3, <1>6, <1>7, <1>9, MovedOn DEF Still
<1>12. PICK f \in Nat : f = n.frame + 1
  BY <1>7, SessionNumbers
<1>13. t = [n EXCEPT !.frame = f]
  BY <1>7, <1>12 DEF Session
<1> HIDE DEF t
<1>14. /\ t \in Session /\ t.phase = n.phase /\ t.id = n.id
       /\ t.first = n.first /\ t.resume = n.resume
       /\ t.snapshot = n.snapshot /\ t.transcript = n.transcript
       /\ t.request = n.request /\ t.frame = f /\ t.peerSums = n.peerSums
       /\ t.committed = n.committed /\ t.known = n.known /\ t.acked = n.acked
       /\ t.published = n.published /\ t.verified = n.verified /\ t.lost = n.lost
  BY <1>7, <1>13 DEF Session
<1>15. Streams(n, t)
  BY <1>7, <1>12, <1>14, SessionNumbers, StreamNumbers DEF Streams
<1>16. CleanFits(p, t, d) /\ Moved(n, t, d)
  BY <1>9, <1>10, <1>14, <1>15, StreamFits
<1>17. t.lost = s.lost
  BY <1>3, <1>8, <1>14
<1> QED BY <1>2, <1>8, <1>9, <1>10, <1>11, <1>16, <1>17 DEF r, n, t

LEMMA PlaysCleanly ==
    ASSUME BarrierInv, CleanInv, NEW p \in Peer, NEW q, Poised(p, q),
           NEW links, Sends(p, q, links), Play(p, q, links)
    PROVE  \E t : CleanStep(p, t)
<1> DEFINE v == CompareChecksums(p, q)
<1>1. /\ q.phase = "none"
      /\ IF Frozen(v) \/ v.lost # "" \/ Held(v)
         THEN Become(p, v, links) ELSE Simulate(p, v, links)
  BY DEF Play, Frozen
<1>2. Fits(p, q, divergence) /\ CleanFits(p, q, divergence) /\ q \in Session
  BY FitsTypes DEF Poised
<1>3. PeerMoves(p, q, v, divergence)
  BY <1>1, <1>2, CompareMoves
<1>4. /\ CleanFits(p, v, divergence) /\ Moved(q, v, divergence)
      /\ v.lost = q.lost /\ UpToDate(v)
  BY <1>1, <1>2, ComparesCleanly DEF Poised
<1> HIDE DEF v
<1>5. v \in Session /\ Fits(p, v, divergence) /\ Later(q, v)
  BY <1>3, FitsTypes DEF PeerMoves
<1>6. CASE Become(p, v, links)
  <2>1. Ended(q, v)
    BY <1>4 DEF Ended
  <2> QED BY <1>3, <1>4, <1>6, <2>1, BecomeIsClean
<1>7. CASE ~Frozen(v) /\ ~Held(v) /\ Simulate(p, v, links)
  <2> DEFINE n == Publish([v EXCEPT !.committed =
                             Max({v.committed, v.frame + InputDelay + 1})])
             t == [n EXCEPT !.frame = @ + 1]
  <2>1. v.phase = "none"
    BY <1>7 DEF Frozen
  <2>2. PeerMoves(p, v, t, divergence) /\ Later(n, t)
    BY <1>5, <1>7, <2>1, SimulateMoves
  <2>3. /\ Fits(p, n, divergence) /\ CleanFits(p, n, divergence) /\ UpToDate(n)
        /\ Moved(v, n, divergence) /\ n.id = v.id
        /\ (Fits(p, t, divergence) => CleanFits(p, t, divergence))
        /\ Moved(n, t, divergence) /\ t.lost = v.lost
    BY <1>4, <1>5, SimulatesCleanly
  <2>4. /\ peer' = [peer EXCEPT ![p] = t] /\ divergence' = divergence
        /\ net' \in Sent(links, Packet(p, n))
    BY <1>7 DEF Simulate
  <2> HIDE DEF n, t
  <2>5. Fits(p, t, divergence) /\ CleanFits(p, t, divergence) /\ Later(v, t)
        /\ t \in Session /\ n \in Session
    BY <2>2, <2>3, FitsTypes DEF PeerMoves
  <2>6. Later(q, t)
    BY <1>2, <1>5, <2>5, LaterTransitive
  <2>7. v.id = q.id
    <3>1. SameRound(q, v)
      BY <1>1, <1>3, <2>1
         DEF PeerMoves, Turn, SameRound, RoundState, Frozen, HasReplayed
    <3>2. v.applied = q.applied
      BY <1>1, <2>1, <3>1 DEF SameRound, RoundNumber, HasReplayed
    <3>3. Own(q) /\ Own(v)
      BY <1>2, <1>5 DEF Fits, Good, HostOwn, JoinOwn
    <3> QED BY <1>1, <2>1, <3>2, <3>3 DEF Own, Open
  <2>8. Moved(q, t, divergence)
    <3>1. Moved(v, t, divergence)
      BY <1>5, <2>3, <2>5, MovedOn
    <3> QED BY <1>2, <1>4, <1>5, <2>5, <2>7, <3>1, MovedOn
  <2>9. Turns(p, q, t) /\ Ended(q, t)
    BY <1>4, <2>3, <2>4, <2>5, <2>8 DEF Turns, Ended
  <2>10. Fair(p, t, divergence, Packet(p, n))
    <3>1. Packet(p, n).kind = "control" => Control(Packet(p, n)) /\ Said(n, Packet(p, n))
      BY <2>5, PacketIs
    <3>2. Fair(p, n, divergence, Packet(p, n))
      BY <2>3, FairPacket
    <3> QED BY <2>2, <2>3, <2>5, <3>1, <3>2, FairLater
  <2>11. \A x \in net' : x \in links \/ Fair(p, t, divergence', x)
    BY <2>4, <2>10, SentIs
  <2> QED BY <2>4, <2>5, <2>6, <2>9, <2>11, BecomesCleanly
<1> QED BY <1>1, <1>6, <1>7

LEMMA AdvancesCleanly ==
    ASSUME BarrierInv, CleanInv, NEW p \in Peer, Advance(p)
    PROVE  \E t : CleanStep(p, t)
<1> DEFINE n == Ticked(peer[p])
           s == Publish(n)
<1>1. /\ Fits(p, peer[p], divergence) /\ peer[p] \in Session
      /\ CleanFits(p, peer[p], divergence)
  BY PeerFits, FitsTypes, PeerCleanFits
<1>2. /\ n \in Session /\ Still(peer[p], n) /\ n.acked = peer[p].acked
      /\ Quiet(peer[p], n) /\ n.known = peer[p].known /\ n.lost = peer[p].lost
  BY <1>1, TickedStill, TickedQuiet DEF BarrierInv
<1>3. IF Expired(p, s)
      THEN Become(p, Disconnect(s, "timeout"), net)
      ELSE \E links \in Serviced(p, s) : Correct(p, s, links) \/ Play(p, s, links)
  BY DEF Advance
<1> HIDE DEF n
<1>4. Fits(p, n, divergence)
  BY <1>1, <1>2, StillMoves DEF PeerMoves
<1>5. CleanFits(p, n, divergence) /\ Moved(peer[p], n, divergence)
  BY <1>1, <1>2, StreamFits DEF Quiet
<1>6. s \in Session /\ Still(n, s) /\ s.acked = n.acked
  BY <1>2, PublishStill
<1>7. s.lost = n.lost /\ UpToDate(s)
  BY <1>2, PublishStreams
<1>8. CleanFits(p, s, divergence) /\ Moved(n, s, divergence)
  BY <1>4, <1>5, PublishFits
<1> HIDE DEF s
<1>9. Fits(p, s, divergence)
  BY <1>4, <1>6, StillMoves DEF PeerMoves
<1>10. Moved(peer[p], s, divergence) /\ s.id = peer[p].id
  BY <1>1, <1>2, <1>5, <1>6, <1>8, MovedOn DEF Still
<1>11. Poised(p, s)
  BY <1>2, <1>7, <1>8, <1>9, <1>10 DEF Poised
<1>12. CASE Expired(p, s)
  <2> DEFINE t == Disconnect(s, "timeout")
  <2>1. Become(p, t, net)
    BY <1>3, <1>12
  <2>2. /\ t \in Session /\ Still(s, t) /\ t.acked = s.acked /\ t.known = s.known
        /\ Quiet(s, t) /\ t.lost = "timeout"
    BY <1>6, DisconnectStill, DisconnectQuiet DEF Ending
  <2> HIDE DEF t
  <2>3. PeerMoves(p, s, t, divergence)
    BY <1>9, <2>2, StillMoves
  <2>4. CleanFits(p, t, divergence) /\ Moved(s, t, divergence)
    BY <1>8, <1>9, <2>2, StreamFits DEF Quiet
  <2>5. Sends(p, s, net) /\ Ended(s, t)
    BY <2>2 DEF Sends, Ended
  <2> QED BY <1>11, <2>1, <2>2, <2>3, <2>4, <2>5, BecomeIsClean
<1>13. CASE ~Expired(p, s)
  <2>1. PICK links \in Serviced(p, s) : Correct(p, s, links) \/ Play(p, s, links)
    BY <1>3, <1>13
  <2>2. Sends(p, s, links)
    <3>1. CASE links \in Sent(net, Packet(p, s))
      BY <3>1, SentIs DEF Sends
    <3>2. CASE links \notin Sent(net, Packet(p, s))
      <4>1. PICK l \in Sent(net, Packet(p, s)) : links \in Sent(l, Chunk(s))
        BY <2>1, <3>2 DEF Serviced
      <4> QED BY <4>1, SentIs DEF Sends
    <3> QED BY <3>1, <3>2
  <2> QED BY <1>11, <2>1, <2>2, CorrectsCleanly, PlaysCleanly
<1> QED BY <1>12, <1>13

LEMMA NextCleanly ==
    ASSUME BarrierInv, CleanInv, Next
    PROVE  \E p \in Peer : \E t : Step(p, t) /\ CleanStep(p, t)
<1>1. PICK p \in Peer : Receive(p) \/ Advance(p)
  BY DEF Next
<1>2. PICK t : Step(p, t)
  BY <1>1, ReceiveSteps, AdvanceSteps
<1>3. PICK u : CleanStep(p, u)
  BY <1>1, ReceivesCleanly, AdvancesCleanly
<1>4. t = peer'[p] /\ u = peer'[p]
  <2>1. DOMAIN peer = Peer
    BY DEF BarrierInv
  <2>2. peer' = [peer EXCEPT ![p] = t] /\ peer' = [peer EXCEPT ![p] = u]
    BY <1>2, <1>3 DEF Step, CleanStep
  <2> QED BY <2>1, <2>2
<1> QED BY <1>2, <1>3, <1>4

-----------------------------------------------------------------------------
(***************************************************************************)
(* The invariant, and what it is for.                                      *)
(***************************************************************************)
LEMMA StepKeepsClean ==
    ASSUME BarrierInv, CleanInv, NEW p \in Peer, NEW t, Step(p, t), CleanStep(p, t)
    PROVE  CleanInv'
<1> DEFINE o == Other(p)
<1>1. /\ peer' = [peer EXCEPT ![p] = t] /\ Later(peer[p], t)
      /\ Fits(p, peer[p], divergence) /\ Fits(p, t, divergence')
      /\ CleanFits(p, t, divergence') /\ Moved(peer[p], t, divergence)
      /\ divergence' = divergence \/ peer[p].id = peer[o].id
      /\ \A m \in net' : m \in net \/ Fair(p, t, divergence', m)
  BY PeerFits DEF Step, PeerMoves, CleanStep, Turns
<1>2. /\ peer'[p] = t /\ peer'[o] = peer[o] /\ o \in Peer /\ Other(o) = p /\ o # p
      /\ \A q \in Peer : q = p \/ q = o
  BY <1>1, BarrierConstants DEF BarrierInv
<1>3. /\ peer[p] \in Session /\ peer[o] \in Session /\ t \in Session
      /\ peer[p].id <= peer[o].id + 1 /\ peer[o].id <= peer[p].id + 1
      /\ divergence \in Nat
  BY <1>1, NumbersMeet, FitsTypes
<1>4. Clean(peer'[Host], peer'[Join], divergence')
  BY <1>1, <1>2, BarrierConstants DEF CleanFits
<1>5. ASSUME NEW m \in net', m.kind = "control"
      PROVE  /\ Plain(m) /\ Honest(peer'[Other(m.to)], m)
             /\ Bounded(peer'[m.to], m, divergence')
  <2>1. CASE Fair(p, t, divergence', m)
    BY <1>2, <1>5, <2>1 DEF Fair
  <2>2. CASE m \in net
    <3>1. /\ m.to \in Peer /\ Control(m) /\ Said(peer[Other(m.to)], m)
          /\ Plain(m) /\ Honest(peer[Other(m.to)], m)
          /\ Bounded(peer[m.to], m, divergence)
      BY <1>5, <2>2 DEF BarrierInv, Carried, CleanInv
    <3>2. CASE m.to = o
      <4>1. Control(m) /\ Said(peer[p], m) /\ Fair(p, peer[p], divergence, m)
        BY <1>2, <3>1, <3>2 DEF Fair
      <4>2. Fair(p, t, divergence', m)
        BY <1>1, <1>3, <4>1, FairLater
      <4> QED BY <1>2, <1>5, <4>2 DEF Fair
    <3>3. CASE m.to = p
      <4>1. Honest(peer[o], m) /\ Said(peer[o], m) /\ Bounded(peer[p], m, divergence)
        BY <3>1, <3>3
      <4>2. m.id <= peer[o].id /\ m.id \in Nat
        BY <1>3, <3>1, <4>1, SessionNumbers DEF Said, Control
      <4>3. m.id <= peer[p].id + 1 /\ (divergence' = divergence \/ m.id <= peer[p].id)
        BY <1>1, <1>3, <4>2, SessionNumbers
      <4>4. Bounded(t, m, divergence')
        BY <1>1, <1>3, <3>1, <4>1, <4>3, BoundedLater
      <4> QED BY <1>2, <3>1, <3>3, <4>1, <4>4
    <3> QED BY <1>2, <3>1, <3>2, <3>3
  <2> QED BY <1>1, <2>1, <2>2
<1>6. \A m \in net' : m.kind = "control" =>
         /\ Plain(m) /\ Honest(peer'[Other(m.to)], m)
         /\ Bounded(peer'[m.to], m, divergence')
  BY <1>5
<1> QED BY <1>4, <1>6 DEF CleanInv

LEMMA CleanInit == Init => CleanInv
<1> SUFFICES ASSUME Init PROVE CleanInv
  OBVIOUS
<1> DEFINE s == InitialPeer
<1>1. peer[Host] = s /\ peer[Join] = s /\ net = {}
  BY BarrierConstants DEF Init
<1>2. divergence \in Nat
  BY BarrierConstants DEF Init
<1>3. /\ s.phase = "none" /\ s.frame = 0 /\ s.id = 0 /\ s.acked = 0 /\ s.known = 0
      /\ s.verified = 0 /\ s.published = 0 /\ s.peerSums = 0
      /\ s.committed = InputDelay
  BY DEF InitialPeer
<1> HIDE DEF s
<1>4. Clean(s, s, divergence)
  BY <1>2, <1>3, BarrierConstants
     DEF Clean, HostClean, JoinClean, Agreed, Recalls, Limit
<1> QED BY <1>1, <1>4 DEF CleanInv

LEMMA CleanNext == BarrierInv /\ CleanInv /\ [Next]_vars => CleanInv'
<1> SUFFICES ASSUME BarrierInv, CleanInv, [Next]_vars PROVE CleanInv'
  OBVIOUS
<1>1. CASE Next
  <2>1. PICK p \in Peer : \E t : Step(p, t) /\ CleanStep(p, t)
    BY <1>1, NextCleanly
  <2> QED BY <2>1, StepKeepsClean
<1>2. CASE UNCHANGED vars
  BY <1>2 DEF vars, CleanInv
<1> QED BY <1>1, <1>2

\* What the sessions and the packets say of each other is never more than the
\* other side has settled: no acknowledgement outruns the stream it is for, no
\* tuple names other frames than its correction's.
THEOREM CleanInvHolds == Spec => []CleanInv
  BY CleanInit, CleanNext, BarrierInvHolds, PTL DEF Spec

\* ggpo_net_handle_packet takes no packet of a correct peer for a violation,
\* however late, often or out of order it arrives, but an offer two corrections
\* old (ggpo_net.c:5530); a session ends by its deadline, or by a replay that
\* came out different.
THEOREM DisconnectHasCause == Spec => NoFalseDisconnect
<1> DEFINE Caused == \A p \in Peer : peer[p].lost = "" /\ peer'[p].lost # "" =>
                       \/ peer'[p].lost = "timeout"
                       \/ peer'[p].lost = "transcript" /\ peer'[p].replayed = <<peer'[p].id, FALSE>>
                       \/ /\ p = Join /\ peer'[p].lost = "protocol"
                          /\ \E m \in net \ net' : Outdated(m)
<1>1. BarrierInv /\ CleanInv /\ [Next]_vars => [Caused]_vars
  <2> SUFFICES ASSUME BarrierInv, CleanInv, Next PROVE Caused
    OBVIOUS
  <2>1. PICK p \in Peer : \E t : CleanStep(p, t)
    BY NextCleanly
  <2>2. PICK t : CleanStep(p, t)
    BY <2>1
  <2>3. /\ peer' = [peer EXCEPT ![p] = t] /\ DOMAIN peer = Peer
        /\ \/ Ended(peer[p], t)
           \/ p = Join /\ t.lost = "protocol" /\ \E m \in net \ net' : Outdated(m)
    BY <2>2 DEF CleanStep, BarrierInv
  <2>4. ASSUME NEW q \in Peer, peer[q].lost = "", peer'[q].lost # ""
        PROVE  \/ peer'[q].lost = "timeout"
               \/ /\ peer'[q].lost = "transcript"
                  /\ peer'[q].replayed = <<peer'[q].id, FALSE>>
               \/ /\ q = Join /\ peer'[q].lost = "protocol"
                  /\ \E m \in net \ net' : Outdated(m)
    <3>1. q = p /\ peer'[q] = t
      BY <2>3, <2>4
    <3> QED BY <2>3, <2>4, <3>1 DEF Ended
  <2> QED BY <2>4
<1> QED BY <1>1, BarrierInvHolds, CleanInvHolds, PTL DEF Spec, NoFalseDisconnect
=============================================================================
