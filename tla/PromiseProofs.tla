---------------------------- MODULE PromiseProofs ----------------------------
(***************************************************************************)
(* What the abstract specifications promise: the log two players write,    *)
(* the round in which a timeline is replaced, and the outcome of a match,  *)
(* for any number of players, inputs, rounds and matches; what the host's  *)
(* services promise mods: mod.http's slots and the audio stream's ring,    *)
(* for any number of mods, slots, handles, requests and streams and every  *)
(* size of the ring; and what the updater promises, for any number of      *)
(* files, failures, crashes and damaged files.                             *)
(***************************************************************************)
EXTENDS LockstepLog, CorrectionRound, MatchOutcome, ModHttp, PcmStream, UpdateTransaction,
        BoundLemmas, SequenceTheorems, FiniteSetTheorems, FunctionTheorems, TLAPS

-----------------------------------------------------------------------------
(***************************************************************************)
(* LockstepLog.                                                            *)
(***************************************************************************)
\* The part of Agreement that is inductive: a settled frame is what the logs
\* say.  Two settled copies of a frame agree because of it.
Written ==
    \A p, q \in Peer : \A i \in 1 .. Len(timeline[p]) :
        i <= Len(log[q]) /\ timeline[p][i][q] = log[q][i]

LogInv == LogTypeOK /\ Written

LEMMA LogInit_Inv ==
    ASSUME PaddingAssumption, LogInit PROVE LogInv
<1>1. log \in [Peer -> Seq(Cmd)]
  <2>1. \A p \in Peer : Padding[p] \in Nat
    BY DEF PaddingAssumption
  <2>2. \A p \in Peer : [i \in 1 .. Padding[p] |-> Neutral] \in Seq(Cmd)
    <3>1. Neutral \in Cmd
      BY DEF PaddingAssumption
    <3> SUFFICES ASSUME NEW n \in Nat PROVE [i \in 1 .. n |-> Neutral] \in Seq(Cmd)
      BY <2>1
    <3>2. [i \in 1 .. n |-> Neutral] \in [1 .. n -> Cmd]
      BY <3>1
    <3> QED BY <3>2, SeqDef
  <2> QED BY <2>2 DEF LogInit
<1>2. timeline \in [Peer -> Seq([Peer -> Cmd])] /\ \A p \in Peer : Len(timeline[p]) = 0
  BY DEF LogInit
<1> QED
  BY <1>1, <1>2 DEF LogInv, LogTypeOK, Written

\* Logs only grow at their end.
LEMMA CommitExtends ==
    ASSUME LogTypeOK, NEW p \in Peer, CommitInput(p) \/ UNCHANGED log
    PROVE  /\ log' \in [Peer -> Seq(Cmd)]
           /\ \A q \in Peer : /\ Len(log[q]) <= Len(log'[q])
                              /\ \A i \in 1 .. Len(log[q]) : log'[q][i] = log[q][i]
<1>1. CASE CommitInput(p)
  <2>1. PICK c \in Cmd : log' = [log EXCEPT ![p] = Append(@, c)]
    BY <1>1 DEF CommitInput
  <2>2. log[p] \in Seq(Cmd)
    BY DEF LogTypeOK
  <2>3. /\ Append(log[p], c) \in Seq(Cmd)
        /\ Len(Append(log[p], c)) = Len(log[p]) + 1
        /\ \A i \in 1 .. Len(log[p]) : Append(log[p], c)[i] = log[p][i]
    BY <2>2, AppendProperties
  <2>4. log'[p] = Append(log[p], c) /\ \A q \in Peer : q # p => log'[q] = log[q]
    BY <2>1 DEF LogTypeOK
  <2>5. \A q \in Peer : Len(log[q]) \in Nat
    BY DEF LogTypeOK
  <2>6. log' \in [Peer -> Seq(Cmd)]
    BY <2>1, <2>3 DEF LogTypeOK
  <2> QED BY <2>3, <2>4, <2>5, <2>6, SMTT(30)
<1>2. CASE UNCHANGED log
  BY <1>2 DEF LogTypeOK
<1> QED BY <1>1, <1>2

\* Settling appends frames that every log holds.
LEMMA SettleWrites ==
    ASSUME LogTypeOK, Written, NEW p \in Peer, LogStep(p)
    PROVE  LogTypeOK' /\ Written'
<1>1. /\ log' \in [Peer -> Seq(Cmd)]
      /\ \A q \in Peer : /\ Len(log[q]) <= Len(log'[q])
                         /\ \A i \in 1 .. Len(log[q]) : log'[q][i] = log[q][i]
  BY CommitExtends DEF LogStep
<1>2. PICK n \in Len(timeline[p]) .. Len(log'[p]) :
        /\ \A q \in Peer : n <= Len(log'[q])
        /\ timeline' = [timeline EXCEPT ![p] =
                          @ \o [i \in 1 .. (n - Len(@)) |-> JointInput(Len(@) + i)]]
  BY DEF LogStep, Settle
<1> DEFINE old == timeline[p]
           new == [i \in 1 .. (n - Len(old)) |-> JointInput(Len(old) + i)]
<1>3. old \in Seq([Peer -> Cmd]) /\ Len(old) \in Nat /\ n \in Nat /\ Len(old) <= n
  BY <1>1, <1>2 DEF LogTypeOK
<1>4. \A i \in 1 .. n : JointInput(i) \in [Peer -> Cmd]
  BY <1>1, <1>2, <1>3 DEF JointInput
<1>5. new \in Seq([Peer -> Cmd]) /\ Len(new) = n - Len(old)
  BY <1>3, <1>4
<1>6. /\ timeline'[p] = old \o new
      /\ \A q \in Peer : q # p => timeline'[q] = timeline[q]
      /\ timeline' \in [Peer -> Seq([Peer -> Cmd])]
  BY <1>2, <1>3, <1>5, ConcatProperties DEF LogTypeOK
<1>7. /\ Len(timeline'[p]) = n
      /\ \A i \in 1 .. n : timeline'[p][i] = IF i <= Len(old) THEN old[i]
                                                             ELSE JointInput(i)
  <2>1. Len(old \o new) = n
    BY <1>3, <1>5, ConcatProperties
  <2>2. ASSUME NEW i \in 1 .. n, i <= Len(old) PROVE (old \o new)[i] = old[i]
    BY <1>3, <1>5, <2>2, ConcatProperties
  <2>3. ASSUME NEW i \in 1 .. n, Len(old) < i
        PROVE  (old \o new)[i] = JointInput(i)
    <3>1. i - Len(old) \in 1 .. (n - Len(old)) /\ Len(old) + (i - Len(old)) = i
      BY <1>3, <2>3
    <3>2. (old \o new)[i] = new[i - Len(old)]
      BY <1>3, <1>5, <2>3, <3>1, ConcatProperties
    <3> QED BY <3>1, <3>2
  <2> QED BY <1>3, <1>6, <2>1, <2>2, <2>3
<1>8. LogTypeOK'
  BY <1>1, <1>6 DEF LogTypeOK
<1>9. ASSUME NEW r \in Peer, NEW q \in Peer, NEW i \in 1 .. Len(timeline'[r])
      PROVE  i <= Len(log'[q]) /\ timeline'[r][i][q] = log'[q][i]
  <2>1. CASE r = p /\ i > Len(old)
    BY <1>2, <1>3, <1>7, <1>9, <2>1 DEF JointInput
  <2>2. CASE r = p /\ i <= Len(old)
    <3>1. i \in 1 .. Len(timeline[p])
      BY <1>3, <1>7, <2>2
    <3>2. i <= Len(log[q]) /\ timeline[p][i][q] = log[q][i]
      BY <3>1 DEF Written
    <3>3. i \in 1 .. Len(log[q]) /\ Len(log[q]) \in Nat /\ Len(log'[q]) \in Nat
      BY <3>1, <3>2, <1>1 DEF LogTypeOK
    <3> QED BY <1>1, <1>7, <2>2, <3>1, <3>2, <3>3
  <2>3. CASE r # p
    <3>1. i \in 1 .. Len(timeline[r])
      BY <1>6, <2>3
    <3>2. i <= Len(log[q]) /\ timeline[r][i][q] = log[q][i]
      BY <3>1 DEF Written
    <3>3. i \in 1 .. Len(log[q]) /\ Len(log[q]) \in Nat /\ Len(log'[q]) \in Nat
      BY <3>1, <3>2, <1>1 DEF LogTypeOK
    <3> QED BY <1>1, <1>6, <2>3, <3>1, <3>2, <3>3
  <2> QED BY <1>3, <1>7, <2>1, <2>2, <2>3
<1>10. Written'
  BY <1>9 DEF Written
<1> QED BY <1>8, <1>10

LEMMA LogNext_Inv == LogInv /\ [LogNext]_logVars => LogInv'
<1> SUFFICES ASSUME LogInv, [LogNext]_logVars PROVE LogInv'
  OBVIOUS
<1>1. CASE LogNext
  BY <1>1, SettleWrites DEF LogInv, LogNext
<1>2. CASE UNCHANGED logVars
  BY <1>2 DEF LogInv, LogTypeOK, Written, logVars
<1> QED BY <1>1, <1>2

\* Frames that follow the logs agree with each other.
LEMMA LogInv_Agreement == LogInv => Agreement
<1> SUFFICES ASSUME LogInv PROVE Agreement
  OBVIOUS
<1>1. ASSUME NEW p \in Peer, NEW q \in Peer, NEW i \in 1 .. Len(timeline[p]),
             i <= Len(timeline[q])
      PROVE  timeline[p][i] = timeline[q][i]
  <2>1. i \in 1 .. Len(timeline[q])
    BY <1>1 DEF LogInv, LogTypeOK
  <2>2. timeline[p][i] \in [Peer -> Cmd] /\ timeline[q][i] \in [Peer -> Cmd]
    BY <2>1, <1>1 DEF LogInv, LogTypeOK
  <2>3. \A r \in Peer : timeline[p][i][r] = timeline[q][i][r]
    BY <2>1, <1>1 DEF LogInv, Written
  <2> QED BY <2>2, <2>3
<1> QED
  BY <1>1 DEF LogInv, Written, Agreement

\* Two peers never disagree on a frame they have both settled, and a settled
\* frame carries the inputs its players committed (the mutual input horizon
\* of ggpo_net.c), whatever the number of players and frames.
THEOREM PeersAgree ==
    ASSUME PaddingAssumption PROVE LogSpec => []Agreement
<1>1. LogInit => LogInv
  BY LogInit_Inv
<1> QED
  BY <1>1, LogNext_Inv, LogInv_Agreement, PTL DEF LogSpec

-----------------------------------------------------------------------------
(***************************************************************************)
(* CorrectionRound.                                                        *)
(***************************************************************************)
RoundInv == RoundTypeOK /\ OneTimeline

LEMMA RoundInit_Inv == RoundInit => RoundInv
  BY DEF RoundInit, RoundInv, RoundTypeOK, OneTimeline

\* Rounds only change while nobody plays, and whoever joins the players has
\* everybody in his own round.
LEMMA RoundNext_Inv == RoundInv /\ [RoundNext]_roundVars => RoundInv'
<1> SUFFICES ASSUME RoundInv, [RoundNext]_roundVars PROVE RoundInv'
  OBVIOUS
<1> USE DEF RoundInv, RoundTypeOK, OneTimeline
<1>1. ASSUME NEW p \in Player, Freeze(p) PROVE RoundInv'
  BY <1>1 DEF Freeze
<1>2. ASSUME NEW p \in Player, Replay(p) PROVE RoundInv'
  <2>1. RoundTypeOK'
    BY <1>2 DEF Replay
  <2>2. \A q \in Player : state'[q] # "playing"
    BY <1>2 DEF Replay
  <2> QED BY <2>1, <2>2
<1>3. ASSUME NEW p \in Player, Resume(p) PROVE RoundInv'
  <2>1. RoundTypeOK'
    BY <1>3 DEF Resume
  <2>2. \A q, r \in Player : round'[q] = round'[r]
    BY <1>3 DEF Resume
  <2> QED BY <2>1, <2>2
<1>4. CASE UNCHANGED roundVars
  BY <1>4 DEF roundVars
<1> QED
  BY <1>1, <1>2, <1>3, <1>4 DEF RoundNext

\* Nobody plays on a timeline that another player has not rebuilt yet or has
\* already replaced: REQUEST to RELEASE_ACK in ggpo_net.c, for every number of
\* players and of corrections.
THEOREM RoundKeepsOneTimeline == RoundSpec => []OneTimeline
<1>1. RoundInv => OneTimeline
  BY DEF RoundInv
<1> QED
  BY RoundInit_Inv, RoundNext_Inv, <1>1, PTL DEF RoundSpec

-----------------------------------------------------------------------------
(***************************************************************************)
(* MatchOutcome.                                                           *)
(***************************************************************************)
MatchRecord == [players : SUBSET User, phase : Phase,
                winner : User \cup {Nobody}, conceded : SUBSET User]

\* The record a step leaves behind is a match again.
LEMMA StepType ==
    ASSUME NEW m \in MatchId, match[m] \in MatchRecord, Step(m)
    PROVE  match'[m] \in MatchRecord
<1>1. CASE Start(m)
  <2>1. PICK a, b \in User :
            match'[m] = [NoMatch EXCEPT !.players = {a, b}, !.phase = "setup"]
    BY <1>1 DEF Start
  <2>2. {a, b} \in SUBSET User
    OBVIOUS
  <2>3. match'[m] = [players |-> {a, b}, phase |-> "setup",
                     winner |-> Nobody, conceded |-> {}]
    BY <2>1 DEF NoMatch
  <2> QED BY <2>2, <2>3 DEF MatchRecord, Phase
<1>2. CASE Begin(m)
  BY <1>2 DEF Begin, MatchRecord, Phase
<1>3. CASE Concede(m)
  BY <1>3 DEF Concede, MatchRecord, Phase
<1>4. CASE Win(m)
  BY <1>4 DEF Win, MatchRecord, Phase
<1>5. CASE Void(m)
  BY <1>5 DEF Void, MatchRecord, Phase
<1> QED BY <1>1, <1>2, <1>3, <1>4, <1>5 DEF Step

LEMMA NextType ==
    ASSUME TypeOK, OutcomeNext
    PROVE  TypeOK'
<1>1. match \in [MatchId -> MatchRecord]
  BY DEF TypeOK, MatchRecord
<1>2. ASSUME NEW m \in MatchId PROVE match'[m] \in MatchRecord
  <2>1. match[m] \in MatchRecord
    BY <1>1
  <2> QED BY <2>1, StepType DEF OutcomeNext, Keeps
<1>3. match' \in [MatchId -> {match'[m] : m \in MatchId}]
  BY DEF OutcomeNext
<1> QED BY <1>2, <1>3, Zenon DEF TypeOK, MatchRecord

\* The match collection keeps its shape (makeMatch, finishMatch, cancelMatch).
THEOREM OutcomeTypeCorrect == OutcomeSpec => []TypeOK
<1>1. OutcomeInit => TypeOK
  BY DEF OutcomeInit, TypeOK, NoMatch, Phase
<1>2. TypeOK /\ [OutcomeNext]_match => TypeOK'
  BY NextType DEF TypeOK
<1> QED BY <1>1, <1>2, PTL DEF OutcomeSpec

-----------------------------------------------------------------------------
\* An open match that is not new was open before, with the same players.
LEMMA OpenBefore ==
    ASSUME TypeOK, NEW m \in MatchId, Keeps(m) \/ Step(m), ~Start(m),
           match'[m].phase \in Open
    PROVE  match[m].phase \in Open /\ match'[m].players = match[m].players
<1>1. match[m] \in MatchRecord
  BY DEF TypeOK, MatchRecord
<1>2. CASE Keeps(m)
  BY <1>2 DEF Keeps
<1>3. CASE Begin(m)
  BY <1>1, <1>3 DEF Begin, MatchRecord, Open
<1>4. CASE Concede(m)
  BY <1>1, <1>4 DEF Concede, MatchRecord, Open
<1>5. CASE Win(m)
  BY <1>1, <1>5 DEF Win, MatchRecord, Open
<1>6. CASE Void(m)
  BY <1>1, <1>6 DEF Void, MatchRecord, Open
<1> QED BY <1>2, <1>3, <1>4, <1>5, <1>6 DEF Step

\* No player is in two open matches (makeMatch binds both clients to the new
\* match, and only the end of a match frees them).
THEOREM PlayersAreInOneMatch == OutcomeSpec => []OneMatchPerPlayer
<1>1. OutcomeInit => OneMatchPerPlayer
  BY DEF OutcomeInit, OneMatchPerPlayer, NoMatch, Open
<1>2. ASSUME TypeOK, OneMatchPerPlayer, [OutcomeNext]_match PROVE OneMatchPerPlayer'
  <2>1. CASE match' = match
    BY <1>2, <2>1 DEF OneMatchPerPlayer
  <2>2. CASE OutcomeNext
    <3> SUFFICES ASSUME NEW m \in MatchId, NEW n \in MatchId,
                        match'[m].phase \in Open, match'[n].phase \in Open,
                        match'[m].players \cap match'[n].players # {},
                        m # n
                 PROVE  FALSE
      BY DEF OneMatchPerPlayer
    <3>1. (Keeps(m) \/ Step(m)) /\ (Keeps(n) \/ Step(n))
      BY <2>2 DEF OutcomeNext
    <3>2. ~Start(m) /\ ~Start(n)
      BY DEF Start
    <3>3. /\ match[m].phase \in Open /\ match'[m].players = match[m].players
          /\ match[n].phase \in Open /\ match'[n].players = match[n].players
      BY <1>2, <3>1, <3>2, OpenBefore
    <3> QED BY <1>2, <3>3 DEF OneMatchPerPlayer
  <2> QED BY <1>2, <2>1, <2>2
<1> QED BY <1>1, <1>2, OutcomeTypeCorrect, PTL DEF OutcomeSpec

-----------------------------------------------------------------------------
\* One match keeps its winner's right to the win.
WonFairly(m) ==
    match[m].winner # Nobody =>
        /\ match[m].phase = "ended"
        /\ match[m].winner \in match[m].players
        /\ \E l \in match[m].conceded : l # match[m].winner

LEMMA StepWonFairly ==
    ASSUME TypeOK, NEW m \in MatchId, Step(m), WonFairly(m)
    PROVE  WonFairly(m)'
<1>1. match[m] \in MatchRecord
  BY DEF TypeOK, MatchRecord
<1>2. CASE Start(m)
  BY <1>2 DEF Start, NoMatch, WonFairly
<1>3. CASE Begin(m)
  BY <1>1, <1>3 DEF Begin, MatchRecord, WonFairly
<1>4. CASE Concede(m)
  BY <1>1, <1>4 DEF Concede, MatchRecord, WonFairly
<1>5. CASE Win(m)
  BY <1>1, <1>5 DEF Win, MatchRecord, WonFairly
<1>6. CASE Void(m)
  BY <1>1, <1>6 DEF Void, MatchRecord, WonFairly, Open
<1> QED BY <1>2, <1>3, <1>4, <1>5, <1>6 DEF Step

\* Whoever wins, the other player conceded (handleMatchEnd, handleMatchAbort,
\* destroyClient): no player wins on a report of their own alone.
THEOREM WinnersWereConceded == OutcomeSpec => []WinnerWasConceded
<1>1. OutcomeInit => WinnerWasConceded
  BY DEF OutcomeInit, WinnerWasConceded, NoMatch
<1>2. ASSUME TypeOK, WinnerWasConceded, [OutcomeNext]_match PROVE WinnerWasConceded'
  <2>1. CASE match' = match
    BY <1>2, <2>1 DEF WinnerWasConceded
  <2>2. CASE OutcomeNext
    <3>1. ASSUME NEW m \in MatchId PROVE WonFairly(m)'
      <4>1. WonFairly(m)
        BY <1>2 DEF WinnerWasConceded, WonFairly
      <4>2. CASE Keeps(m)
        BY <4>1, <4>2 DEF Keeps, WonFairly
      <4>3. CASE Step(m)
        BY <1>2, <4>1, <4>3, StepWonFairly
      <4> QED BY <2>2, <4>2, <4>3 DEF OutcomeNext
    <3> QED BY <3>1 DEF WinnerWasConceded, WonFairly
  <2> QED BY <1>2, <2>1, <2>2
<1> QED BY <1>1, <1>2, OutcomeTypeCorrect, PTL DEF OutcomeSpec

-----------------------------------------------------------------------------
\* The end of a match is its last event: a report or a timer that comes late
\* (handleMatchEnd, armMatchResolutionTimer) changes nothing of the outcome.
THEOREM OutcomesAreFinal == OutcomeSpec => OutcomeIsFinal
<1>1. ASSUME TypeOK, [OutcomeNext]_match
      PROVE  [\A m \in MatchId :
                 match[m].phase = "ended" => match'[m] = match[m]]_match
  <2>1. CASE match' = match
    BY <2>1
  <2>2. CASE OutcomeNext
    <3> SUFFICES ASSUME NEW m \in MatchId, match[m].phase = "ended"
                 PROVE  match'[m] = match[m]
      OBVIOUS
    <3>1. ~Step(m)
      BY DEF Step, Start, Begin, Concede, Win, Void, Open
    <3> QED BY <2>2, <3>1 DEF OutcomeNext, Keeps
  <2> QED BY <1>1, <2>1, <2>2
<1> QED BY <1>1, OutcomeTypeCorrect, PTL DEF OutcomeIsFinal, OutcomeSpec

-----------------------------------------------------------------------------
(***************************************************************************)
(* mod.http: what makes AnswersAreOwn inductive.                           *)
(***************************************************************************)
Status == {"asking", "reading", "publishing"}
SlotRecord ==
    [request : Request \cup {Nothing}, handle : Handle \cup {Nothing},
     owner : Owner \cup {Nothing}, done : {-1, 0, 1}, cancelled : BOOLEAN,
     page : Request \cup {Nothing}]

HttpTypeOK ==
    /\ slots \in [HttpSlot -> SlotRecord]
    /\ nextHandle \in Handle /\ asked \in 0 .. MaxRequest
    /\ worker \in [Request -> [at : Status \cup {"none", "over"},
                               slot : HttpSlot \cup {Nothing}]]
    /\ enabled \subseteq Owner
    /\ given \in [Owner -> [Handle -> Request \cup {Nothing}]]

\* Request r's worker runs on the slot of r, which is not done.
Serves(r, w, s) ==
    /\ r <= asked /\ w.slot \in HttpSlot
    /\ s[w.slot].request = r /\ s[w.slot].done = 0
    /\ w.at = "publishing" => s[w.slot].page = r

\* Slot i of s holds its own request's page, for the owner that asked for it.
Held(i, s) ==
    /\ s[i].request <= asked /\ s[i].owner \in Owner /\ s[i].handle \in Handle
    /\ s[i].page \in {Nothing, s[i].request}
    /\ s[i].done = 1 => s[i].page = s[i].request
    /\ s[i].done = 0 => /\ worker[s[i].request].at \in Status
                        /\ worker[s[i].request].slot = i

Granted(i, s) ==
    ~s[i].cancelled => /\ s[i].owner \in enabled
                       /\ given[s[i].owner][s[i].handle] = s[i].request

HandlesApart(s) ==
    \A i, j \in HttpSlot :
        InUse(i, s) /\ InUse(j, s) /\ s[i].handle = s[j].handle => i = j

\* The table s is right, whatever the mods and the workers do to it.
TableInv(s) ==
    /\ s \in [HttpSlot -> SlotRecord] /\ HandlesApart(s)
    /\ \A r \in Request : worker[r].at \in Status => Serves(r, worker[r], s)
    /\ \A i \in HttpSlot : InUse(i, s) => Held(i, s) /\ Granted(i, s)

HttpInv ==
    /\ HttpTypeOK /\ TableInv(slots)
    /\ \A r \in Request : r > asked => worker[r].at = "none"

LEMMA HttpConstants ==
    /\ MaxSlots \in Nat \ {0} /\ MaxRequest \in Nat
    /\ MaxHandle \in Nat \ {0} /\ MaxHandle > MaxSlots
  BY HttpAssumption

\* There are more handles than slots, so one is free.
LEMMA FreeHandle ==
    ASSUME NEW s \in [HttpSlot -> SlotRecord]
    PROVE  \E g \in Handle : \A i \in HttpSlot : InUse(i, s) => s[i].handle # g
<1> SUFFICES ASSUME \A g \in Handle : \E i \in HttpSlot : InUse(i, s) /\ s[i].handle = g
             PROVE  FALSE
  OBVIOUS
<1> DEFINE f == [i \in HttpSlot |-> IF s[i].handle \in Handle THEN s[i].handle ELSE 1]
<1>1. f \in [HttpSlot -> Handle]
  BY HttpConstants DEF Handle
<1>2. \A g \in Handle : \E i \in HttpSlot : f[i] = g
  OBVIOUS
<1> HIDE DEF f
<1>3. f \in Surjection(HttpSlot, Handle)
  BY <1>1, <1>2, Fun_IsSurj
<1>4. /\ IsFiniteSet(1 .. MaxSlots) /\ Cardinality(1 .. MaxSlots) = MaxSlots
      /\ Cardinality(1 .. MaxHandle) = MaxHandle
  <2>1. 1 \in Int /\ MaxSlots \in Int /\ MaxHandle \in Int
    BY HttpConstants
  <2>2. /\ IsFiniteSet(1 .. MaxSlots)
        /\ Cardinality(1 .. MaxSlots) = IF 1 > MaxSlots THEN 0 ELSE MaxSlots - 1 + 1
        /\ Cardinality(1 .. MaxHandle) = IF 1 > MaxHandle THEN 0 ELSE MaxHandle - 1 + 1
    BY <2>1, FS_Interval
  <2> QED BY <2>2, HttpConstants
<1>5. Cardinality(Handle) <= Cardinality(HttpSlot)
  BY <1>3, <1>4, FS_Surjection DEF HttpSlot
<1> QED BY <1>4, <1>5, HttpConstants DEF HttpSlot, Handle

\* http_allocate_handle finds one.
LEMMA NewHandleFree ==
    ASSUME NEW s \in [HttpSlot -> SlotRecord], nextHandle \in Handle
    PROVE  /\ NewHandle(s) \in Handle
           /\ \A i \in HttpSlot : InUse(i, s) => s[i].handle # NewHandle(s)
<1> DEFINE free == {g \in Handle : \A i \in HttpSlot : InUse(i, s) => s[i].handle # g}
           D == {Ahead(g) : g \in free}
<1>1. free # {}
  BY FreeHandle
<1>2. \A g \in Handle : Ahead(g) \in Nat
  <2> TAKE g \in Handle
  <2>1. g - nextHandle \in Int /\ MaxHandle \in Nat \ {0}
    BY HttpConstants DEF Handle
  <2>2. Ahead(g) \in 0 .. (MaxHandle - 1)
    BY <2>1, ModParts DEF Ahead
  <2> QED BY <2>2
<1>3. D \subseteq Nat /\ D # {}
  BY <1>1, <1>2
<1>4. PICK d \in D : \A e \in D : d <= e
  <2> HIDE DEF D
  <2> QED BY <1>3, Least
<1>5. PICK g \in free : d = Ahead(g)
  OBVIOUS
<1>6. g \in free /\ \A e \in free : Ahead(g) <= Ahead(e)
  BY <1>4, <1>5
<1>7. NewHandle(s) = CHOOSE h \in Handle : h \in free /\ \A e \in free : Ahead(h) <= Ahead(e)
  BY DEF NewHandle
<1>8. \E h \in Handle : h \in free /\ \A e \in free : Ahead(h) <= Ahead(e)
  BY <1>6
<1>9. NewHandle(s) \in free
  <2> DEFINE P(h) == h \in free /\ \A e \in free : Ahead(h) <= Ahead(e)
  <2>1. \E h \in Handle : P(h)
    BY <1>8
  <2>2. NewHandle(s) = CHOOSE h \in Handle : P(h)
    BY <1>7
  <2>3. P(NewHandle(s))
    <3> HIDE DEF P
    <3> QED BY <2>1, <2>2
  <2> QED BY <2>3
<1> QED BY <1>9

\* Slots that are done may be released.
LEMMA ReleaseKeeps ==
    ASSUME NEW s, TableInv(s), NEW R, \A i \in R \cap HttpSlot : s[i].done # 0
    PROVE  TableInv([i \in HttpSlot |-> IF i \in R THEN Empty ELSE s[i]])
<1> DEFINE t == [i \in HttpSlot |-> IF i \in R THEN Empty ELSE s[i]]
<1>1. Empty \in SlotRecord
  BY DEF Empty, SlotRecord
<1>2. t \in [HttpSlot -> SlotRecord]
  BY <1>1 DEF TableInv
<1>3. \A i \in HttpSlot : InUse(i, t) => InUse(i, s) /\ t[i] = s[i]
  BY DEF InUse, Empty
<1>4. \A i \in HttpSlot : s[i].done = 0 => t[i] = s[i]
  OBVIOUS
<1> HIDE DEF t
<1>5. HandlesApart(t)
  BY <1>3 DEF TableInv, HandlesApart
<1>6. \A r \in Request : worker[r].at \in Status => Serves(r, worker[r], t)
  BY <1>4 DEF TableInv, Serves
<1>7. \A i \in HttpSlot : InUse(i, t) => Held(i, t) /\ Granted(i, t)
  BY <1>3 DEF TableInv, Held, Granted
<1>8. TableInv(t)
  BY <1>2, <1>5, <1>6, <1>7 DEF TableInv
<1> QED BY <1>8 DEF t

LEMMA PumpKeeps ==
    ASSUME NEW s, TableInv(s)
    PROVE  TableInv(Pumped(s))
<1> DEFINE R == {i \in HttpSlot : s[i].cancelled /\ s[i].done # 0}
<1>1. Pumped(s) = [i \in HttpSlot |-> IF i \in R THEN Empty ELSE s[i]]
  BY DEF Pumped
<1>2. \A i \in R \cap HttpSlot : s[i].done # 0
  OBVIOUS
<1> HIDE DEF R
<1> QED BY <1>1, <1>2, ReleaseKeeps

\* Any may be cancelled.
LEMMA CancelKeeps ==
    ASSUME NEW s, TableInv(s), NEW R
    PROVE  TableInv([i \in HttpSlot |-> IF i \in R THEN Cancelled(s[i]) ELSE s[i]])
<1> DEFINE t == [i \in HttpSlot |-> IF i \in R THEN Cancelled(s[i]) ELSE s[i]]
<1>1. \A i \in HttpSlot : s[i] \in SlotRecord
  BY DEF TableInv
<1>2. \A i \in HttpSlot :
        /\ t[i] \in SlotRecord /\ t[i].request = s[i].request
        /\ t[i].handle = s[i].handle /\ t[i].owner = s[i].owner
        /\ t[i].done = s[i].done /\ t[i].page = s[i].page
        /\ ~t[i].cancelled => ~s[i].cancelled
  BY <1>1 DEF Cancelled, SlotRecord
<1>3. t \in [HttpSlot -> SlotRecord]
  BY <1>2
<1> HIDE DEF t
<1>4. \A i \in HttpSlot : InUse(i, t) => InUse(i, s)
  BY <1>2 DEF InUse
<1>5. HandlesApart(t)
  BY <1>2, <1>4 DEF TableInv, HandlesApart
<1>6. \A r \in Request : worker[r].at \in Status => Serves(r, worker[r], t)
  BY <1>2 DEF TableInv, Serves
<1>7. ASSUME NEW i \in HttpSlot, InUse(i, t) PROVE Held(i, t) /\ Granted(i, t)
  <2>1. Held(i, s) /\ Granted(i, s)
    BY <1>4, <1>7 DEF TableInv
  <2> QED BY <1>2, <2>1 DEF Held, Granted
<1>8. TableInv(t)
  BY <1>3, <1>5, <1>6, <1>7 DEF TableInv
<1> QED BY <1>8 DEF t

\* A call that only changes the table.
LEMMA TableStep ==
    ASSUME HttpInv, TableInv(slots'),
           UNCHANGED <<nextHandle, worker, asked, enabled, given>>
    PROVE  HttpInv'
  BY DEF HttpInv, HttpTypeOK, TableInv, HandlesApart, Serves, Held, Granted, InUse

LEMMA GetKeepsHttp ==
    ASSUME HttpInv, NEW o \in Owner, Get(o)
    PROVE  HttpInv'
<1> DEFINE s == Pumped(slots)
           free == {k \in HttpSlot : ~InUse(k, s)}
           i == CHOOSE k \in free : \A j \in free : k <= j
           h == NewHandle(s)
           q == asked + 1
           new == [Empty EXCEPT !.request = q, !.owner = o, !.handle = h]
<1>1. TableInv(s) /\ HttpTypeOK
  BY PumpKeeps DEF HttpInv
<1>2. /\ o \in enabled /\ asked < MaxRequest /\ asked' = q /\ UNCHANGED enabled
      /\ \/ slots' = s /\ UNCHANGED <<nextHandle, worker, given>>
         \/ /\ free # {} /\ nextHandle' = After(h)
            /\ slots' = [s EXCEPT ![i] = new]
            /\ worker' = [worker EXCEPT ![q] = [at |-> "asking", slot |-> i]]
            /\ given' = [given EXCEPT ![o][h] = q]
         \/ free # {} /\ nextHandle' = After(h) /\ slots' = s /\ UNCHANGED <<worker, given>>
  BY DEF Get
<1>3. /\ asked \in Nat /\ q \in Request /\ q \in 0 .. MaxRequest /\ q # Nothing
      /\ q > asked /\ \A r \in Request : r <= asked => r <= q /\ r # q
      /\ \A r \in Request : r > q => r > asked /\ r # q
  BY <1>1, <1>2, HttpConstants DEF HttpTypeOK, Request, Nothing
<1>4. /\ h \in Handle
      /\ \A j \in HttpSlot : InUse(j, s) => s[j].handle # h
  BY <1>1, NewHandleFree DEF TableInv, HttpTypeOK
<1>5. After(h) \in Handle
  BY <1>4, HttpConstants DEF After, Handle
<1> HIDE DEF s, h, q, i
<1>6. \A r \in Request : r > asked => worker[r].at = "none"
  BY DEF HttpInv
<1>7. CASE slots' = s /\ UNCHANGED <<worker, given>> /\ nextHandle' \in Handle
  <2>1. HttpTypeOK'
    BY <1>1, <1>2, <1>3, <1>7 DEF HttpTypeOK, TableInv
  <2>2. HandlesApart(slots')
    BY <1>1, <1>7 DEF TableInv
  <2>3. \A r \in Request : worker'[r].at \in Status => Serves(r, worker[r], slots)'
    BY <1>1, <1>2, <1>3, <1>7 DEF TableInv, Serves
  <2>4. ASSUME NEW j \in HttpSlot, InUse(j, slots') PROVE (Held(j, slots) /\ Granted(j, slots))'
    <3>1. Held(j, s) /\ Granted(j, s) /\ s[j].request \in Request
      BY <1>1, <1>7, <2>4 DEF TableInv, SlotRecord, InUse
    <3> QED BY <1>2, <1>3, <1>7, <3>1 DEF Held, Granted
  <2>5. TableInv(slots)'
    BY <1>1, <1>7, <2>2, <2>3, <2>4 DEF TableInv, HandlesApart, InUse
  <2> QED BY <1>2, <1>3, <1>6, <1>7, <2>1, <2>5 DEF HttpInv
<1>8. CASE /\ free # {} /\ nextHandle' = After(h)
           /\ slots' = [s EXCEPT ![i] = new]
           /\ worker' = [worker EXCEPT ![q] = [at |-> "asking", slot |-> i]]
           /\ given' = [given EXCEPT ![o][h] = q]
  <2>1. i \in HttpSlot /\ ~InUse(i, s)
    <3>1. free \subseteq Nat
      BY DEF HttpSlot
    <3>2. \E k \in free : \A j \in free : k <= j
      BY <1>8, <3>1, Least
    <3>3. i \in free
      BY <3>2 DEF i
    <3> QED BY <3>3
  <2>2. /\ new.request = q /\ new.owner = o /\ new.handle = h /\ new.done = 0
        /\ ~new.cancelled /\ new.page = Nothing /\ new \in SlotRecord
    BY <1>3, <1>4 DEF Empty, SlotRecord
  <2> HIDE DEF new, free
  <2>3. /\ slots'[i] = new /\ slots' \in [HttpSlot -> SlotRecord]
        /\ \A j \in HttpSlot : j # i => slots'[j] = s[j]
    BY <1>1, <1>8, <2>1, <2>2 DEF TableInv
  <2>4. /\ worker'[q].at = "asking" /\ worker'[q].slot = i
        /\ \A r \in Request : r # q => worker'[r] = worker[r]
        /\ worker' \in [Request -> [at : Status \cup {"none", "over"},
                                    slot : HttpSlot \cup {Nothing}]]
    BY <1>1, <1>3, <1>8, <2>1 DEF HttpTypeOK, Status
  <2>5. /\ given'[o][h] = q
        /\ \A p \in Owner, g \in Handle :
             p # o \/ g # h => given'[p][g] = given[p][g]
        /\ given' \in [Owner -> [Handle -> Request \cup {Nothing}]]
    BY <1>1, <1>3, <1>4, <1>8 DEF HttpTypeOK
  <2>6. HttpTypeOK'
    BY <1>1, <1>2, <1>3, <1>5, <1>8, <2>3, <2>4, <2>5 DEF HttpTypeOK
  <2>7. HandlesApart(slots')
    <3> SUFFICES ASSUME NEW j \in HttpSlot, NEW k \in HttpSlot, InUse(j, slots'),
                        InUse(k, slots'), slots'[j].handle = slots'[k].handle
                 PROVE  j = k
      BY DEF HandlesApart
    <3>1. \A m \in HttpSlot : m # i /\ InUse(m, slots') => InUse(m, s) /\ slots'[m] = s[m]
      BY <2>3 DEF InUse
    <3>2. CASE j # i /\ k # i
      BY <1>1, <3>1, <3>2 DEF TableInv, HandlesApart
    <3>3. CASE j = i /\ k # i
      BY <1>4, <2>2, <2>3, <3>1, <3>3
    <3>4. CASE j # i /\ k = i
      BY <1>4, <2>2, <2>3, <3>1, <3>4
    <3> QED BY <3>2, <3>3, <3>4
  <2>8. ASSUME NEW r \in Request, worker'[r].at \in Status
        PROVE  Serves(r, worker[r], slots)'
    <3>1. CASE r = q
      BY <1>2, <1>3, <2>1, <2>2, <2>3, <2>4, <3>1 DEF Serves
    <3>2. CASE r # q
      <4>1. worker[r].at \in Status /\ worker'[r] = worker[r]
        BY <2>4, <2>8, <3>2
      <4>2. Serves(r, worker[r], s)
        BY <1>1, <4>1 DEF TableInv
      <4>3. worker[r].slot # i
        BY <2>1, <4>2 DEF Serves, InUse, Request, Nothing
      <4> QED BY <1>2, <1>3, <2>3, <4>1, <4>2, <4>3 DEF Serves
    <3> QED BY <3>1, <3>2
  <2>9. ASSUME NEW j \in HttpSlot, InUse(j, slots')
        PROVE  Held(j, slots)' /\ Granted(j, slots)'
    <3>1. CASE j = i
      BY <1>2, <1>3, <1>4, <2>2, <2>3, <2>4, <2>5, <3>1 DEF Held, Granted, Status
    <3>2. CASE j # i
      <4>1. slots'[j] = s[j] /\ InUse(j, s)
        BY <2>3, <2>9, <3>2 DEF InUse
      <4>2. Held(j, s) /\ Granted(j, s) /\ s[j].request \in Request
        BY <1>1, <4>1 DEF TableInv, SlotRecord, InUse
      <4>3. s[j].request # q /\ s[j].request <= q
        BY <1>3, <4>2 DEF Held
      <4>4. Held(j, slots)'
        BY <1>2, <2>4, <4>1, <4>2, <4>3 DEF Held
      <4>5. Granted(j, slots)'
        BY <1>2, <1>4, <2>5, <4>1, <4>2 DEF Granted, Held
      <4> QED BY <4>4, <4>5
    <3> QED BY <3>1, <3>2
  <2>10. TableInv(slots)'
    BY <2>3, <2>7, <2>8, <2>9 DEF TableInv, HandlesApart, InUse
  <2>11. \A r \in Request : r > asked' => worker'[r].at = "none"
    BY <1>2, <1>3, <1>6, <2>4
  <2> QED BY <2>6, <2>10, <2>11 DEF HttpInv
<1>9. nextHandle \in Handle
  BY <1>1 DEF HttpTypeOK
<1> QED BY <1>2, <1>5, <1>7, <1>8, <1>9

LEMMA PollKeepsHttp ==
    ASSUME HttpInv, NEW o \in Owner, NEW h \in Handle, Poll(o, h) \/ Cancel(o, h)
    PROVE  HttpInv'
<1> DEFINE s == Pumped(slots)
           found == Found(s, o, h)
           answered == {i \in found : ~s[i].cancelled /\ s[i].done # 0}
<1>1. TableInv(s)
  BY PumpKeeps DEF HttpInv
<1>2. CASE Poll(o, h)
  <2>1. slots' = [i \in HttpSlot |-> IF i \in answered THEN Empty ELSE s[i]]
        /\ UNCHANGED <<nextHandle, worker, asked, enabled, given>>
    BY <1>2 DEF Poll
  <2>2. \A i \in answered \cap HttpSlot : s[i].done # 0
    OBVIOUS
  <2> HIDE DEF s, answered
  <2> QED BY <1>1, <2>1, <2>2, ReleaseKeeps, TableStep
<1>3. CASE Cancel(o, h)
  <2> DEFINE t == [i \in HttpSlot |-> IF i \in found THEN Cancelled(s[i]) ELSE s[i]]
  <2>1. slots' = Pumped(t)
        /\ UNCHANGED <<nextHandle, worker, asked, enabled, given>>
    BY <1>3 DEF Cancel
  <2>2. TableInv(t)
    <3> HIDE DEF s, found
    <3> QED BY <1>1, CancelKeeps
  <2> HIDE DEF t
  <2> QED BY <2>1, <2>2, PumpKeeps, TableStep
<1> QED BY <1>2, <1>3

LEMMA UnloadKeepsHttp ==
    ASSUME HttpInv, NEW o \in Owner, Unload(o)
    PROVE  HttpInv'
<1> DEFINE R == {i \in HttpSlot : InUse(i, slots) /\ slots[i].owner = o}
           t == [i \in HttpSlot |-> IF i \in R THEN Cancelled(slots[i]) ELSE slots[i]]
           u == Pumped(t)
<1>1. /\ enabled' = enabled \ {o} /\ slots' = u
      /\ given' = [given EXCEPT ![o] = [h \in Handle |-> Nothing]]
      /\ UNCHANGED <<nextHandle, worker, asked>>
  <2>1. t = [i \in HttpSlot |->
                IF InUse(i, slots) /\ slots[i].owner = o THEN Cancelled(slots[i])
                ELSE slots[i]]
    OBVIOUS
  <2> QED BY <2>1 DEF Unload
<1>2. TableInv(slots) /\ HttpTypeOK
  BY DEF HttpInv
<1>3. TableInv(t)
  <2> HIDE DEF R
  <2> QED BY <1>2, CancelKeeps
<1>4. TableInv(u)
  <2> HIDE DEF t
  <2> QED BY <1>3, PumpKeeps
<1>5. ASSUME NEW i \in HttpSlot, InUse(i, u), ~u[i].cancelled
      PROVE  u[i].owner # o
  <2>1. u[i] = t[i]
    BY <1>5 DEF Pumped, InUse, Empty
  <2>2. i \notin R
    BY <1>2, <1>5, <2>1 DEF Cancelled, TableInv, SlotRecord
  <2>3. t[i] = slots[i]
    BY <2>2
  <2> QED BY <1>5, <2>1, <2>2, <2>3 DEF InUse
<1> HIDE DEF u
<1>6. HttpTypeOK'
  BY <1>1, <1>2, <1>4 DEF HttpTypeOK, TableInv
<1>7. \A r \in Request : worker'[r].at \in Status => Serves(r, worker[r], slots)'
  BY <1>1, <1>4 DEF TableInv, Serves
<1>8. ASSUME NEW i \in HttpSlot, InUse(i, slots')
      PROVE  Held(i, slots)' /\ Granted(i, slots)'
  <2>1. Held(i, u) /\ Granted(i, u)
    BY <1>1, <1>4, <1>8 DEF TableInv
  <2>2. Held(i, slots)'
    BY <1>1, <2>1 DEF Held
  <2>3. ~u[i].cancelled => u[i].owner # o
    BY <1>1, <1>5, <1>8
  <2>4. \A p \in Owner : p # o => given'[p] = given[p]
    BY <1>1, <1>2 DEF HttpTypeOK
  <2>5. Granted(i, slots)'
    BY <1>1, <2>1, <2>3, <2>4 DEF Granted, Held
  <2> QED BY <2>2, <2>5
<1>9. TableInv(slots)'
  BY <1>1, <1>4, <1>7, <1>8 DEF TableInv, HandlesApart, InUse
<1> QED BY <1>1, <1>6, <1>9 DEF HttpInv

LEMMA LoadKeepsHttp ==
    ASSUME HttpInv, NEW o \in Owner, Load(o)
    PROVE  HttpInv'
<1>1. HttpTypeOK'
  BY DEF HttpInv, HttpTypeOK, Load
<1>2. TableInv(slots)'
  BY DEF HttpInv, TableInv, Load, HandlesApart, InUse, Serves, Held, Granted
<1> QED BY <1>1, <1>2 DEF HttpInv, Load

\* A worker writes into its own slot, of which it changes the page, or says
\* that it is over.
LEMMA WriteKeepsHttp ==
    ASSUME HttpInv, NEW r \in Request, worker[r].at \in Status,
           NEW at \in Status \cup {"over"}, NEW page \in {Nothing, r},
           NEW done \in {-1, 0, 1},
           done = 1 \/ at = "publishing" => page = r, done # 0 <=> at = "over",
           Write(r, at, [MySlot(r) EXCEPT !.page = page, !.done = done])
    PROVE  HttpInv'
<1> DEFINE new == [MySlot(r) EXCEPT !.page = page, !.done = done]
<1>0. PICK k \in HttpSlot : k = worker[r].slot
  BY DEF HttpInv, TableInv, Serves
<1>1. /\ worker' = [worker EXCEPT ![r].at = at]
      /\ slots' = [slots EXCEPT ![k] = new]
      /\ UNCHANGED <<nextHandle, asked, enabled, given>>
  BY <1>0 DEF Write
<1>2. HttpTypeOK /\ TableInv(slots) /\ Serves(r, worker[r], slots)
  BY DEF HttpInv, TableInv
<1>3. /\ k \in HttpSlot /\ slots[k].request = r /\ r # Nothing /\ r <= asked
      /\ slots[k] \in SlotRecord /\ InUse(k, slots) /\ Held(k, slots) /\ Granted(k, slots)
  BY <1>0, <1>2 DEF Serves, InUse, TableInv, Request, Nothing
<1>4. /\ new \in SlotRecord /\ new.request = r /\ new.handle = slots[k].handle
      /\ new.owner = slots[k].owner /\ new.cancelled = slots[k].cancelled
      /\ new.page = page /\ new.done = done
  BY <1>0, <1>3 DEF MySlot, SlotRecord
<1> HIDE DEF new
<1>5. /\ slots' \in [HttpSlot -> SlotRecord] /\ slots'[k] = new
      /\ \A j \in HttpSlot : j # k => slots'[j] = slots[j]
  BY <1>1, <1>2, <1>3, <1>4 DEF TableInv
<1>6. /\ worker' \in [Request -> [at : Status \cup {"none", "over"},
                                  slot : HttpSlot \cup {Nothing}]]
      /\ worker'[r].at = at /\ worker'[r].slot = k
      /\ \A p \in Request : p # r => worker'[p] = worker[p]
  BY <1>0, <1>1, <1>2 DEF HttpTypeOK
<1>7. HttpTypeOK'
  BY <1>1, <1>2, <1>5, <1>6 DEF HttpTypeOK
<1>8. \A j \in HttpSlot : /\ slots'[j].request = slots[j].request
                          /\ slots'[j].handle = slots[j].handle
  BY <1>3, <1>4, <1>5
<1>9. HandlesApart(slots')
  BY <1>2, <1>8 DEF TableInv, HandlesApart, InUse
<1>10. ASSUME NEW p \in Request, worker'[p].at \in Status
       PROVE  Serves(p, worker[p], slots)'
  <2>1. CASE p = r
    <3>1. done = 0 /\ at \in Status
      BY <1>6, <1>10, <2>1 DEF Status
    <3> QED BY <1>1, <1>3, <1>4, <1>5, <1>6, <2>1, <3>1 DEF Serves
  <2>2. CASE p # r
    <3>1. Serves(p, worker[p], slots) /\ worker'[p] = worker[p]
      BY <1>2, <1>6, <1>10, <2>2 DEF TableInv
    <3>2. worker[p].slot # k
      BY <1>3, <2>2, <3>1 DEF Serves
    <3> QED BY <1>1, <1>5, <3>1, <3>2 DEF Serves
  <2> QED BY <2>1, <2>2
<1>11. ASSUME NEW j \in HttpSlot, InUse(j, slots')
       PROVE  Held(j, slots)' /\ Granted(j, slots)'
  <2>1. CASE j = k
    <3>1. Held(k, slots)'
      BY <1>1, <1>3, <1>4, <1>5, <1>6 DEF Held, Status
    <3>2. Granted(k, slots)'
      BY <1>1, <1>3, <1>4, <1>5 DEF Granted
    <3> QED BY <2>1, <3>1, <3>2
  <2>2. CASE j # k
    <3>1. slots'[j] = slots[j] /\ InUse(j, slots)
      BY <1>5, <1>11, <2>2 DEF InUse
    <3>2. Held(j, slots) /\ Granted(j, slots) /\ slots[j].request \in Request
      BY <1>2, <3>1 DEF TableInv, SlotRecord, InUse
    <3>3. slots[j].done = 0 => slots[j].request # r
      <4> SUFFICES ASSUME slots[j].done = 0, slots[j].request = r PROVE FALSE
        OBVIOUS
      <4>1. worker[r].slot = j
        BY <3>2 DEF Held
      <4> QED BY <1>0, <2>2, <4>1
    <3>4. Held(j, slots)'
      BY <1>1, <1>6, <3>1, <3>2, <3>3 DEF Held
    <3>5. Granted(j, slots)'
      BY <1>1, <3>1, <3>2 DEF Granted
    <3> QED BY <3>4, <3>5
  <2> QED BY <2>1, <2>2
<1>12. TableInv(slots)'
  BY <1>5, <1>9, <1>10, <1>11 DEF TableInv, HandlesApart, InUse
<1>13. \A p \in Request : p > asked' => worker'[p].at = "none"
  <2>1. \A p \in Request : p > asked => p # r
    BY <1>2, <1>3 DEF HttpTypeOK, Request
  <2> QED BY <1>1, <1>6, <2>1 DEF HttpInv
<1> QED BY <1>7, <1>12, <1>13 DEF HttpInv

LEMMA WorkerKeepsHttp ==
    ASSUME HttpInv, NEW r \in Request,
           Respond(r) \/ Complete(r) \/ PublishPage(r) \/ FailFetch(r)
    PROVE  HttpInv'
<1> DEFINE m == MySlot(r)
<1>1. worker[r].at \in Status
  BY DEF Respond, Complete, PublishPage, FailFetch, Status
<1>2. /\ m \in SlotRecord /\ m.done = 0 /\ m.page \in {Nothing, r}
      /\ worker[r].at = "publishing" => m.page = r
  <2>1. Serves(r, worker[r], slots) /\ TableInv(slots)
    BY <1>1 DEF HttpInv, TableInv
  <2>2. worker[r].slot \in HttpSlot /\ m = slots[worker[r].slot] /\ m.request = r
    BY <2>1 DEF Serves, MySlot
  <2>3. m \in SlotRecord /\ Held(worker[r].slot, slots)
    BY <2>1, <2>2 DEF TableInv, InUse, Request, Nothing
  <2> QED BY <2>1, <2>2, <2>3 DEF Serves, Held
<1>3. m = [m EXCEPT !.page = m.page, !.done = 0]
  BY <1>2 DEF SlotRecord
<1>4. CASE Respond(r)
  <2>1. Write(r, "reading", [m EXCEPT !.page = r, !.done = 0])
    <3>1. [m EXCEPT !.page = r] = [m EXCEPT !.page = r, !.done = 0]
      BY <1>2 DEF SlotRecord
    <3> HIDE DEF m
    <3> QED BY <1>4, <3>1 DEF Respond, m
  <2> QED BY <1>1, <2>1, WriteKeepsHttp DEF Status
<1>5. CASE Complete(r)
  <2>1. Write(r, "publishing", [m EXCEPT !.page = r, !.done = 0])
    <3>1. [m EXCEPT !.page = r] = [m EXCEPT !.page = r, !.done = 0]
      BY <1>2 DEF SlotRecord
    <3> HIDE DEF m
    <3> QED BY <1>5, <3>1 DEF Complete, m
  <2> QED BY <1>1, <2>1, WriteKeepsHttp DEF Status
<1> DEFINE at == "over"
           ends == 1
           breaks == -1
<1>6. /\ at \in Status \cup {"over"} /\ at # "publishing" /\ at = "over"
      /\ ends \in {-1, 0, 1} /\ ends # 0
      /\ breaks \in {-1, 0, 1} /\ breaks # 0 /\ breaks # 1
  OBVIOUS
<1>7. CASE PublishPage(r)
  <2>1. m.page = r
    BY <1>2, <1>7 DEF PublishPage
  <2>2. Write(r, at, [m EXCEPT !.page = r, !.done = ends])
    <3>1. [m EXCEPT !.done = ends] = [m EXCEPT !.page = r, !.done = ends]
      BY <1>2, <2>1 DEF SlotRecord
    <3> HIDE DEF m
    <3> QED BY <1>7, <3>1 DEF PublishPage, m
  <2> HIDE DEF at, ends
  <2> QED BY <1>1, <1>6, <2>2, WriteKeepsHttp
<1>8. CASE FailFetch(r)
  <2> DEFINE page == m.page
  <2>1. Write(r, at, [m EXCEPT !.page = page, !.done = breaks])
    <3>1. [m EXCEPT !.done = breaks] = [m EXCEPT !.page = page, !.done = breaks]
      BY <1>2 DEF SlotRecord
    <3> HIDE DEF m, page
    <3> QED BY <1>8, <3>1 DEF FailFetch, m
  <2>2. page \in {Nothing, r}
    BY <1>2
  <2> HIDE DEF page, at, breaks
  <2> QED BY <1>1, <1>6, <2>1, <2>2, WriteKeepsHttp
<1> QED BY <1>4, <1>5, <1>7, <1>8

LEMMA HttpInv_Init == HttpInit => HttpInv
<1> SUFFICES ASSUME HttpInit PROVE HttpInv
  OBVIOUS
<1>1. Empty \in SlotRecord /\ \A i \in HttpSlot : ~InUse(i, slots)
  BY DEF HttpInit, Empty, SlotRecord, InUse
<1>2. HttpTypeOK
  BY <1>1, HttpConstants DEF HttpInit, HttpTypeOK, Handle
<1>3. TableInv(slots)
  BY <1>1 DEF HttpInit, TableInv, HandlesApart, Status
<1> QED BY <1>2, <1>3 DEF HttpInit, HttpInv

LEMMA HttpInv_Next == HttpInv /\ [HttpNext]_httpVars => HttpInv'
<1> SUFFICES ASSUME HttpInv, [HttpNext]_httpVars PROVE HttpInv'
  OBVIOUS
<1>1. ASSUME NEW o \in Owner, Get(o) PROVE HttpInv'
  BY <1>1, GetKeepsHttp
<1>2. ASSUME NEW o \in Owner, Unload(o) PROVE HttpInv'
  BY <1>2, UnloadKeepsHttp
<1>3. ASSUME NEW o \in Owner, Load(o) PROVE HttpInv'
  BY <1>3, LoadKeepsHttp
<1>4. ASSUME NEW o \in Owner, NEW h \in Handle, Poll(o, h) \/ Cancel(o, h)
      PROVE  HttpInv'
  BY <1>4, PollKeepsHttp
<1>5. ASSUME NEW r \in Request,
             Respond(r) \/ Complete(r) \/ PublishPage(r) \/ FailFetch(r)
      PROVE  HttpInv'
  BY <1>5, WorkerKeepsHttp
<1>6. CASE UNCHANGED httpVars
  <2>1. TableInv(slots') /\ UNCHANGED <<nextHandle, worker, asked, enabled, given>>
    BY <1>6 DEF httpVars, HttpInv
  <2> QED BY <2>1, TableStep
<1> QED BY <1>1, <1>2, <1>3, <1>4, <1>5, <1>6 DEF HttpNext

LEMMA HttpInvSound == HttpInv => AnswersAreOwn
<1> SUFFICES ASSUME HttpInv PROVE AnswersAreOwn
  OBVIOUS
<1>1. TableInv(slots)
  BY DEF HttpInv
<1>2. \A r \in Request :
        worker[r].at \in {"asking", "reading", "publishing"} => MySlot(r).request = r
  BY <1>1 DEF TableInv, Serves, MySlot, Status
<1>3. ASSUME NEW i \in HttpSlot, InUse(i, slots)
      PROVE  LET s == slots[i]
             IN  /\ s.page \in {Nothing, s.request}
                 /\ s.done = 1 => s.page = s.request
                 /\ ~s.cancelled => s.owner \in enabled
                                    /\ given[s.owner][s.handle] = s.request
                 /\ Found(slots, s.owner, s.handle) = {i}
  <2>1. Held(i, slots) /\ Granted(i, slots)
    BY <1>1, <1>3 DEF TableInv
  <2>2. Found(slots, slots[i].owner, slots[i].handle) = {i}
    BY <1>1, <1>3 DEF TableInv, HandlesApart, Found
  <2> QED BY <2>1, <2>2 DEF Held, Granted
<1> QED BY <1>2, <1>3 DEF AnswersAreOwn

\* mod_http.c keeps requests apart for every number of mods, slots and
\* handles: a worker only writes into its own request's slot, and a handle
\* finds only the request it was given for, also after slots, handles and
\* mods' addresses have been used again.
THEOREM AnswersAreOwnAlways == HttpSpec => []AnswersAreOwn
  BY HttpInv_Init, HttpInv_Next, HttpInvSound, PTL DEF HttpSpec

-----------------------------------------------------------------------------
(***************************************************************************)
(* The audio stream: what makes PlaysInOrder inductive.                    *)
(***************************************************************************)
StreamRecord ==
    [at : {"none", "load", "decide", "wait", "render", "exit"},
     stop : BOOLEAN, ready : BOOLEAN, failed : BOOLEAN,
     read : 0 .. (Modulus - 1), write : 0 .. (Modulus - 1), used : 0 .. Capacity,
     pcm : [Position -> {Torn} \cup (0 .. (Modulus - 1))]]

SoundTypeOK ==
    /\ stream \in [Stream -> StreamRecord]
    /\ tune \in Stream \cup {NoStream} /\ pump \in Stream \cup {NoStream}
    /\ callback \in {"idle", "frame", "copy"}

\* Samples written and not read yet.
Pending(s) == Word(s.write - s.read)

\* They are in the ring, each at its position; and what the producer counted
\* has only become less.
Playable(s) ==
    /\ Pending(s) <= Capacity
    /\ \A k \in 0 .. (Pending(s) - 1) : s.pcm[PositionOf(s.read + k)] = Word(s.read + k)
    /\ s.at \in {"decide", "render"} => Pending(s) <= s.used
    /\ s.at = "render" => s.used + Block <= Capacity

SoundInv ==
    /\ SoundTypeOK
    /\ \A i \in Stream : Playable(stream[i])
    /\ \A i \in Stream : stream[i].at # "none" => i \in {tune, pump}
    /\ tune # NoStream => stream[tune].at # "none" /\ ~stream[tune].stop
    /\ pump # NoStream => pump # tune
    /\ callback # "idle" => tune # NoStream
    /\ callback = "copy" => Pending(stream[tune]) >= 1

LEMMA SoundConstants ==
    /\ Block \in Nat \ {0} /\ Capacity \in Nat \ {0} /\ Block <= Capacity
    /\ Modulus \in Nat \ {0} /\ Modulus > Capacity /\ Modulus % Capacity = 0
    /\ NoStream \notin Stream
<1>1. /\ Block \in Nat \ {0} /\ Blocks \in Nat \ {0} /\ NoStream \notin Stream
      /\ Modulus \in Nat /\ Modulus % Capacity = 0 /\ Modulus > Capacity
  BY StreamAssumption
<1>2. Capacity \in Nat /\ Block <= Capacity
  <2>1. PICK c \in Nat : Blocks = c + 1
    BY <1>1, Blocks - 1 \in Nat, Blocks = (Blocks - 1) + 1
  <2>2. Block * Blocks = Block * c + Block
    BY <1>1, <2>1, SMTT(30)
  <2>3. Block * c \in Nat
    BY <1>1, <2>1, SMTT(30)
  <2> QED BY <1>1, <2>2, <2>3 DEF Capacity
<1> QED BY <1>1, <1>2

\* Adding turns of the range changes no word and no position.
LEMMA ModTurns ==
    ASSUME NEW h \in Nat \ {0}, NEW n \in Int, NEW q \in Int
    PROVE  (n + h * q) % h = n % h
<1> DEFINE b == n \div h
           r == n % h
           m == n + h * q
<1>1. n = h * b + r /\ b \in Int /\ r \in 0 .. (h - 1)
  BY ModParts
<1> HIDE DEF b, r
<1>2. m = h * (b + q) + r /\ m \in Int /\ b + q \in Int
  BY <1>1, SMTT(30)
<1> HIDE DEF m
<1>3. m % h = r
  BY <1>1, <1>2, ModUnique
<1> QED BY <1>3 DEF m, r

LEMMA WordParts ==
    ASSUME NEW n \in Int
    PROVE  /\ Word(n) \in 0 .. (Modulus - 1)
           /\ \E q \in Int : n = Word(n) + Modulus * q
<1>1. /\ n % Modulus \in 0 .. (Modulus - 1) /\ n \div Modulus \in Int
      /\ n = Modulus * (n \div Modulus) + (n % Modulus)
  BY SoundConstants, ModParts
<1>2. Modulus * (n \div Modulus) \in Int
  BY <1>1, SoundConstants, SMTT(30)
<1>3. n = Word(n) + Modulus * (n \div Modulus)
  BY <1>1, <1>2, SoundConstants DEF Word
<1> QED BY <1>1, <1>3 DEF Word

LEMMA WordSmall ==
    ASSUME NEW n \in 0 .. (Modulus - 1)
    PROVE  Word(n) = n
<1>1. n \in Int /\ 0 \in Int /\ n = Modulus * 0 + n
  BY SoundConstants, SMTT(30)
<1> QED BY <1>1, SoundConstants, ModUnique DEF Word

\* A word stands for its number in sums and differences.
LEMMA WordSum ==
    ASSUME NEW a \in Int, NEW k \in Int
    PROVE  Word(Word(a) + k) = Word(a + k) /\ Word(k - Word(a)) = Word(k - a)
<1>1. PICK q \in Int : a = Word(a) + Modulus * q
  BY WordParts
<1>2. Word(a) \in Int /\ Modulus * q \in Int
  BY SoundConstants, WordParts, SMTT(30)
<1> DEFINE u == Word(a) + k
           v == k - a
<1>3. a + k = u + Modulus * q /\ u \in Int
  BY <1>1, <1>2
<1>4. k - Word(a) = v + Modulus * q /\ v \in Int
  BY <1>1, <1>2
<1> HIDE DEF u, v
<1>5. (u + Modulus * q) % Modulus = u % Modulus
      /\ (v + Modulus * q) % Modulus = v % Modulus
  <2>1. Modulus \in Nat \ {0}
    BY SoundConstants
  <2> QED BY <1>3, <1>4, <2>1, ModTurns
<1>6. Word(a + k) = Word(u) /\ Word(k - Word(a)) = Word(v)
  <2>1. Word(a + k) = (u + Modulus * q) % Modulus
    BY <1>3 DEF Word
  <2>2. Word(k - Word(a)) = (v + Modulus * q) % Modulus
    <3> DEFINE y == k - Word(a)
    <3>1. y = v + Modulus * q
      BY <1>4
    <3> HIDE DEF y
    <3>2. Word(y) = (v + Modulus * q) % Modulus
      BY <3>1 DEF Word
    <3> QED BY <3>2 DEF y
  <2> QED BY <1>5, <2>1, <2>2 DEF Word
<1> QED BY <1>6 DEF u, v

\* A word has the position of its number: the ring divides the range.
LEMMA WordPosition ==
    ASSUME NEW n \in Int
    PROVE  PositionOf(Word(n)) = PositionOf(n) /\ PositionOf(n) \in Position
<1> DEFINE c == Modulus \div Capacity
           w == Word(n)
<1>1. Modulus = Capacity * c /\ c \in Int
  <2>1. Capacity \in Nat \ {0} /\ Modulus \in Int /\ Modulus % Capacity = 0
    BY SoundConstants
  <2>2. Modulus = Capacity * c + 0 /\ c \in Int
    BY <2>1, ModParts
  <2>3. Capacity * c \in Int
    BY <2>1, <2>2, SMTT(30)
  <2> QED BY <2>2, <2>3
<1>2. PICK q \in Int : n = w + Modulus * q
  BY WordParts
<1>3. w \in Int
  BY WordParts
<1> HIDE DEF c, w
<1>4. Modulus * q = Capacity * (c * q) /\ c * q \in Int
  BY <1>1, SoundConstants, SMTT(30)
<1>5. PositionOf(n) = PositionOf(w)
  <2> DEFINE e == c * q
  <2>1. n = w + Capacity * e /\ e \in Int /\ Capacity \in Nat \ {0}
    BY <1>2, <1>4, SoundConstants
  <2> HIDE DEF e
  <2>2. (w + Capacity * e) % Capacity = w % Capacity
    BY <1>3, <2>1, ModTurns
  <2> QED BY <2>1, <2>2 DEF PositionOf
<1>6. PositionOf(n) \in Position
  BY ModParts, SoundConstants DEF PositionOf, Position
<1> QED BY <1>5, <1>6 DEF w

LEMMA PositionsApart ==
    ASSUME NEW a \in Int, NEW b \in Int, a < b, b - a < Capacity
    PROVE  PositionOf(a) # PositionOf(b)
<1> SUFFICES ASSUME PositionOf(a) = PositionOf(b) PROVE FALSE
  OBVIOUS
<1>1. a + Capacity <= b
  BY CongruentApart, SoundConstants DEF PositionOf
<1> QED BY <1>1, SoundConstants

\* The block at write is the Block positions behind those that are pending.
LEMMA BlockIs ==
    ASSUME NEW s \in StreamRecord, NEW j \in Int
    PROVE  /\ Pending(s) \in 0 .. (Modulus - 1)
           /\ Word(s.write + j) = Word(s.read + (Pending(s) + j))
           /\ PositionOf(s.write + j) = PositionOf(s.read + (Pending(s) + j))
<1> DEFINE d == Pending(s)
           r == s.read
           w == s.write
<1>1. r \in 0 .. (Modulus - 1) /\ w \in 0 .. (Modulus - 1) /\ r \in Int /\ w \in Int
  BY SoundConstants DEF StreamRecord
<1>2. d = Word(w - r) /\ d \in 0 .. (Modulus - 1) /\ d \in Int
  <2>1. d = Word(w - r) /\ w - r \in Int
    BY <1>1 DEF Pending
  <2> QED BY <2>1, WordParts
<1> HIDE DEF d, r, w
<1>3. Word(w + j) = Word(r + (d + j))
  <2> DEFINE a == w - r
             k == r + j
  <2>1. Word(Word(a) + k) = Word(a + k)
    BY <1>1, WordSum
  <2>2. a + k = w + j /\ d + k = r + (d + j)
    BY <1>1, <1>2
  <2> QED BY <1>2, <2>1, <2>2
<1>4. PositionOf(w + j) = PositionOf(r + (d + j))
  <2>1. w + j \in Int /\ r + (d + j) \in Int
    BY <1>1, <1>2
  <2> QED BY <1>3, <2>1, WordPosition
<1> QED BY <1>2, <1>3, <1>4 DEF d, r, w

LEMMA PendingApart ==
    ASSUME NEW s \in StreamRecord, Pending(s) + Block <= Capacity,
           NEW k \in 0 .. (Pending(s) - 1)
    PROVE  PositionOf(s.read + k) \notin BlockAt(s.write)
<1> SUFFICES ASSUME NEW j \in 0 .. (Block - 1),
                    PositionOf(s.read + k) = PositionOf(s.write + j)
             PROVE  FALSE
  BY DEF BlockAt
<1> DEFINE d == Pending(s)
           r == s.read
           a == r + k
           b == r + (d + j)
<1>1. r \in Int /\ d \in Int /\ j \in Int /\ k \in Int
  BY BlockIs, SoundConstants DEF StreamRecord
<1>2. PositionOf(b) = PositionOf(a)
  BY <1>1, BlockIs
<1> HIDE DEF d, r
<1>3. a \in Int /\ b \in Int /\ a < b /\ b - a < Capacity
  BY <1>1, SoundConstants DEF d
<1> HIDE DEF a, b
<1> QED BY <1>2, <1>3, PositionsApart

\* A record of which the producer or its end changed no sample.
LEMMA SameSamples ==
    ASSUME NEW s \in StreamRecord, Playable(s), NEW t \in StreamRecord,
           t.read = s.read, t.write = s.write, t.pcm = s.pcm,
           t.at \in {"decide", "render"} => Pending(s) <= t.used,
           t.at = "render" => t.used + Block <= Capacity
    PROVE  Playable(t)
  BY DEF Playable, Pending

LEMMA UnusedType ==
    /\ Unused \in StreamRecord /\ Unused.read = 0 /\ Unused.write = 0
    /\ Unused.at = "none" /\ ~Unused.stop
  BY SoundConstants DEF Unused, StreamRecord

LEMMA NothingPending ==
    ASSUME NEW s \in StreamRecord, s.read = 0, s.write = 0,
           s.at = "render" => s.used + Block <= Capacity
    PROVE  Playable(s) /\ Pending(s) = 0
<1>1. Pending(s) = 0
  BY WordSmall, SoundConstants DEF Pending
<1>2. s.used >= 0
  BY SoundConstants DEF StreamRecord
<1> QED BY <1>1, <1>2, SoundConstants DEF Playable

LEMMA RenderPlayable ==
    ASSUME NEW s \in StreamRecord, Playable(s), s.at = "decide", Room(s.used)
    PROVE  LET t == [s EXCEPT !.at = "render",
                       !.pcm = [k \in Position |->
                                  IF k \in BlockAt(s.write) THEN Torn ELSE @[k]]]
           IN  t \in StreamRecord /\ Playable(t) /\ Pending(t) = Pending(s)
<1> DEFINE pcm == [k \in Position |-> IF k \in BlockAt(s.write) THEN Torn ELSE s.pcm[k]]
           t == [s EXCEPT !.at = "render", !.pcm = pcm]
<1>1. pcm \in [Position -> {Torn} \cup (0 .. (Modulus - 1))]
  BY DEF StreamRecord
<1>2. \A k \in Position : k \notin BlockAt(s.write) => pcm[k] = s.pcm[k]
  OBVIOUS
<1> HIDE DEF pcm
<1>3. /\ t \in StreamRecord /\ t.read = s.read /\ t.write = s.write
      /\ t.used = s.used /\ t.pcm = pcm
  BY <1>1 DEF StreamRecord
<1> HIDE DEF t
<1>4. Pending(t) = Pending(s)
  BY <1>3 DEF Pending
<1>5. Pending(s) <= s.used /\ s.used + Block <= Capacity /\ s.used \in Int
  BY SoundConstants DEF Playable, Room, StreamRecord
<1>6. Pending(s) \in Int /\ s.read \in Int
  BY BlockIs, 0 \in Int, SoundConstants DEF StreamRecord
<1>7. Pending(s) + Block <= Capacity
  BY <1>5, <1>6, SoundConstants
<1>8. ASSUME NEW k \in 0 .. (Pending(s) - 1)
      PROVE  pcm[PositionOf(s.read + k)] = Word(s.read + k)
  <2>1. PositionOf(s.read + k) \notin BlockAt(s.write)
    BY <1>7, PendingApart
  <2>2. PositionOf(s.read + k) \in Position
    <3>1. s.read + k \in Int
      BY <1>6
    <3> QED BY <3>1, WordPosition
  <2> QED BY <1>2, <2>1, <2>2 DEF Playable
<1>9. Playable(t)
  BY <1>3, <1>4, <1>5, <1>8 DEF Playable
<1>10. t = [s EXCEPT !.at = "render",
              !.pcm = [k \in Position |-> IF k \in BlockAt(s.write) THEN Torn ELSE @[k]]]
  BY DEF t, pcm
<1> QED BY <1>3, <1>4, <1>9, <1>10

LEMMA PublishPlayable ==
    ASSUME NEW s \in StreamRecord, Playable(s), s.at = "render"
    PROVE  LET full == [k \in Position |->
                          IF k \in BlockAt(s.write)
                          THEN Word(s.write + ((k - s.write) % Capacity))
                          ELSE s.pcm[k]]
               t == [s EXCEPT !.at = "load", !.pcm = full, !.write = Word(@ + Block),
                       !.used = 0, !.ready = @ \/ s.used + Block = Capacity]
           IN  t \in StreamRecord /\ Playable(t) /\ Pending(t) >= Pending(s)
<1> DEFINE full == [k \in Position |->
                      IF k \in BlockAt(s.write)
                      THEN Word(s.write + ((k - s.write) % Capacity))
                      ELSE s.pcm[k]]
           ready == s.ready \/ s.used + Block = Capacity
           w == Word(s.write + Block)
           t == [s EXCEPT !.at = "load", !.pcm = full, !.write = w,
                          !.used = 0, !.ready = ready]
           d == Pending(s)
<1>1. /\ s.read \in 0 .. (Modulus - 1) /\ s.write \in 0 .. (Modulus - 1)
      /\ s.read \in Int /\ s.write \in Int /\ d \in 0 .. (Modulus - 1) /\ d \in Int
  <2>1. s.read \in 0 .. (Modulus - 1) /\ s.write \in 0 .. (Modulus - 1)
    BY DEF StreamRecord
  <2>2. d \in 0 .. (Modulus - 1)
    BY BlockIs, 0 \in Int
  <2> QED BY <2>1, <2>2, SoundConstants
<1>2. d + Block <= Capacity /\ d <= d + Block
  <2>1. d <= s.used /\ s.used + Block <= Capacity /\ s.used \in Int
    BY SoundConstants DEF Playable, StreamRecord
  <2> QED BY <1>1, <2>1, SoundConstants
<1>3. w \in 0 .. (Modulus - 1) /\ w = Word(s.read + (d + Block))
  <2>1. s.write + Block \in Int /\ Block \in Int
    BY <1>1, SoundConstants
  <2> QED BY <2>1, WordParts, BlockIs
<1>4. \A k \in Position :
        (k - s.write) % Capacity \in 0 .. (Capacity - 1)
        /\ Word(s.write + ((k - s.write) % Capacity)) \in 0 .. (Modulus - 1)
  <2> TAKE k \in Position
  <2>1. k - s.write \in Int
    BY <1>1, SoundConstants DEF Position
  <2>2. (k - s.write) % Capacity \in 0 .. (Capacity - 1)
    BY <2>1, ModParts, SoundConstants
  <2>3. s.write + ((k - s.write) % Capacity) \in Int
    BY <1>1, <2>2, SoundConstants
  <2> QED BY <2>2, <2>3, WordParts
<1>5. full \in [Position -> {Torn} \cup (0 .. (Modulus - 1))]
  BY <1>4 DEF StreamRecord
<1>6. /\ \A k \in Position : k \notin BlockAt(s.write) => full[k] = s.pcm[k]
      /\ \A k \in Position : k \in BlockAt(s.write) =>
            full[k] = Word(s.write + ((k - s.write) % Capacity))
  OBVIOUS
<1> HIDE DEF full, w
<1>7. /\ t \in StreamRecord /\ t.read = s.read /\ t.write = w /\ t.pcm = full
      /\ t.at = "load"
  <2>1. ready \in BOOLEAN /\ 0 \in 0 .. Capacity
    BY SoundConstants DEF StreamRecord
  <2> HIDE DEF ready
  <2> QED BY <1>3, <1>5, <2>1 DEF StreamRecord
<1> HIDE DEF t, d
<1>8. Pending(t) = d + Block
  <2> DEFINE e == d + Block
             r == s.read
  <2>1. e \in 0 .. (Modulus - 1) /\ e \in Int /\ r \in Int
    BY <1>1, <1>2, SoundConstants
  <2>2. Pending(t) = Word(w - r)
    BY <1>7 DEF Pending
  <2> HIDE DEF e
  <2>3. Word(Word(r + e) + (0 - r)) = Word(r + e + (0 - r))
    <3> DEFINE a == r + e
               k == 0 - r
    <3>1. a \in Int /\ k \in Int
      BY <2>1
    <3> HIDE DEF a, k
    <3>2. Word(Word(a) + k) = Word(a + k)
      BY <3>1, WordSum
    <3> QED BY <3>2 DEF a, k
  <2>4. w = Word(r + e)
    BY <1>3 DEF e
  <2> HIDE DEF r
  <2>5. w + (0 - r) = w - r /\ r + e + (0 - r) = e
    BY <1>3, <2>1, SoundConstants
  <2>6. Word(e) = e
    BY <2>1, WordSmall
  <2> QED BY <2>2, <2>3, <2>4, <2>5, <2>6 DEF e
<1>9. ASSUME NEW k \in 0 .. (d + Block - 1)
      PROVE  full[PositionOf(s.read + k)] = Word(s.read + k)
  <2> DEFINE p == PositionOf(s.read + k)
  <2>1. p \in Position
    <3>1. s.read + k \in Int
      BY <1>1
    <3> QED BY <3>1, WordPosition
  <2>2. CASE k < d
    <3>1. k \in 0 .. (d - 1)
      BY <1>1, <2>2
    <3>2. p \notin BlockAt(s.write)
      BY <1>2, <3>1, PendingApart DEF d
    <3>3. s.pcm[p] = Word(s.read + k)
      BY <3>1 DEF Playable, d
    <3> HIDE DEF p
    <3>4. full[p] = Word(s.read + k)
      BY <1>6, <2>1, <3>2, <3>3
    <3> QED BY <3>4 DEF p
  <2>3. CASE ~(k < d)
    <3> DEFINE j == k - d
               x == s.write + j
    <3>1. j \in 0 .. (Block - 1) /\ j \in Int /\ d + j = k /\ x \in Int
          /\ j \in 0 .. (Capacity - 1)
      BY <1>1, <2>3, SoundConstants
    <3> HIDE DEF j
    <3>2. p = PositionOf(x) /\ Word(x) = Word(s.read + k)
      BY <3>1, BlockIs DEF d
    <3>3. p \in BlockAt(s.write)
      BY <3>1, <3>2 DEF BlockAt
    <3>4. full[p] = Word(s.write + ((p - s.write) % Capacity))
      BY <1>6, <2>1, <3>3
    <3>5. (p - s.write) % Capacity = j
      <4> DEFINE q == x \div Capacity
                 b == s.write
                 y == p - b
      <4>2. x = b + j /\ b \in Int
        BY <1>1
      <4> HIDE DEF x, b
      <4>0. /\ x % Capacity \in 0 .. (Capacity - 1) /\ q \in Int
            /\ x = Capacity * q + (x % Capacity)
        BY <3>1, ModParts, SoundConstants
      <4> HIDE DEF q, p, y
      <4>1. x = Capacity * q + p /\ q \in Int /\ p \in Int
        BY <3>2, <4>0, SoundConstants DEF PositionOf
      <4>3. y = Capacity * (0 - q) + j /\ y \in Int /\ 0 - q \in Int
        <5>1. Capacity * q \in Int /\ Capacity * (0 - q) = 0 - Capacity * q
          BY <4>1, SoundConstants, SMTT(30)
        <5>2. p - b = 0 - Capacity * q + j
          BY <3>1, <4>1, <4>2, <5>1
        <5> QED BY <3>1, <4>1, <4>2, <5>1, <5>2 DEF y
      <4>4. y % Capacity = j
        BY <3>1, <4>3, ModUnique, SoundConstants
      <4> QED BY <4>4 DEF y, b
    <3> HIDE DEF p
    <3>6. full[p] = Word(x)
      BY <3>4, <3>5
    <3> QED BY <3>2, <3>6 DEF p
  <2> QED BY <2>2, <2>3
<1>10. Playable(t)
  <2>1. \A k \in 0 .. (Pending(t) - 1) :
          t.pcm[PositionOf(t.read + k)] = Word(t.read + k)
    <3> TAKE k \in 0 .. (Pending(t) - 1)
    <3>1. k \in 0 .. (d + Block - 1)
      BY <1>1, <1>8, SoundConstants
    <3>2. full[PositionOf(s.read + k)] = Word(s.read + k)
      BY <1>9, <3>1
    <3> QED BY <1>7, <3>2
  <2>2. Pending(t) <= Capacity /\ t.at \notin {"decide", "render"}
    BY <1>2, <1>7, <1>8
  <2> QED BY <2>1, <2>2 DEF Playable
<1>11. t = [s EXCEPT !.at = "load", !.pcm = full, !.write = Word(@ + Block),
              !.used = 0, !.ready = @ \/ s.used + Block = Capacity]
  BY DEF t, w
<1>12. Pending(t) >= Pending(s)
  BY <1>1, <1>2, <1>8, SoundConstants DEF d
<1> QED BY <1>7, <1>10, <1>11, <1>12 DEF full

LEMMA CopyPlayable ==
    ASSUME NEW s \in StreamRecord, Playable(s), Pending(s) >= 1
    PROVE  LET t == [s EXCEPT !.read = Word(@ + 1)]
           IN  t \in StreamRecord /\ Playable(t)
<1> DEFINE d == Pending(s)
           r == s.read
           x == Word(r + 1)
           t == [s EXCEPT !.read = x]
<1>1. r \in 0 .. (Modulus - 1) /\ s.write \in 0 .. (Modulus - 1)
      /\ r \in Int /\ s.write \in Int /\ d \in 0 .. (Modulus - 1) /\ d \in Int
      /\ d = Word(s.write - r) /\ d >= 1
  <2>1. r \in 0 .. (Modulus - 1) /\ s.write \in 0 .. (Modulus - 1)
    BY DEF StreamRecord
  <2>2. d \in 0 .. (Modulus - 1) /\ d = Word(s.write - r)
    BY BlockIs, 0 \in Int DEF Pending
  <2> QED BY <2>1, <2>2, SoundConstants
<1>2. x \in 0 .. (Modulus - 1)
  BY <1>1, r + 1 \in Int, WordParts
<1>3. \A k \in Int : Word(x + k) = Word(r + (k + 1))
  <2> TAKE k \in Int
  <2> DEFINE a == r + 1
  <2>1. a \in Int /\ a + k = r + (k + 1)
    BY <1>1
  <2> HIDE DEF a
  <2>2. Word(Word(a) + k) = Word(a + k)
    BY <2>1, WordSum
  <2> QED BY <2>1, <2>2 DEF a
<1> HIDE DEF x, r, d
<1>4. /\ t \in StreamRecord /\ t.read = x /\ t.write = s.write /\ t.pcm = s.pcm
      /\ t.at = s.at /\ t.used = s.used
  BY <1>2 DEF StreamRecord
<1> HIDE DEF t
<1>5. Pending(t) = d - 1
  <2> DEFINE w == s.write
             a == w - r
             b == r + 1
             k == -1
             e == d - 1
  <2>1. Pending(t) = Word(w - x)
    BY <1>4 DEF Pending
  <2>2. a \in Int /\ b \in Int /\ k \in Int /\ w \in Int /\ w - b = a + k
    BY <1>1
  <2>3. d + k = e /\ e \in 0 .. (Modulus - 1) /\ Word(a) = d
    BY <1>1, SoundConstants
  <2> HIDE DEF a, b, k, w, e
  <2>4. Word(w - Word(b)) = Word(w - b)
    BY <2>2, WordSum
  <2>5. Word(Word(a) + k) = Word(a + k)
    BY <2>2, WordSum
  <2>6. Word(e) = e
    BY <2>3, WordSmall
  <2>7. x = Word(b)
    BY DEF x, b
  <2> QED BY <2>1, <2>2, <2>3, <2>4, <2>5, <2>6, <2>7 DEF e
<1>6. ASSUME NEW k \in 0 .. (d - 1 - 1)
      PROVE  s.pcm[PositionOf(x + k)] = Word(x + k)
  <2> DEFINE m == k + 1
  <2>1. k \in Int /\ m \in 0 .. (d - 1)
    BY <1>1
  <2>2. x + k \in Int /\ r + m \in Int
    BY <1>1, <1>2, <2>1, SoundConstants
  <2>3. Word(x + k) = Word(r + m)
    BY <1>3, <2>1
  <2>4. PositionOf(x + k) = PositionOf(r + m)
    BY <2>2, <2>3, WordPosition
  <2>5. s.pcm[PositionOf(r + m)] = Word(r + m)
    BY <2>1 DEF Playable, d, r
  <2> QED BY <2>3, <2>4, <2>5
<1>7. Playable(t)
  <2>1. d <= Capacity /\ (s.at \in {"decide", "render"} => d <= s.used)
        /\ (s.at = "render" => s.used + Block <= Capacity) /\ s.used \in Int
    BY SoundConstants DEF Playable, StreamRecord, d
  <2> QED BY <1>1, <1>4, <1>5, <1>6, <2>1, SoundConstants DEF Playable
<1> QED BY <1>4, <1>7 DEF t, x, r

-----------------------------------------------------------------------------
\* A step that leaves the stream played, what it holds unread and its end.
LEMMA ProducerStep ==
    ASSUME SoundInv, NEW i \in Stream, NEW t \in StreamRecord, Producer(i, t),
           stream[i].at # "none", t.at # "none", Playable(t),
           ~stream[i].stop => ~t.stop /\ Pending(t) >= Pending(stream[i])
    PROVE  SoundInv'
<1>1. /\ stream \in [Stream -> StreamRecord]
      /\ stream' = [stream EXCEPT ![i] = t] /\ UNCHANGED <<tune, callback, pump>>
  BY DEF SoundInv, SoundTypeOK, Producer
<1>2. /\ stream'[i] = t /\ \A j \in Stream : j # i => stream'[j] = stream[j]
      /\ stream' \in [Stream -> StreamRecord]
  BY <1>1
<1>3. SoundTypeOK'
  BY <1>1, <1>2 DEF SoundInv, SoundTypeOK
<1>4. ASSUME NEW j \in Stream
      PROVE  /\ Playable(stream'[j])
             /\ stream'[j].at # "none" => j \in {tune, pump}
  BY <1>2 DEF SoundInv
<1>5. ASSUME tune # NoStream
      PROVE  /\ stream'[tune].at # "none" /\ ~stream'[tune].stop
             /\ callback = "copy" => Pending(stream'[tune]) >= 1
  <2>1. tune \in Stream /\ stream[tune].at # "none" /\ ~stream[tune].stop
        /\ (callback = "copy" => Pending(stream[tune]) >= 1)
    BY <1>5 DEF SoundInv, SoundTypeOK
  <2>2. CASE tune = i
    <3>1. Pending(t) >= Pending(stream[i]) /\ ~t.stop
      BY <2>1, <2>2
    <3>2. Pending(t) \in Int /\ Pending(stream[i]) \in Int
      <4>1. stream[i] \in StreamRecord
        BY <1>1
      <4> QED BY <4>1, BlockIs, 0 \in Int, SoundConstants
    <3> HIDE DEF Pending
    <3> QED BY <1>2, <2>1, <2>2, <3>1, <3>2
  <2>3. CASE tune # i
    BY <1>2, <2>1, <2>3
  <2> QED BY <2>2, <2>3
<1> QED BY <1>1, <1>3, <1>4, <1>5 DEF SoundInv

LEMMA ProducerKeepsSound ==
    ASSUME SoundInv, NEW i \in Stream,
           \/ Sequences(i) \/ Wait(i) \/ Wake(i)
           \/ Render(i) \/ PublishBlock(i) \/ FailStream(i)
    PROVE  SoundInv'
<1> DEFINE s == stream[i]
<1>1. s \in StreamRecord /\ Playable(s)
  BY DEF SoundInv, SoundTypeOK
<1>2. Pending(s) \in Int /\ Pending(s) <= Capacity /\ Pending(s) \in 0 .. (Modulus - 1)
  BY <1>1, BlockIs, 0 \in Int, SoundConstants DEF Playable
<1>3. s.used \in 0 .. Capacity
  BY <1>1 DEF StreamRecord
\* The producer's own bookkeeping.
<1>4. ASSUME NEW t \in StreamRecord, Producer(i, t), s.at # "none", t.at # "none",
             t.stop = s.stop, t.read = s.read, t.write = s.write, t.pcm = s.pcm,
             t.at \in {"decide", "render"} => Pending(s) <= t.used,
             t.at # "render"
      PROVE  SoundInv'
  <2>1. Playable(t)
    BY <1>1, <1>4, SameSamples
  <2>2. Pending(t) = Pending(s)
    BY <1>4 DEF Pending
  <2>3. Pending(t) >= Pending(s)
    BY <1>2, <2>2
  <2> QED BY <1>4, <2>1, <2>3, ProducerStep
<1>5. CASE Sequences(i)
  <2>1. CASE s.stop
    <3> DEFINE t == [Unused EXCEPT !.at = "exit"]
    <3>1. t \in StreamRecord /\ t.read = 0 /\ t.write = 0 /\ t.at = "exit"
      BY UnusedType DEF StreamRecord
    <3>2. Producer(i, t) /\ s.at # "none"
      BY <1>5, <2>1 DEF Sequences
    <3> HIDE DEF t
    <3>3. Playable(t)
      BY <3>1, NothingPending
    <3> QED BY <2>1, <3>1, <3>2, <3>3, ProducerStep
  <2>2. CASE ~s.stop
    <3> DEFINE used == Word(s.write - s.read)
               t == [s EXCEPT !.at = "decide", !.used = used]
    <3>1. used = Pending(s) /\ used \in 0 .. Capacity
      BY <1>2, SoundConstants DEF Pending
    <3> HIDE DEF used
    <3>2. /\ t \in StreamRecord /\ t.at = "decide" /\ t.stop = s.stop
          /\ t.read = s.read /\ t.write = s.write /\ t.pcm = s.pcm /\ t.used = used
      BY <1>1, <3>1 DEF StreamRecord
    <3>3. Producer(i, t) /\ s.at = "load"
      BY <1>5, <2>2 DEF Sequences, used
    <3> HIDE DEF t, s
    <3>4. Pending(s) <= t.used
      BY <1>2, <3>1, <3>2
    <3> QED BY <1>4, <3>2, <3>3, <3>4
  <2> QED BY <2>1, <2>2
<1>6. CASE Wait(i)
  <2> DEFINE ready == s.ready \/ s.used = Capacity
             t == [s EXCEPT !.at = "wait", !.used = 0, !.ready = ready]
  <2>1. ready \in BOOLEAN /\ 0 \in 0 .. Capacity
    BY <1>1, SoundConstants DEF StreamRecord
  <2>2. Producer(i, t) /\ s.at = "decide"
    BY <1>6 DEF Wait
  <2> HIDE DEF ready
  <2>3. /\ t \in StreamRecord /\ t.at = "wait" /\ t.stop = s.stop
        /\ t.read = s.read /\ t.write = s.write /\ t.pcm = s.pcm
    BY <1>1, <2>1 DEF StreamRecord
  <2> HIDE DEF t, s
  <2> QED BY <1>4, <2>2, <2>3
<1>7. CASE Wake(i)
  <2> DEFINE t == [s EXCEPT !.at = "load"]
  <2>1. /\ t \in StreamRecord /\ t.at = "load" /\ t.stop = s.stop
        /\ t.read = s.read /\ t.write = s.write /\ t.pcm = s.pcm
    BY <1>1 DEF StreamRecord
  <2>2. Producer(i, t) /\ s.at = "wait"
    BY <1>7 DEF Wake
  <2> HIDE DEF t, s
  <2> QED BY <1>4, <2>1, <2>2
<1>8. CASE FailStream(i)
  <2> DEFINE t == [s EXCEPT !.at = "exit", !.failed = TRUE, !.ready = TRUE]
  <2>1. /\ t \in StreamRecord /\ t.at = "exit" /\ t.stop = s.stop
        /\ t.read = s.read /\ t.write = s.write /\ t.pcm = s.pcm
    BY <1>1 DEF StreamRecord
  <2>2. Producer(i, t) /\ s.at = "render"
    BY <1>8 DEF FailStream
  <2> HIDE DEF t, s
  <2> QED BY <1>4, <2>1, <2>2
<1>9. CASE Render(i)
  <2> DEFINE t == [s EXCEPT !.at = "render",
                     !.pcm = [k \in Position |->
                                IF k \in BlockAt(s.write) THEN Torn ELSE @[k]]]
  <2>1. Producer(i, t) /\ s.at = "decide" /\ Room(s.used)
    BY <1>9 DEF Render
  <2>2. t \in StreamRecord /\ Playable(t) /\ Pending(t) = Pending(s)
    BY <1>1, <2>1, RenderPlayable
  <2>3. t.at = "render" /\ t.stop = s.stop
    BY <1>1 DEF StreamRecord
  <2> HIDE DEF t
  <2>4. Pending(t) >= Pending(s)
    BY <1>2, <2>2
  <2> QED BY <2>1, <2>2, <2>3, <2>4, ProducerStep
<1>10. CASE PublishBlock(i)
  <2> DEFINE full == [k \in Position |->
                        IF k \in BlockAt(s.write)
                        THEN Word(s.write + ((k - s.write) % Capacity))
                        ELSE s.pcm[k]]
             t == [s EXCEPT !.at = "load", !.pcm = full, !.write = Word(@ + Block),
                     !.used = 0, !.ready = @ \/ s.used + Block = Capacity]
  <2>1. Producer(i, t) /\ s.at = "render"
    BY <1>10 DEF PublishBlock
  <2>2. t \in StreamRecord /\ Playable(t) /\ Pending(t) >= Pending(s)
    BY <1>1, <2>1, PublishPlayable
  <2>3. t.at = "load" /\ t.stop = s.stop
    <3> HIDE DEF full
    <3> QED BY <1>1 DEF StreamRecord
  <2> HIDE DEF t
  <2> QED BY <2>1, <2>2, <2>3, ProducerStep
<1> QED BY <1>5, <1>6, <1>7, <1>8, <1>9, <1>10

LEMMA CallbackKeepsSound ==
    ASSUME SoundInv, Enter \/ Look \/ Copy \/ Leave
    PROVE  SoundInv'
<1>1. CASE Enter
  BY <1>1 DEF Enter, SoundInv, SoundTypeOK
<1>2. CASE Look
  <2>1. tune \in Stream /\ stream[tune] \in StreamRecord
    BY <1>2 DEF Look, SoundInv, SoundTypeOK
  <2>2. Pending(stream[tune]) >= 1
    <3> DEFINE s == stream[tune]
               r == s.read
               w == s.write
               d == Pending(s)
    <3>1. r \in 0 .. (Modulus - 1) /\ w \in 0 .. (Modulus - 1) /\ r # w
      BY <1>2, <2>1 DEF Look, StreamRecord
    <3>2. d \in 0 .. (Modulus - 1) /\ Word(w + 0) = Word(r + (d + 0))
      BY <2>1, BlockIs, 0 \in Int
    <3> HIDE DEF r, w, d, s
    <3>3. d # 0
      <4>1. w + 0 = w /\ r + (0 + 0) = r
        BY <3>1, SoundConstants
      <4>2. Word(w) = w /\ Word(r) = r
        BY <3>1, WordSmall
      <4> QED BY <3>1, <3>2, <4>1, <4>2
    <3>4. d >= 1
      BY <3>2, <3>3, SoundConstants
    <3> QED BY <3>4 DEF d, s
  <2> QED BY <1>2, <2>2 DEF Look, SoundInv, SoundTypeOK
<1>3. CASE Copy
  <2> DEFINE s == stream[tune]
             t == [s EXCEPT !.read = Word(@ + 1)]
  <2>1. /\ tune \in Stream /\ s \in StreamRecord /\ Playable(s) /\ Pending(s) >= 1
        /\ callback' = "frame" /\ UNCHANGED <<tune, pump>>
        /\ stream' = [stream EXCEPT ![tune] = t]
    BY <1>3 DEF Copy, SoundInv, SoundTypeOK
  <2>2. t \in StreamRecord /\ Playable(t)
    BY <2>1, CopyPlayable
  <2>3. t.at = s.at /\ t.stop = s.stop
    BY <2>1 DEF StreamRecord
  <2> HIDE DEF t
  <2>4. /\ stream'[tune] = t /\ \A j \in Stream : j # tune => stream'[j] = stream[j]
        /\ stream' \in [Stream -> StreamRecord]
    BY <2>1, <2>2 DEF SoundInv, SoundTypeOK
  <2>5. SoundTypeOK'
    BY <2>1, <2>4 DEF SoundInv, SoundTypeOK
  <2>6. ASSUME NEW j \in Stream
        PROVE  /\ Playable(stream'[j])
               /\ stream'[j].at # "none" => j \in {tune, pump}
    BY <2>2, <2>3, <2>4 DEF SoundInv
  <2>7. stream'[tune].at # "none" /\ ~stream'[tune].stop
    BY <2>1, <2>3, <2>4, SoundConstants DEF SoundInv
  <2>8. tune # NoStream /\ (pump # NoStream => pump # tune)
    BY <2>1, SoundConstants DEF SoundInv
  <2> QED BY <2>1, <2>5, <2>6, <2>7, <2>8 DEF SoundInv
<1>4. CASE Leave
  BY <1>4 DEF Leave, SoundInv, SoundTypeOK
<1> QED BY <1>1, <1>2, <1>3, <1>4

\* There is room for another track: the one played and the one told to stop are
\* all there are.
LEMMA ChangeKeepsSound ==
    ASSUME SoundInv, Change
    PROVE  SoundInv'
<1> DEFINE next == CHOOSE i \in Stream : i # tune /\ stream[i].at = "none"
<1>1. /\ pump = NoStream /\ callback = "idle" /\ pump' = tune /\ callback' = callback
      /\ (tune # NoStream /\ tune' = NoStream) \/ tune' = next
      /\ stream' = [i \in Stream |-> CASE i = tune' -> New
                                       [] i = tune  -> Stopping(stream[i])
                                       [] OTHER     -> stream[i]]
  BY DEF Change
<1>2. /\ stream \in [Stream -> StreamRecord] /\ tune \in Stream \cup {NoStream}
      /\ \A i \in Stream : Playable(stream[i])
      /\ \A i \in Stream : stream[i].at # "none" => i = tune
  BY <1>1, SoundConstants DEF SoundInv, SoundTypeOK
<1>3. next \in Stream /\ next # tune
  <2>1. \E i \in Stream : i # tune
    BY StreamAssumption
  <2>2. \E i \in Stream : i # tune /\ stream[i].at = "none"
    BY <1>2, <2>1
  <2> QED BY <2>2
<1> HIDE DEF next
<1>4. tune' \in Stream \cup {NoStream} /\ tune' # tune
  BY <1>1, <1>3, SoundConstants
<1>5. New \in StreamRecord /\ New.read = 0 /\ New.write = 0 /\ New.at = "load" /\ ~New.stop
  BY UnusedType DEF New, StreamRecord
<1>6. Playable(New)
  BY <1>5, NothingPending
<1>7. ASSUME NEW i \in Stream
      PROVE  Stopping(stream[i]) \in StreamRecord /\ Playable(Stopping(stream[i]))
  <2> DEFINE s == stream[i]
             t == Stopping(s)
  <2>1. s \in StreamRecord /\ Playable(s)
    BY <1>2
  <2>2. t \in StreamRecord /\ t.read = 0 /\ t.write = 0 /\ t.at = s.at /\ t.used = s.used
    BY <2>1, UnusedType DEF Stopping, StreamRecord
  <2>3. t.at = "render" => t.used + Block <= Capacity
    BY <2>1, <2>2 DEF Playable
  <2> HIDE DEF t
  <2>4. Playable(t)
    BY <2>2, <2>3, NothingPending
  <2> QED BY <2>2, <2>4 DEF t
<1>8. ASSUME NEW i \in Stream
      PROVE  /\ stream'[i] \in StreamRecord /\ Playable(stream'[i])
             /\ stream'[i].at # "none" => i \in {tune', pump'}
             /\ i = tune' => stream'[i] = New
  <2>1. CASE i = tune'
    <3>1. stream'[i] = New
      BY <1>1, <1>4, <2>1
    <3> QED BY <1>5, <1>6, <2>1, <3>1
  <2>2. CASE i # tune' /\ i = tune
    <3>1. stream'[i] = Stopping(stream[i])
      BY <1>1, <2>2
    <3> QED BY <1>1, <1>7, <2>2, <3>1
  <2>3. CASE i # tune' /\ i # tune
    <3>1. stream'[i] = stream[i]
      BY <1>1, <2>3
    <3> QED BY <1>2, <2>3, <3>1
  <2> QED BY <2>1, <2>2, <2>3
<1>9. stream' \in [Stream -> StreamRecord]
  <2>1. stream' = [i \in Stream |-> stream'[i]]
    BY <1>1
  <2> QED BY <1>8, <2>1
<1>10. SoundTypeOK'
  BY <1>1, <1>2, <1>4, <1>9 DEF SoundTypeOK
<1>11. tune' # NoStream => stream'[tune'].at # "none" /\ ~stream'[tune'].stop
  BY <1>4, <1>5, <1>8
<1> QED BY <1>1, <1>4, <1>8, <1>10, <1>11 DEF SoundInv

LEMMA FreeKeepsSound ==
    ASSUME SoundInv, Free
    PROVE  SoundInv'
<1>1. /\ pump \in Stream /\ pump # tune /\ pump' = NoStream /\ UNCHANGED <<tune, callback>>
      /\ stream' = [stream EXCEPT ![pump] = Unused]
      /\ stream \in [Stream -> StreamRecord]
  BY DEF SoundInv, SoundTypeOK, Free
<1>2. Playable(Unused)
  BY UnusedType, NothingPending
<1>3. /\ stream' \in [Stream -> StreamRecord] /\ stream'[pump] = Unused
      /\ \A i \in Stream : i # pump => stream'[i] = stream[i]
  BY <1>1, UnusedType
<1>4. ASSUME NEW i \in Stream
      PROVE  /\ Playable(stream'[i])
             /\ stream'[i].at # "none" => i \in {tune', pump'}
  <2>1. CASE i = pump
    BY <1>2, <1>3, <2>1, UnusedType
  <2>2. CASE i # pump
    BY <1>1, <1>3, <2>2 DEF SoundInv
  <2> QED BY <2>1, <2>2
<1>5. SoundTypeOK'
  BY <1>1, <1>3 DEF SoundInv, SoundTypeOK
<1>6. tune # NoStream => stream'[tune] = stream[tune]
  BY <1>1, <1>3 DEF SoundInv, SoundTypeOK
<1> QED BY <1>1, <1>4, <1>5, <1>6 DEF SoundInv

LEMMA SoundInv_Init == SoundInit => SoundInv
<1> SUFFICES ASSUME SoundInit PROVE SoundInv
  OBVIOUS
<1>1. SoundTypeOK
  BY UnusedType DEF SoundInit, SoundTypeOK
<1>2. Playable(Unused)
  BY UnusedType, NothingPending
<1> QED BY <1>1, <1>2, UnusedType DEF SoundInit, SoundInv

LEMMA SoundInv_Next == SoundInv /\ [SoundNext]_soundVars => SoundInv'
<1> SUFFICES ASSUME SoundInv, [SoundNext]_soundVars PROVE SoundInv'
  OBVIOUS
<1>1. ASSUME NEW i \in Stream,
             \/ Sequences(i) \/ Wait(i) \/ Wake(i)
             \/ Render(i) \/ PublishBlock(i) \/ FailStream(i)
      PROVE  SoundInv'
  BY <1>1, ProducerKeepsSound
<1>2. CASE Enter \/ Look \/ Copy \/ Leave
  BY <1>2, CallbackKeepsSound
<1>3. CASE Change
  BY <1>3, ChangeKeepsSound
<1>4. CASE Free
  BY <1>4, FreeKeepsSound
<1>5. CASE UNCHANGED soundVars
  BY <1>5 DEF soundVars, SoundInv, SoundTypeOK
<1> QED BY <1>1, <1>2, <1>3, <1>4, <1>5 DEF SoundNext

LEMMA SoundInvSound == SoundInv => PlaysInOrder
<1> SUFFICES ASSUME SoundInv PROVE PlaysInOrder
  OBVIOUS
<1>1. \A i \in Stream : stream[i].used <= Capacity
  BY SoundConstants DEF SoundInv, SoundTypeOK, StreamRecord
<1>2. ASSUME callback = "copy"
      PROVE  /\ tune # NoStream /\ stream[tune].at # "none"
             /\ stream[tune].pcm[PositionOf(stream[tune].read)] = stream[tune].read
  <2> DEFINE s == stream[tune]
  <2>1. /\ tune # NoStream /\ s.at # "none" /\ Playable(s) /\ Pending(s) >= 1
        /\ s \in StreamRecord
    BY <1>2 DEF SoundInv, SoundTypeOK
  <2>2. Pending(s) \in Int /\ s.read \in 0 .. (Modulus - 1)
    BY <2>1, BlockIs, 0 \in Int, SoundConstants DEF StreamRecord
  <2>3. 0 \in 0 .. (Pending(s) - 1) /\ s.read + 0 = s.read
    BY <2>1, <2>2, SoundConstants
  <2>4. s.pcm[PositionOf(s.read + 0)] = Word(s.read + 0)
    BY <2>1, <2>3 DEF Playable
  <2> HIDE DEF s
  <2>5. Word(s.read) = s.read
    BY <2>2, WordSmall
  <2> QED BY <2>1, <2>3, <2>4, <2>5 DEF s
<1> QED BY <1>1, <1>2 DEF PlaysInOrder

\* bytebeat_stream.c plays every sample of a track in order and whole, for
\* every block size, number of blocks and range of the sequence words, however
\* its threads interleave and tracks are replaced.
THEOREM PlaysInOrderAlways == SoundSpec => []PlaysInOrder
  BY SoundInv_Init, SoundInv_Next, SoundInvSound, PTL DEF SoundSpec

-----------------------------------------------------------------------------
(***************************************************************************)
(* The updater: what makes its three promises inductive.                   *)
(***************************************************************************)

\* Either nobody else installs files meanwhile, or the release adds none: a
\* file of another program that stands where the release adds one cannot be
\* told from the release's own.
AddsNothing == MaxStrangers = 0 \/ \A b \in Installed : \A f \in File : b[f] # None

\* A file, d, of which the version b was there when the update started: in its
\* place, moved aside, replaced by the release's, which may be damaged while
\* there is a backup to return to.
Fresh(b) == IF b = None THEN {"new"} ELSE {"new", "bad"}
Spent(d, b) == b = None => d["staged"] = None
InPlace(d, b) == d["target"] = b /\ d["backup"] = None
SetAside(d, b) == b # None /\ d["target"] = None /\ d["backup"] = b
Replaced(d, b) == d["target"] \in Fresh(b) /\ d["backup"] = b /\ Spent(d, b)
Undoable(d, b) == InPlace(d, b) \/ SetAside(d, b) \/ Replaced(d, b)

\* A file of a committed set, and one whose replacement waits to be deleted.
Final(d, b) ==
    /\ d["target"] \in Fresh(b) /\ d["backup"] \in {None, b} /\ Spent(d, b)
    /\ d["quarantine"] = None
Kept(d, b) == InPlace(d, b) /\ d["quarantine"] \in Fresh(b) /\ Spent(d, b)

\* The files of a list of entries, those to put back, and that none is twice.
Listed(s) == {s[i].file : i \in 1 .. Len(s)}
Named(s) == {s[i].file : i \in {j \in 1 .. Len(s) : s[j].kind = "file"}}
Apart(s) == \A i, j \in 1 .. Len(s) : s[i].file = s[j].file => i = j

Cleared == \A f \in File : disk[f]["quarantine"] = None
NoBackups == \A f \in File : disk[f]["backup"] = None
AllInPlace == \A f \in File : InPlace(disk[f], base[f])
Undecided == journal # NoJournal /\ ~ journal.committed
Own == journal.original = base

\* A release staged before somebody else changed the installation: to undo it
\* is to do nothing.
Outdated ==
    /\ journal.version = 3 /\ AllInPlace /\ Cleared
    /\ \A f \in File : base[f] # None /\ journal.original[f] # None

\* What the journal says of the disk.
Accounted ==
    /\ journal = NoJournal => (AllNew \/ AllBase) /\ NoBackups
    /\ journal.committed =>
        /\ journal.version = 3
        /\ \A f \in File : Final(disk[f], base[f])
        /\ env.damage = MaxDamage => AllNew
        /\ Own \/ (AllNew /\ NoBackups)
    /\ Undecided =>
        \/ Own /\ \A f \in File :
                     /\ Undoable(disk[f], base[f])
                     /\ f \in Named(journal.entries) \/ InPlace(disk[f], base[f])
        \/ Outdated

Disk == [File -> [Slot \cup {"mapped"} -> Content \cup Slot]]
Journal == [version : {0, 2, 3}, committed : BOOLEAN, entries : Seq(Entry),
            original : [File -> Content] \cup {<<>>}]
Left == [faults : Nat, crashes : Nat, strangers : 0 .. MaxStrangers, damage : 0 .. MaxDamage]

DataType ==
    /\ disk \in Disk /\ base \in [File -> Content \ {"bad"}] /\ env \in Left
    /\ journal \in Journal /\ Apart(journal.entries)
    /\ journal.version = 0 => journal = NoJournal
    /\ journal.version # 0 => journal.original \in [File -> Content]
    /\ journal.version = 3 => journal.entries = AllEntries
    /\ MaxStrangers # 0 => \A f \in File :
         base[f] # None /\ (journal.version # 0 => journal.original[f] # None)

Data == DataType /\ Accounted

\* A walk has not begun.
Unwalked == op.unresolved = <<>> /\ op.cleanup = <<>> /\ ~ op.quarantined

\* The pristine set is moved in, and moved out again if that fails.
Applying ==
    /\ Undecided /\ journal.version = 3 /\ Own /\ Cleared /\ Apart(op.todo)
    /\ op.good = "UPDATED" /\ Unwalked
Awaited(f) == InPlace(disk[f], base[f]) /\ disk[f]["staged"] = "new"
Exchanged(f) == Replaced(disk[f], base[f]) /\ disk[f]["staged"] = None
Asides ==
    /\ Applying
    /\ \A f \in File : IF f \in Listed(op.todo) THEN Awaited(f) ELSE Exchanged(f)
Installs ==
    /\ Applying /\ op.todo # <<>>
    /\ disk[Current.file]["staged"] = "new"
    /\ \/ SetAside(disk[Current.file], base[Current.file])
       \/ InPlace(disk[Current.file], base[Current.file]) /\ base[Current.file] = None
    /\ \A f \in File \ {Current.file} : IF f \in Listed(op.todo) THEN Awaited(f) ELSE Exchanged(f)
Undoes ==
    /\ Applying
    /\ op.whole => \A f \in File : f \in Listed(op.todo) \/ InPlace(disk[f], base[f])
Returns == Undoes /\ op.todo # <<>> /\ SetAside(disk[Current.file], base[Current.file])

\* The reverse walk, and what it does with one file.
Separate(s, t) == Listed(s) \cap Listed(t) = {}
Walks ==
    /\ Undecided /\ op.good # "UPDATED"
    /\ Apart(op.todo) /\ Apart(op.unresolved) /\ Apart(op.cleanup)
    /\ Separate(op.todo, op.unresolved) /\ Separate(op.todo, op.cleanup)
    /\ Separate(op.unresolved, op.cleanup)
    /\ Named(op.todo) \subseteq Named(journal.entries)
    /\ Listed(op.cleanup) \subseteq Named(journal.entries)
    /\ Own \/ (Outdated /\ op.unresolved = <<>>)
    /\ op.whole => \A f \in File :
         f \in Named(op.todo) \/ f \in Named(op.unresolved) \/ InPlace(disk[f], base[f])
    /\ \A f \in Listed(op.cleanup) : Kept(disk[f], base[f])
Handles == Walks /\ op.todo # <<>> /\ Current.kind = "file"
Restores ==
    /\ Handles /\ SetAside(disk[Current.file], base[Current.file])
    /\ op.quarantined => disk[Current.file]["quarantine"] \in Fresh(base[Current.file])
Releases == Handles /\ Kept(disk[Current.file], base[Current.file])

\* What it displaced returns.
Reverts(s) ==
    /\ Undecided /\ Own /\ op.good # "UPDATED" /\ op.todo # <<>>
    /\ Apart(op.todo) /\ Listed(op.todo) \subseteq Named(journal.entries)
    /\ \A f \in Listed(s) : Kept(disk[f], base[f])
Reinstates ==
    /\ Reverts(Tail(op.todo))
    /\ SetAside(disk[Current.file], base[Current.file])
    /\ disk[Current.file]["quarantine"] \in Fresh(base[Current.file])

\* The journal is read, a committed set is cleaned up, and the rest is.
Reads ==
    /\ Unwalked
    /\ op.good = "UPDATED" => TargetsAreComplete
    /\ op.good = "ROLLED_BACK" => journal # NoJournal /\ ~ TargetsAreComplete
    /\ op.good # "READY"
Verifies ==
    /\ journal.committed /\ Unwalked
    /\ op.good = "UPDATED" => AllNew
    /\ op.good = "ROLLED_BACK" => ~ AllNew
Deletes ==
    /\ journal.committed /\ AllNew /\ op.good # "ROLLED_BACK"
    /\ \A f \in File : f \in Listed(op.todo) \/ disk[f]["backup"] = None
Cleans ==
    /\ journal # NoJournal => Undecided /\ AllInPlace
    /\ op.good = "UPDATED" => AllNew /\ journal = NoJournal
    /\ op.good = "ROLLED_BACK" => AllBase
Stages == journal = NoJournal /\ op.who = "stage" /\ op.good = "restart"

Working ==
    /\ op.pc = "aside" => Asides
    /\ op.pc = "install" => Installs
    /\ op.pc = "undo" => Undoes
    /\ op.pc = "return" => Returns
    /\ op.pc = "walk" => Walks /\ ~ op.quarantined
    /\ op.pc = "restore" => Restores
    /\ op.pc = "unquarantine" => Restores /\ op.quarantined
    /\ op.pc = "release" => Releases
    /\ op.pc = "revert" => Reverts(op.todo)
    /\ op.pc = "reinstate" => Reinstates
    /\ op.pc = "journal" => Reads
    /\ op.pc = "committed" => Verifies
    /\ op.pc = "backups" => Deletes
    /\ op.pc \in {"reconcile", "sweep"} => Cleans
    /\ op.pc \in {"staging", "write"} => Stages

Pc == {"idle", "aside", "install", "undo", "return", "walk", "restore", "unquarantine",
       "release", "revert", "reinstate", "journal", "committed", "backups", "reconcile",
       "sweep", "staging", "write"}
Result == {None, "offered", "latest", "check", "restart", "UPDATED", "READY", "ROLLED_BACK",
           "BLOCKED"}
Op == [who : {None, "check", "stage", "apply", "helper"}, pc : Pc, todo : Seq(Entry),
       unresolved : Seq(Entry), cleanup : Seq(Entry), quarantined : BOOLEAN, whole : BOOLEAN,
       good : Result, bad : Result]
Game == [up : BOOLEAN, old : BOOLEAN, phase : Result, restart : BOOLEAN]

\* What an operation may end with.
Ends ==
    /\ op.who = None => op = NoOp
    /\ op.who = "check" => op.bad # "offered"
    /\ op.who = "stage" => op.good \in {"restart", "check"} /\ op.bad = "check"
    /\ op.who \in {"apply", "helper"} => op.bad \notin {"UPDATED", "READY"}
    /\ op.bad = "ROLLED_BACK" => op.pc = "sweep" /\ AllBase
    /\ op.pc = "idle" => op = NoOp

Told ==
    /\ game \in Game /\ (game.phase = "offered" => journal = NoJournal)
    /\ report # None => op = NoOp
    /\ ReportIsTrue

UpdateInv == Data /\ op \in Op /\ Ends /\ Working /\ Told

-----------------------------------------------------------------------------
(* Lists of entries. *)

LEMMA EmptyList ==
    /\ <<>> \in Seq(Entry) /\ Listed(<<>>) = {} /\ Named(<<>>) = {} /\ Apart(<<>>)
<1>1. <<>> \in Seq(Entry) /\ Len(<<>>) = 0
  BY EmptySeq
<1>2. 1 .. Len(<<>>) = {}
  BY <1>1
<1> QED BY <1>1, <1>2, Zenon DEF Listed, Named, Apart

\* What is listed, by index.
LEMMA IsListed ==
    ASSUME NEW s \in Seq(Entry), NEW i \in 1 .. Len(s)
    PROVE  /\ s[i] \in Entry /\ s[i].file \in File /\ s[i].file \in Listed(s)
           /\ s[i].kind = "file" => s[i].file \in Named(s)
<1>1. s[i] \in Entry
  BY ElementOfSeq
<1> QED BY <1>1 DEF Entry, Listed, Named

LEMMA ListedIs ==
    ASSUME NEW s \in Seq(Entry)
    PROVE  /\ \A f \in Listed(s) : \E i \in 1 .. Len(s) : s[i].file = f
           /\ \A f \in Named(s) : \E i \in 1 .. Len(s) : s[i].file = f /\ s[i].kind = "file"
           /\ Named(s) \subseteq Listed(s) /\ Listed(s) \subseteq File
<1>1. \A i \in 1 .. Len(s) : s[i].file \in File
  BY IsListed
<1> QED BY <1>1 DEF Listed, Named

\* Two lists of which each entry of one is an entry of the other.
Within(s, t) == \A i \in 1 .. Len(s) : \E j \in 1 .. Len(t) : s[i] = t[j]

LEMMA WithinIs ==
    ASSUME NEW s \in Seq(Entry), NEW t \in Seq(Entry), Within(s, t)
    PROVE  Listed(s) \subseteq Listed(t) /\ Named(s) \subseteq Named(t)
<1>1. ASSUME NEW f \in Listed(s) PROVE f \in Listed(t)
  <2>1. PICK i \in 1 .. Len(s) : s[i].file = f
    BY ListedIs
  <2>2. PICK j \in 1 .. Len(t) : s[i] = t[j]
    BY DEF Within
  <2> QED BY <2>1, <2>2, IsListed
<1>2. ASSUME NEW f \in Named(s) PROVE f \in Named(t)
  <2>1. PICK i \in 1 .. Len(s) : s[i].file = f /\ s[i].kind = "file"
    BY ListedIs
  <2>2. PICK j \in 1 .. Len(t) : s[i] = t[j]
    BY DEF Within
  <2> QED BY <2>1, <2>2, IsListed
<1> QED BY <1>1, <1>2

\* The head of a list, and the rest of it.
LEMMA HeadAndTail ==
    ASSUME NEW s \in Seq(Entry), s # <<>>
    PROVE  /\ Head(s) \in Entry /\ Head(s).file \in File /\ Tail(s) \in Seq(Entry)
           /\ Listed(s) = Listed(Tail(s)) \cup {Head(s).file}
           /\ Named(s) = Named(Tail(s)) \cup (IF Head(s).kind = "file" THEN {Head(s).file} ELSE {})
           /\ Apart(s) => Apart(Tail(s)) /\ Head(s).file \notin Listed(Tail(s))
           /\ Len(s) = 1 <=> Tail(s) = <<>>
<1> DEFINE n == Len(s)
           t == Tail(s)
<1>1. /\ n \in Nat \ {0} /\ Head(s) = s[1] /\ t \in Seq(Entry) /\ Len(t) = n - 1
      /\ \A i \in 1 .. n - 1 : t[i] = s[i + 1]
      /\ Head(s) \in Entry
  BY HeadTailProperties, EmptySeq, LenProperties
<1>2. n = 1 <=> t = <<>>
  <2>1. n = 1 => t = <<>>
    <3>1. t # <<>> => Len(t) \in Nat \ {0}
      BY <1>1, EmptySeq
    <3> QED BY <1>1, <3>1
  <2>2. t = <<>> => Len(t) = 0
    BY EmptySeq
  <2> QED BY <1>1, <2>1, <2>2
<1> HIDE DEF n, t
<1>3. n = Len(s) /\ t = Tail(s)
  BY DEF n, t
<1>4. Head(s).file \in File
  BY <1>1 DEF Entry
<1>5. ASSUME NEW i \in 1 .. n, i # 1 PROVE i - 1 \in 1 .. Len(t) /\ s[i] = t[i - 1]
  <2>1. i - 1 \in 1 .. n - 1 /\ (i - 1) + 1 = i
    BY <1>1, <1>5
  <2> QED BY <1>1, <2>1
<1>6. Within(t, s)
  <2>1. ASSUME NEW i \in 1 .. Len(t) PROVE \E j \in 1 .. Len(s) : t[i] = s[j]
    <3>1. i \in 1 .. n - 1 /\ i + 1 \in 1 .. n
      BY <1>1
    <3> QED BY <1>1, <1>3, <3>1
  <2> QED BY <2>1 DEF Within
<1>7. Listed(t) \subseteq Listed(s) /\ Named(t) \subseteq Named(s)
  BY <1>1, <1>6, WithinIs
<1>8. 1 \in 1 .. Len(s)
  BY <1>1, <1>3
<1>9. Head(s).file \in Listed(s) /\ (Head(s).kind = "file" => Head(s).file \in Named(s))
  <2>1. s[1].file \in Listed(s) /\ (s[1].kind = "file" => s[1].file \in Named(s))
    BY <1>8, IsListed
  <2> QED BY <1>1, <2>1
<1>10. ASSUME NEW f \in Listed(s) PROVE f = Head(s).file \/ f \in Listed(t)
  <2>1. PICK i \in 1 .. n : s[i].file = f
    BY <1>3, ListedIs
  <2>2. CASE i = 1
    BY <1>1, <2>1, <2>2
  <2>3. CASE i # 1
    <3>1. i - 1 \in 1 .. Len(t) /\ s[i] = t[i - 1]
      BY <1>5, <2>3
    <3> QED BY <1>1, <2>1, <3>1, IsListed
  <2> QED BY <2>2, <2>3
<1>11. ASSUME NEW f \in Named(s)
       PROVE  f \in Named(t) \/ (Head(s).kind = "file" /\ f = Head(s).file)
  <2>1. PICK i \in 1 .. n : s[i].file = f /\ s[i].kind = "file"
    BY <1>3, ListedIs
  <2>2. CASE i = 1
    BY <1>1, <2>1, <2>2
  <2>3. CASE i # 1
    <3>1. i - 1 \in 1 .. Len(t) /\ s[i] = t[i - 1]
      BY <1>5, <2>3
    <3> QED BY <1>1, <2>1, <3>1, IsListed
  <2> QED BY <2>2, <2>3
<1>12. ASSUME Apart(s) PROVE Apart(t) /\ Head(s).file \notin Listed(t)
  <2>1. ASSUME NEW i \in 1 .. Len(t), NEW j \in 1 .. Len(t), t[i].file = t[j].file PROVE i = j
    <3>1. i \in 1 .. n - 1 /\ j \in 1 .. n - 1 /\ i + 1 \in 1 .. n /\ j + 1 \in 1 .. n
      BY <1>1
    <3>2. s[i + 1].file = s[j + 1].file
      BY <1>1, <2>1, <3>1
    <3>3. i + 1 = j + 1
      BY <1>3, <1>12, <3>1, <3>2 DEF Apart
    <3> QED BY <3>1, <3>3
  <2>2. ASSUME Head(s).file \in Listed(t) PROVE FALSE
    <3>1. PICK i \in 1 .. Len(t) : t[i].file = Head(s).file
      BY <1>1, <2>2, ListedIs
    <3>2. i \in 1 .. n - 1 /\ i + 1 \in 1 .. n /\ i + 1 # 1
      BY <1>1
    <3>3. s[i + 1].file = s[1].file
      BY <1>1, <3>1, <3>2
    <3>4. i + 1 = 1
      BY <1>3, <1>8, <1>12, <3>2, <3>3 DEF Apart
    <3> QED BY <3>2, <3>4
  <2> QED BY <2>1, <2>2 DEF Apart
<1>13. Listed(s) = Listed(t) \cup {Head(s).file}
  BY <1>7, <1>9, <1>10
<1>14. Named(s) = Named(t) \cup (IF Head(s).kind = "file" THEN {Head(s).file} ELSE {})
  BY <1>7, <1>9, <1>11
<1> QED BY <1>1, <1>2, <1>3, <1>4, <1>12, <1>13, <1>14

LEMMA Appended ==
    ASSUME NEW s \in Seq(Entry), NEW e \in Entry
    PROVE  /\ Append(s, e) \in Seq(Entry)
           /\ Listed(Append(s, e)) = Listed(s) \cup {e.file}
           /\ Named(Append(s, e)) = Named(s) \cup (IF e.kind = "file" THEN {e.file} ELSE {})
           /\ Apart(s) /\ e.file \notin Listed(s) => Apart(Append(s, e))
<1> DEFINE n == Len(s)
           t == Append(s, e)
<1>1. /\ t \in Seq(Entry) /\ n \in Nat /\ Len(t) = n + 1
      /\ \A i \in 1 .. n : t[i] = s[i]
      /\ t[n + 1] = e
  BY AppendProperties, LenProperties
<1> HIDE DEF n, t
<1>2. n = Len(s) /\ t = Append(s, e)
  BY DEF n, t
<1>3. n + 1 \in 1 .. Len(t) /\ \A i \in 1 .. n : i \in 1 .. Len(t)
  BY <1>1
<1>4. Within(s, t)
  <2>1. ASSUME NEW i \in 1 .. Len(s) PROVE \E j \in 1 .. Len(t) : s[i] = t[j]
    BY <1>1, <1>2, <1>3
  <2> QED BY <2>1 DEF Within
<1>5. Listed(s) \subseteq Listed(t) /\ Named(s) \subseteq Named(t)
  BY <1>1, <1>4, WithinIs
<1>6. e.file \in Listed(t) /\ (e.kind = "file" => e.file \in Named(t))
  <2>1. t[n + 1].file \in Listed(t) /\ (t[n + 1].kind = "file" => t[n + 1].file \in Named(t))
    BY <1>1, <1>3, IsListed
  <2> QED BY <1>1, <2>1
<1>7. ASSUME NEW f \in Listed(t) PROVE f = e.file \/ f \in Listed(s)
  <2>1. PICK i \in 1 .. n + 1 : t[i].file = f
    BY <1>1, ListedIs
  <2>2. CASE i = n + 1
    BY <1>1, <2>1, <2>2
  <2>3. CASE i # n + 1
    <3>1. i \in 1 .. n
      BY <1>1, <2>3
    <3> QED BY <1>1, <1>2, <2>1, <3>1, IsListed
  <2> QED BY <2>2, <2>3
<1>8. ASSUME NEW f \in Named(t) PROVE f \in Named(s) \/ (e.kind = "file" /\ f = e.file)
  <2>1. PICK i \in 1 .. n + 1 : t[i].file = f /\ t[i].kind = "file"
    BY <1>1, ListedIs
  <2>2. CASE i = n + 1
    BY <1>1, <2>1, <2>2
  <2>3. CASE i # n + 1
    <3>1. i \in 1 .. n
      BY <1>1, <2>3
    <3> QED BY <1>1, <1>2, <2>1, <3>1, IsListed
  <2> QED BY <2>2, <2>3
<1>9. ASSUME Apart(s), e.file \notin Listed(s) PROVE Apart(t)
  <2>1. \A i \in 1 .. n : t[i].file # e.file
    BY <1>1, <1>2, <1>9, IsListed
  <2>2. \A i, j \in 1 .. n : t[i].file = t[j].file => i = j
    BY <1>1, <1>2, <1>9 DEF Apart
  <2>3. \A i \in 1 .. n + 1 : i # n + 1 => i \in 1 .. n
    BY <1>1
  <2>4. t[n + 1].file = e.file /\ Len(t) = n + 1
    BY <1>1
  <2> QED BY <2>1, <2>2, <2>3, <2>4 DEF Apart
<1>10. Listed(t) = Listed(s) \cup {e.file}
  BY <1>5, <1>6, <1>7
<1>11. Named(t) = Named(s) \cup (IF e.kind = "file" THEN {e.file} ELSE {})
  BY <1>5, <1>6, <1>8
<1> QED BY <1>1, <1>2, <1>9, <1>10, <1>11

LEMMA Reversed ==
    ASSUME NEW s \in Seq(Entry)
    PROVE  /\ Reverse(s) \in Seq(Entry)
           /\ Listed(Reverse(s)) = Listed(s) /\ Named(Reverse(s)) = Named(s)
           /\ Apart(s) => Apart(Reverse(s))
           /\ Reverse(s) = <<>> => s = <<>>
<1> DEFINE n == Len(s)
           t == Reverse(s)
<1>1. n \in Nat /\ \A i \in 1 .. n : s[i] \in Entry
  BY LenProperties, ElementOfSeq
<1>2. t = [i \in 1 .. n |-> s[(n - i) + 1]]
  BY DEF Reverse
<1> HIDE DEF n, t
<1>3. n = Len(s) /\ t = Reverse(s)
  BY DEF n, t
<1>4. ASSUME NEW i \in 1 .. n PROVE (n - i) + 1 \in 1 .. n /\ (n - ((n - i) + 1)) + 1 = i
  BY <1>1
<1>5. t \in Seq(Entry) /\ Len(t) = n /\ \A i \in 1 .. n : t[i] = s[(n - i) + 1]
  <2>1. t \in [1 .. n -> Entry]
    BY <1>1, <1>2, <1>4
  <2>2. t \in Seq(Entry)
    BY <1>1, <2>1, SeqDef
  <2>3. DOMAIN t = 1 .. Len(t) /\ Len(t) \in Nat
    BY <2>2, LenProperties
  <2>4. Len(t) = n
    BY <1>1, <2>1, <2>3
  <2> QED BY <1>2, <2>2, <2>4
<1>6. Within(t, s)
  <2>1. ASSUME NEW i \in 1 .. Len(t) PROVE \E j \in 1 .. Len(s) : t[i] = s[j]
    BY <1>3, <1>4, <1>5
  <2> QED BY <2>1 DEF Within
<1>7. Within(s, t)
  <2>1. ASSUME NEW i \in 1 .. Len(s) PROVE \E j \in 1 .. Len(t) : s[i] = t[j]
    <3>1. (n - i) + 1 \in 1 .. n /\ (n - ((n - i) + 1)) + 1 = i
      BY <1>3, <1>4
    <3>2. t[(n - i) + 1] = s[i]
      <4>1. t[(n - i) + 1] = s[(n - ((n - i) + 1)) + 1]
        BY <1>5, <3>1
      <4> QED BY <3>1, <4>1
    <3> QED BY <1>5, <3>1, <3>2
  <2> QED BY <2>1 DEF Within
<1>8. Listed(t) = Listed(s) /\ Named(t) = Named(s)
  <2>1. Listed(t) \subseteq Listed(s) /\ Named(t) \subseteq Named(s)
    BY <1>5, <1>6, WithinIs
  <2>2. Listed(s) \subseteq Listed(t) /\ Named(s) \subseteq Named(t)
    BY <1>5, <1>7, WithinIs
  <2> QED BY <2>1, <2>2
<1>9. ASSUME Apart(s) PROVE Apart(t)
  <2> SUFFICES ASSUME NEW i \in 1 .. n, NEW j \in 1 .. n, t[i].file = t[j].file PROVE i = j
    BY <1>5 DEF Apart
  <2>1. (n - i) + 1 \in 1 .. n /\ (n - j) + 1 \in 1 .. n
    BY <1>4
  <2>2. s[(n - i) + 1].file = s[(n - j) + 1].file
    BY <1>5
  <2>3. (n - i) + 1 = (n - j) + 1
    BY <1>3, <1>9, <2>1, <2>2 DEF Apart
  <2> QED BY <1>1, <2>3
<1>10. t = <<>> => s = <<>>
  <2>1. t = <<>> => Len(t) = 0
    BY EmptySeq
  <2>2. s # <<>> => Len(s) # 0
    BY EmptySeq
  <2> QED BY <1>3, <1>5, <2>1, <2>2
<1> QED BY <1>3, <1>5, <1>8, <1>9, <1>10

LEMMA Joined ==
    ASSUME NEW s \in Seq(Entry), NEW t \in Seq(Entry)
    PROVE  /\ s \o t \in Seq(Entry)
           /\ Named(s) \subseteq Named(s \o t)
           /\ Apart(s) /\ Apart(t) /\ Separate(s, t) => Apart(s \o t)
           /\ s \o t = <<>> <=> s = <<>> /\ t = <<>>
<1> DEFINE n == Len(s)
           k == Len(t)
           u == s \o t
<1>1. /\ u \in Seq(Entry) /\ Len(u) = n + k /\ n \in Nat /\ k \in Nat
      /\ \A i \in 1 .. n + k : u[i] = IF i <= n THEN s[i] ELSE t[i - n]
  BY ConcatProperties, LenProperties
<1>2. u = <<>> <=> s = <<>> /\ t = <<>>
  BY ConcatEqualIffEmpty
<1> HIDE DEF n, k, u
<1>3. n = Len(s) /\ k = Len(t) /\ u = s \o t
  BY DEF n, k, u
<1>4. ASSUME NEW i \in 1 .. n PROVE i \in 1 .. n + k /\ u[i] = s[i]
  <2>1. i \in 1 .. n + k /\ i <= n
    BY <1>1
  <2> QED BY <1>1, <2>1
<1>5. ASSUME NEW i \in 1 .. n + k, i \notin 1 .. n PROVE i - n \in 1 .. k /\ u[i] = t[i - n]
  <2>1. i - n \in 1 .. k /\ ~ (i <= n)
    BY <1>1, <1>5
  <2> QED BY <1>1, <2>1
<1>6. Within(s, u)
  <2>1. ASSUME NEW i \in 1 .. Len(s) PROVE \E j \in 1 .. Len(u) : s[i] = u[j]
    BY <1>1, <1>3, <1>4
  <2> QED BY <2>1 DEF Within
<1>7. Named(s) \subseteq Named(u)
  BY <1>1, <1>6, WithinIs
<1>8. ASSUME Apart(s), Apart(t), Separate(s, t) PROVE Apart(u)
  <2> SUFFICES ASSUME NEW i \in 1 .. n + k, NEW j \in 1 .. n + k, u[i].file = u[j].file
               PROVE  i = j
    BY <1>1 DEF Apart
  <2>1. CASE i \in 1 .. n /\ j \in 1 .. n
    <3>1. s[i].file = s[j].file
      BY <1>4, <2>1
    <3> QED BY <1>3, <1>8, <2>1, <3>1 DEF Apart
  <2>2. CASE i \notin 1 .. n /\ j \notin 1 .. n
    <3>1. i - n \in 1 .. k /\ j - n \in 1 .. k /\ t[i - n].file = t[j - n].file
      BY <1>5, <2>2
    <3>2. i - n = j - n
      BY <1>3, <1>8, <3>1 DEF Apart
    <3> QED BY <1>1, <3>2
  <2>3. CASE i \in 1 .. n /\ j \notin 1 .. n
    <3>1. u[i] = s[i] /\ j - n \in 1 .. k /\ u[j] = t[j - n]
      BY <1>4, <1>5, <2>3
    <3>2. u[i].file \in Listed(s) /\ u[j].file \in Listed(t)
      BY <1>3, <2>3, <3>1, IsListed
    <3> QED BY <1>8, <3>2 DEF Separate
  <2>4. CASE i \notin 1 .. n /\ j \in 1 .. n
    <3>1. u[j] = s[j] /\ i - n \in 1 .. k /\ u[i] = t[i - n]
      BY <1>4, <1>5, <2>4
    <3>2. u[j].file \in Listed(s) /\ u[i].file \in Listed(t)
      BY <1>3, <2>4, <3>1, IsListed
    <3> QED BY <1>8, <3>2 DEF Separate
  <2> QED BY <2>1, <2>2, <2>3, <2>4
<1> QED BY <1>1, <1>2, <1>3, <1>7, <1>8

\* Every file of the release, once.
LEMMA AllAreListed ==
    /\ AllEntries \in Seq(Entry) /\ Apart(AllEntries)
    /\ Listed(AllEntries) = File /\ Named(AllEntries) = File
<1>1. /\ AllEntries \in [1 .. Files -> Entry] /\ Files \in Nat
      /\ \A f \in File : AllEntries[f].file = f /\ AllEntries[f].kind = "file"
  BY UpdateAssumption DEF AllEntries, File, Entry
<1>2. AllEntries \in Seq(Entry)
  BY <1>1, SeqDef
<1>3. Len(AllEntries) = Files
  <2>1. DOMAIN AllEntries = 1 .. Len(AllEntries) /\ Len(AllEntries) \in Nat
    BY <1>2, LenProperties
  <2> QED BY <1>1, <2>1
<1>4. Apart(AllEntries)
  BY <1>1, <1>3 DEF Apart, File
<1>5. Listed(AllEntries) = File /\ Named(AllEntries) = File
  BY <1>1, <1>3 DEF Listed, Named, File
<1> QED BY <1>2, <1>4, <1>5

-----------------------------------------------------------------------------
(* One file operation. *)

LEMMA MoveIs ==
    ASSUME disk \in Disk, NEW f \in File, NEW s \in Slot, NEW t \in Slot, s # t, Move(f, s, t)
    PROVE  /\ disk' \in Disk /\ \A g \in File \ {f} : disk'[g] = disk[g]
           /\ disk'[f][t] = disk[f][s] /\ disk'[f][s] = None
           /\ \A u \in Slot \ {s, t} : disk'[f][u] = disk[f][u]
<1> DEFINE P == Slot \cup {"mapped"}
           d == [u \in P |-> IF u = t THEN disk[f][s] ELSE IF u = s THEN None
                             ELSE IF u = "mapped" /\ disk[f][u] = s THEN t ELSE disk[f][u]]
<1>1. /\ disk[f] \in [P -> Content \cup Slot] /\ s \in P /\ t \in P
      /\ "mapped" \notin Slot /\ None \in Content
  BY DEF Disk, Slot, Content, None
<1>2. d \in [P -> Content \cup Slot]
  <2> HIDE DEF P
  <2> QED BY <1>1
<1>3. d[t] = disk[f][s] /\ d[s] = None /\ \A u \in Slot \ {s, t} : d[u] = disk[f][u]
  BY <1>1
<1>4. disk' = [disk EXCEPT ![f] = d]
  BY DEF Move
<1> HIDE DEF d, P
<1> QED BY <1>2, <1>3, <1>4 DEF Disk, P

LEMMA PutIs ==
    ASSUME disk \in Disk, NEW f \in File, NEW s \in Slot, NEW c \in Content, Put(f, s, c)
    PROVE  /\ disk' \in Disk /\ \A g \in File \ {f} : disk'[g] = disk[g]
           /\ disk'[f][s] = c /\ \A u \in Slot \ {s} : disk'[f][u] = disk[f][u]
<1>1. disk[f] \in [Slot \cup {"mapped"} -> Content \cup Slot]
  BY DEF Disk
<1>2. disk' = [disk EXCEPT ![f] = [disk[f] EXCEPT ![s] = c]]
  BY DEF Put
<1> DEFINE d == [disk[f] EXCEPT ![s] = c]
<1>3. d \in [Slot \cup {"mapped"} -> Content \cup Slot] /\ d[s] = c
      /\ \A u \in Slot \ {s} : d[u] = disk[f][u]
  BY <1>1
<1> HIDE DEF d
<1>4. disk' = [disk EXCEPT ![f] = d]
  BY <1>2 DEF d
<1> QED BY <1>3, <1>4 DEF Disk

\* A game that starts or stops changes what is mapped, and nothing else.
SameFiles == disk' \in Disk /\ \A f \in File : \A s \in Slot : disk'[f][s] = disk[f][s]

LEMMA UnmappedIs ==
    ASSUME disk \in Disk, NEW m \in [File -> Content \cup Slot],
           disk' = [f \in File |-> [disk[f] EXCEPT !["mapped"] = m[f]]]
    PROVE  SameFiles
<1> SUFFICES ASSUME NEW f \in File
             PROVE  /\ disk'[f] \in [Slot \cup {"mapped"} -> Content \cup Slot]
                    /\ \A s \in Slot : disk'[f][s] = disk[f][s]
  BY DEF SameFiles, Disk
<1>1. disk[f] \in [Slot \cup {"mapped"} -> Content \cup Slot] /\ "mapped" \notin Slot
  BY DEF Disk, Slot
<1>2. disk'[f] = [disk[f] EXCEPT !["mapped"] = m[f]]
  OBVIOUS
<1> QED BY <1>1, <1>2

\* What is left of the bounds.
Steady == env' \in Left /\ env'.damage = env.damage

LEMMA FaultIsSteady == ASSUME env \in Left, Fault PROVE Steady
<1>1. env.faults - 1 \in Nat
  BY DEF Fault, Left
<1> QED BY <1>1 DEF Fault, Left, Steady

LEMMA WorksIsSteady == ASSUME env \in Left, env' = env PROVE Steady
BY DEF Steady

LEMMA UndeletableIsSteady ==
    ASSUME env \in Left, NEW f, NEW s, Undeletable(f, s) PROVE Steady
BY FaultIsSteady, WorksIsSteady DEF Undeletable

LEMMA DeleteIs ==
    ASSUME disk \in Disk, env \in Left, NEW f \in File, NEW s \in Slot, Delete(f, s)
    PROVE  /\ Steady /\ disk' \in Disk /\ \A g \in File \ {f} : disk'[g] = disk[g]
           /\ disk'[f][s] = None /\ \A u \in Slot \ {s} : disk'[f][u] = disk[f][u]
<1>1. env' = env /\ Put(f, s, None) /\ None \in Content
  BY DEF Delete, Works, Drop, Content
<1> QED BY <1>1, PutIs, WorksIsSteady

-----------------------------------------------------------------------------
(* What stays accounted for. *)

\* Nothing changes but what is mapped.
LEMMA DataStays ==
    ASSUME Data, SameFiles, UNCHANGED <<journal, base>>, Steady
    PROVE  Data' /\ (AllNew <=> AllNew') /\ (AllBase <=> AllBase')
           /\ (AllInPlace <=> AllInPlace') /\ (TargetsAreComplete <=> TargetsAreComplete')
<1>1. /\ \A f \in File : disk'[f]["target"] = disk[f]["target"]
      /\ \A f \in File : disk'[f]["backup"] = disk[f]["backup"]
      /\ \A f \in File : disk'[f]["quarantine"] = disk[f]["quarantine"]
      /\ \A f \in File : disk'[f]["staged"] = disk[f]["staged"]
  BY DEF SameFiles, Slot
<1>2. base' = base /\ journal' = journal
  OBVIOUS
<1>3. \A f \in File :
        /\ InPlace(disk'[f], base'[f]) <=> InPlace(disk[f], base[f])
        /\ Undoable(disk'[f], base'[f]) <=> Undoable(disk[f], base[f])
        /\ Final(disk'[f], base'[f]) <=> Final(disk[f], base[f])
  BY <1>1, <1>2 DEF InPlace, Undoable, SetAside, Replaced, Final, Spent
<1>4. (AllNew <=> AllNew') /\ (AllBase <=> AllBase')
  BY <1>1, <1>2 DEF AllNew, AllBase, Is
<1>5. (AllInPlace <=> AllInPlace') /\ (Cleared <=> Cleared') /\ (NoBackups <=> NoBackups')
  BY <1>1, <1>3 DEF AllInPlace, Cleared, NoBackups
<1>6. TargetsAreComplete <=> TargetsAreComplete'
  BY <1>1, <1>2 DEF TargetsAreComplete, Is, Has
<1>7. (Own <=> Own') /\ (Undecided <=> Undecided') /\ (Outdated <=> Outdated')
  BY <1>2, <1>5 DEF Own, Undecided, Outdated
<1>8. DataType'
  BY <1>2 DEF Data, DataType, SameFiles, Steady
<1>9. Accounted'
  BY <1>2, <1>3, <1>4, <1>5, <1>7 DEF Data, Accounted, Steady
<1> QED BY <1>4, <1>5, <1>6, <1>8, <1>9 DEF Data

\* One file of a transaction that may still be undone.
LEMMA UndoableIsKept ==
    ASSUME Data, Undecided, Own, UNCHANGED <<journal, base>>, env' \in Left, disk' \in Disk,
           NEW f \in File, \A g \in File \ {f} : disk'[g] = disk[g],
           Undoable(disk'[f], base[f]),
           f \in Named(journal.entries) \/ InPlace(disk'[f], base[f])
    PROVE  Data' /\ Undecided' /\ Own'
<1>1. \A g \in File : Undoable(disk[g], base[g])
                      /\ (g \in Named(journal.entries) \/ InPlace(disk[g], base[g]))
  BY DEF Data, Accounted, Outdated, AllInPlace, Undoable
<1>2. \A g \in File : Undoable(disk'[g], base[g])
                      /\ (g \in Named(journal.entries) \/ InPlace(disk'[g], base[g]))
  BY <1>1
<1>3. DataType'
  BY DEF Data, DataType
<1>4. Undecided' /\ Own'
  BY DEF Undecided, Own
<1>5. Accounted'
  BY <1>2, <1>4 DEF Accounted, Undecided
<1> QED BY <1>3, <1>4, <1>5 DEF Data

LEMMA UndoableStays ==
    ASSUME Data, Undecided, Own, UNCHANGED <<journal, base>>, Steady, disk' \in Disk,
           NEW f \in File, \A g \in File \ {f} : disk'[g] = disk[g],
           Undoable(disk'[f], base[f]),
           f \in Named(journal.entries) \/ InPlace(disk'[f], base[f])
    PROVE  Data' /\ Undecided' /\ Own'
BY UndoableIsKept DEF Steady

-----------------------------------------------------------------------------
(* How an operation goes on, and how it ends. *)

LEMMA GotoIs ==
    ASSUME op \in Op, NEW pc \in Pc, Goto(pc)
    PROVE  /\ op' \in Op /\ op'.pc = pc /\ op'.who = op.who /\ op'.todo = op.todo
           /\ op'.unresolved = op.unresolved /\ op'.cleanup = op.cleanup
           /\ op'.quarantined = op.quarantined /\ op'.whole = op.whole
           /\ op'.good = op.good /\ op'.bad = op.bad
BY DEF Goto, Op

\* Nobody but the installer and the launcher is told anything before the end.
SameGame == game' = game \/ \E b \in BOOLEAN : game' = [game EXCEPT !.restart = b]

LEMMA Continues ==
    ASSUME UpdateInv, op.who # None, Data', op' \in Op, Ends', Working',
           SameGame, report' = report, game.phase = "offered" => journal' = NoJournal
    PROVE  UpdateInv'
<1>1. game' \in Game /\ game'.phase = game.phase
  <2>1. game \in Game
    BY DEF UpdateInv, Told
  <2> QED BY <2>1 DEF SameGame, Game
<1>2. report = None
  BY DEF UpdateInv, Told, NoOp
<1>3. ReportIsTrue'
  BY <1>2 DEF ReportIsTrue, None
<1> QED BY <1>1, <1>2, <1>3 DEF UpdateInv, Told

LEMMA NoOpWorks ==
    ASSUME op' = NoOp PROVE op' \in Op /\ Ends' /\ Working'
<1>1. /\ op'.who = None /\ op'.pc = "idle" /\ op'.bad = None
  BY DEF NoOp
<1>2. op' \in Op
  BY EmptyList DEF NoOp, Op, Pc, Result, None
<1>3. Ends'
  BY <1>1 DEF Ends, None
<1>4. Working'
  BY <1>1 DEF Working
<1> QED BY <1>2, <1>3, <1>4

LEMMA Stops ==
    ASSUME UpdateInv, op.who # None, NEW result \in Result, End(result), Data',
           op.who \in {"check", "stage"} /\ result = "offered" => journal' = NoJournal,
           op.who \notin {"check", "stage"} =>
               /\ game.phase = "offered" => journal' = NoJournal
               /\ result = "UPDATED" => AllNew'
               /\ result = "ROLLED_BACK" => AllBase'
               /\ result = "READY" => journal' = NoJournal
    PROVE  UpdateInv'
<1>1. report = None /\ game \in Game
  BY DEF UpdateInv, Told, NoOp
<1>2. op' \in Op /\ Ends' /\ Working' /\ op' = NoOp
  BY NoOpWorks DEF End
<1>3. CASE op.who \in {"check", "stage"}
  <2>1. report' = None /\ game' = [game EXCEPT !.phase = result]
    BY <1>1, <1>3 DEF End
  <2>2. game' \in Game /\ game'.phase = result
    BY <1>1, <2>1 DEF Game
  <2>3. ReportIsTrue'
    BY <2>1 DEF ReportIsTrue, None
  <2> QED BY <1>2, <1>3, <2>1, <2>2, <2>3 DEF UpdateInv, Told
<1>4. CASE op.who \notin {"check", "stage"}
  <2>1. report' = result /\ game' = game
    BY <1>4 DEF End
  <2>2. ReportIsTrue'
    BY <1>4, <2>1 DEF ReportIsTrue, Data, Accounted
  <2> QED BY <1>1, <1>2, <1>4, <2>1, <2>2 DEF UpdateInv, Told
<1> QED BY <1>3, <1>4

LEMMA SameDisk == ASSUME Data, disk' = disk PROVE SameFiles
BY DEF Data, DataType, SameFiles

\* A step that fails leaves the disk and the journal to the next operation.
LEMMA FailsSafely ==
    ASSUME UpdateInv, op.who # None, Fail, UNCHANGED <<disk, journal, base>>, Steady
    PROVE  UpdateInv'
<1>1. /\ Data' /\ (AllBase <=> AllBase')
  BY SameDisk, DataStays DEF UpdateInv
<1>2. op.bad \in Result /\ End(op.bad) /\ op.who \in {"check", "stage", "apply", "helper"}
  BY DEF UpdateInv, Op, Fail
<1>3. op.bad = "offered" => op.who \notin {"check", "stage"}
  BY DEF UpdateInv, Ends
<1>4. game.phase = "offered" => journal' = NoJournal
  BY DEF UpdateInv, Told
<1>5. op.who \notin {"check", "stage"} =>
        op.bad # "UPDATED" /\ op.bad # "READY" /\ (op.bad = "ROLLED_BACK" => AllBase')
  BY <1>1, <1>2 DEF UpdateInv, Ends
<1> HIDE DEF UpdateInv, Fail, SameDisk
<1> QED BY <1>1, <1>2, <1>3, <1>4, <1>5, Stops

\* Recovery has put the installation in order.
LEMMA RecoversOn ==
    ASSUME UpdateInv, op.who # None, Recovered, Data', op.bad # "ROLLED_BACK",
           journal' # NoJournal => Undecided' /\ AllInPlace',
           op.good = "UPDATED" => AllNew' /\ journal' = NoJournal,
           op.good = "ROLLED_BACK" => AllBase',
           game.phase = "offered" => journal' = NoJournal
    PROVE  UpdateInv'
<1>1. op \in Op /\ op.who \in {"check", "stage", "apply", "helper"}
  BY DEF UpdateInv, Op
<1>2. CASE By("check") /\ game.restart
  <2>1. End("restart") /\ "restart" \in Result /\ op.who \in {"check", "stage"}
    BY <1>2 DEF Recovered, Result, By
  <2> QED BY <2>1, Stops
<1>3. CASE ~ (By("check") /\ game.restart) /\ By("stage") /\ game.restart
  <2>1. End(op.bad) /\ op.bad \in Result /\ op.who \in {"check", "stage"} /\ op.bad # "offered"
    BY <1>1, <1>3 DEF Recovered, By, Fail, UpdateInv, Ends, Op
  <2> QED BY <2>1, Stops
<1>4. CASE ~ (By("check") /\ game.restart) /\ ~ (By("stage") /\ game.restart)
  <2>1. PICK pc \in {"reconcile", "sweep"} : Goto(pc) /\ UNCHANGED <<game, report>>
    BY <1>4 DEF Recovered
  <2>2. /\ op' \in Op /\ op'.pc = pc /\ op'.who = op.who /\ op'.good = op.good /\ op'.bad = op.bad
    BY <1>1, <2>1, GotoIs DEF Pc
  <2>3. Cleans'
    BY <2>2 DEF Cleans
  <2>4. Working'
    BY <2>1, <2>2, <2>3 DEF Working
  <2>5. Ends'
    BY <1>1, <2>1, <2>2 DEF UpdateInv, Ends
  <2>6. SameGame /\ report' = report
    BY <2>1 DEF SameGame
  <2> QED BY <2>2, <2>4, <2>5, <2>6, Continues
<1> QED BY <1>2, <1>3, <1>4

LEMMA EndsStay ==
    ASSUME UpdateInv, op.who # None, op.pc # "sweep", op'.pc # "idle",
           op'.who = op.who, op'.good = op.good, op'.bad = op.bad
    PROVE  Ends'
BY DEF UpdateInv, Ends

\* The last journal goes when the installation is whole.
LEMMA JournalGone ==
    ASSUME Data, AllNew \/ AllBase, NoBackups, journal' = NoJournal,
           UNCHANGED <<disk, base>>, Steady
    PROVE  Data'
<1>1. /\ NoJournal \in Journal /\ NoJournal.version = 0 /\ NoJournal.entries = <<>>
      /\ NoJournal.committed = FALSE /\ Apart(NoJournal.entries)
  BY EmptyList DEF NoJournal, Journal
<1>2. DataType'
  BY <1>1 DEF Data, DataType, Steady
<1>3. Accounted'
  BY <1>1 DEF Accounted, AllNew, AllBase, NoBackups, Is, Undecided
<1> QED BY <1>2, <1>3 DEF Data

LEMMA HomeIsBase ==
    ASSUME AllInPlace PROVE AllBase /\ NoBackups
BY DEF AllInPlace, AllBase, NoBackups, InPlace, Is

\* A transaction that is not under way is the server's own.
LEMMA Unmutated ==
    ASSUME Data, Undecided, NEW f \in File, f \notin Named(journal.entries)
    PROVE  InPlace(disk[f], base[f])
BY DEF Data, Accounted, Outdated, AllInPlace

-----------------------------------------------------------------------------
(* The journal is read, and a committed set cleaned up. *)

LEMMA WalkBegins ==
    ASSUME UpdateInv, op.who # None, Unwalked, op.good # "UPDATED", op.pc # "sweep",
           op' = [op EXCEPT !.pc = "walk", !.todo = Reverse(journal.entries)],
           Data', Undecided', journal'.entries = journal.entries,
           SameGame, report' = report, game.phase # "offered"
    PROVE  UpdateInv'
<1>1. op \in Op /\ journal.entries \in Seq(Entry) /\ Apart(journal.entries)
  BY DEF UpdateInv, Data, DataType, Journal
<1>2. /\ Reverse(journal.entries) \in Seq(Entry) /\ Apart(Reverse(journal.entries))
      /\ Named(Reverse(journal.entries)) = Named(journal.entries)
  BY <1>1, Reversed
<1> DEFINE s == Reverse(journal.entries)
<1> HIDE DEF s
<1>3. /\ op' \in Op /\ op'.pc = "walk" /\ op'.todo = s
      /\ op'.unresolved = <<>> /\ op'.cleanup = <<>> /\ op'.quarantined = FALSE
      /\ op'.good = op.good /\ op'.bad = op.bad /\ op'.who = op.who
  BY <1>1, <1>2 DEF s, Op, Pc, Unwalked
<1>4. /\ s \in Seq(Entry) /\ Apart(s) /\ Named(s) = Named(journal.entries)
  BY <1>2 DEF s
<1>5. Own' \/ Outdated'
  BY DEF Data, Accounted
<1>6. \A f \in File : f \in Named(journal'.entries) \/ InPlace(disk'[f], base'[f])
  BY DEF Data, Accounted, Outdated, AllInPlace
<1>7. Walks'
  BY <1>3, <1>4, <1>5, <1>6, EmptyList DEF Walks, Separate
<1>8. Working'
  BY <1>3, <1>7 DEF Working
<1>9. Ends'
  BY <1>3, EndsStay
<1> QED BY <1>3, <1>8, <1>9, Continues

LEMMA ReadJournalKeeps ==
    ASSUME UpdateInv, ReadJournal PROVE UpdateInv'
<1>1. /\ op.who # None /\ op.pc = "journal" /\ Reads /\ op \in Op /\ env \in Left
      /\ op.bad # "ROLLED_BACK" /\ Data /\ game \in Game
      /\ (game.phase = "offered" => journal = NoJournal)
  BY DEF ReadJournal, At, UpdateInv, Working, Data, DataType, Ends, Told
<1>2. UNCHANGED <<disk, base>>
  BY DEF ReadJournal
<1>3. CASE journal = NoJournal /\ Recovered /\ UNCHANGED <<journal, env>>
  <2>1. Data' /\ journal' = NoJournal
    BY <1>1, <1>2, <1>3, WorksIsSteady, SameDisk, DataStays
  <2>2. op.good # "UPDATED" /\ op.good # "ROLLED_BACK"
    BY <1>1, <1>3 DEF Reads, TargetsAreComplete, NoJournal
  <2> QED BY <1>1, <1>3, <2>1, <2>2, RecoversOn
<1>4. CASE /\ journal # NoJournal /\ journal.committed /\ Goto("committed")
           /\ UNCHANGED <<journal, game, report, env>>
  <2>1. Data' /\ (AllNew <=> AllNew')
    BY <1>1, <1>2, <1>4, WorksIsSteady, SameDisk, DataStays
  <2>2. /\ op' \in Op /\ op'.pc = "committed" /\ op'.who = op.who /\ op'.good = op.good
        /\ op'.bad = op.bad /\ op'.unresolved = op.unresolved /\ op'.cleanup = op.cleanup
        /\ op'.quarantined = op.quarantined
    BY <1>1, <1>4, GotoIs DEF Pc
  <2>3. TargetsAreComplete <=> AllNew
    BY <1>1, <1>4 DEF TargetsAreComplete, AllNew, Data, Accounted, Final, Has
  <2>4. Verifies'
    BY <1>1, <1>4, <2>1, <2>2, <2>3 DEF Verifies, Reads, Unwalked
  <2>5. Working'
    BY <2>2, <2>4 DEF Working
  <2>6. Ends'
    BY <1>1, <2>2, EndsStay
  <2> QED BY <1>1, <1>4, <2>1, <2>2, <2>5, <2>6, Continues DEF SameGame
<1>5. CASE /\ journal # NoJournal /\ ~ journal.committed /\ ~ TargetsAreComplete
           /\ op' = [op EXCEPT !.pc = "walk", !.todo = Reverse(journal.entries)]
           /\ UNCHANGED <<journal, game, report, env>>
  <2>1. Data' /\ Undecided'
    BY <1>1, <1>2, <1>5, WorksIsSteady, SameDisk, DataStays DEF Undecided
  <2>2. Unwalked /\ op.good # "UPDATED"
    BY <1>1, <1>5 DEF Reads
  <2>3. SameGame /\ game.phase # "offered"
    BY <1>1, <1>5 DEF SameGame
  <2> QED BY <1>1, <1>5, <2>1, <2>2, <2>3, WalkBegins
<1>6. CASE /\ journal # NoJournal /\ ~ journal.committed /\ TargetsAreComplete
           /\ Works /\ journal' = [journal EXCEPT !.committed = TRUE]
           /\ Goto("committed") /\ Touched /\ UNCHANGED report
  <2>1. /\ journal' \in Journal /\ journal'.committed = TRUE /\ journal'.version = journal.version
        /\ journal'.entries = journal.entries /\ journal'.original = journal.original
        /\ journal.version = 3
    BY <1>1, <1>6 DEF Data, DataType, Journal, TargetsAreComplete
  <2>2. Steady
    BY <1>1, <1>6, WorksIsSteady DEF Works
  <2>3. DataType'
    BY <1>1, <1>2, <2>1, <2>2 DEF Data, DataType, Steady
  <2>4. \A f \in File : disk[f]["target"] = "new" /\ disk[f]["quarantine"] = None
    BY <1>6 DEF TargetsAreComplete, Is, Has
  <2>5. (Own /\ \A f \in File : Undoable(disk[f], base[f])) \/ AllInPlace
    BY <1>1, <1>6 DEF Data, Accounted, Undecided, Outdated
  <2>6. \A f \in File : Final(disk[f], base[f])
    <3> SUFFICES ASSUME NEW f \in File PROVE Final(disk[f], base[f])
      OBVIOUS
    <3>1. InPlace(disk[f], base[f]) \/ Replaced(disk[f], base[f])
      BY <2>4, <2>5 DEF AllInPlace, Undoable, SetAside, None
    <3> QED BY <2>4, <3>1 DEF Final, InPlace, Replaced, Spent, Fresh, None
  <2>7. AllNew'
    BY <1>2, <2>4 DEF AllNew, Is
  <2>8. Own' \/ (AllNew' /\ NoBackups')
    BY <1>2, <2>1, <2>5, <2>7 DEF Own, AllInPlace, InPlace, NoBackups
  <2>9. Accounted'
    <3>1. journal' # NoJournal /\ ~ Undecided'
      BY <2>1 DEF NoJournal, Undecided
    <3>2. \A f \in File : Final(disk'[f], base'[f])
      BY <1>2, <2>6
    <3> QED BY <2>1, <2>7, <2>8, <3>1, <3>2 DEF Accounted
  <2>10. /\ op' \in Op /\ op'.pc = "committed" /\ op'.who = op.who /\ op'.good = op.good
         /\ op'.bad = op.bad /\ op'.unresolved = op.unresolved /\ op'.cleanup = op.cleanup
         /\ op'.quarantined = op.quarantined
    BY <1>1, <1>6, GotoIs DEF Pc
  <2>11. Verifies'
    BY <1>1, <1>6, <2>1, <2>7, <2>10 DEF Verifies, Reads, Unwalked
  <2>12. Working'
    BY <2>10, <2>11 DEF Working
  <2>13. Ends'
    BY <1>1, <2>10, EndsStay
  <2>14. SameGame
    BY <1>1, <1>6 DEF Touched, SameGame, Game
  <2>15. Data' /\ game.phase # "offered" /\ report' = report
    BY <1>1, <1>6, <2>3, <2>9 DEF Data
  <2> QED BY <1>1, <2>10, <2>12, <2>13, <2>14, <2>15, Continues
<1>7. CASE Fault /\ Fail /\ UNCHANGED journal
  BY <1>1, <1>2, <1>7, FaultIsSteady, FailsSafely
<1> QED BY <1>3, <1>4, <1>5, <1>6, <1>7 DEF ReadJournal

LEMMA VerifyCommittedKeeps ==
    ASSUME UpdateInv, VerifyCommitted PROVE UpdateInv'
<1>1. /\ op.who # None /\ op.pc = "committed" /\ Verifies /\ op \in Op /\ env \in Left
      /\ Data /\ journal.committed /\ journal # NoJournal /\ game.phase # "offered"
  BY DEF VerifyCommitted, At, UpdateInv, Working, Data, DataType, Told, Verifies, NoJournal
<1>2. UNCHANGED <<disk, base>>
  BY DEF VerifyCommitted
<1>3. /\ journal \in Journal /\ journal.version = 3 /\ journal.entries = AllEntries
      /\ (\A f \in File : Final(disk[f], base[f])) /\ (Own \/ AllNew)
  BY <1>1 DEF Data, DataType, Accounted
<1>4. CASE /\ AllNew /\ op' = [op EXCEPT !.pc = "backups", !.todo = Reverse(journal.entries)]
           /\ UNCHANGED <<journal, game, report, env>>
  <2>1. Data' /\ AllNew' /\ journal'.committed
    BY <1>1, <1>2, <1>4, WorksIsSteady, SameDisk, DataStays
  <2>2. Reverse(AllEntries) \in Seq(Entry) /\ Listed(Reverse(AllEntries)) = File
    BY AllAreListed, Reversed
  <2>3. /\ op' \in Op /\ op'.pc = "backups" /\ op'.who = op.who /\ op'.good = op.good
        /\ op'.bad = op.bad /\ op'.todo = Reverse(AllEntries)
    BY <1>1, <1>3, <1>4, <2>2 DEF Op, Pc
  <2>4. Deletes'
    BY <1>1, <1>4, <2>1, <2>2, <2>3 DEF Deletes, Verifies
  <2>5. Working'
    BY <2>3, <2>4 DEF Working
  <2>6. Ends'
    BY <1>1, <2>3, EndsStay
  <2> QED BY <1>1, <1>4, <2>1, <2>3, <2>5, <2>6, Continues DEF SameGame
<1>5. CASE ~ AllNew /\ ~ RollbackPossible /\ Fail /\ UNCHANGED <<journal, env>>
  BY <1>1, <1>2, <1>5, WorksIsSteady, FailsSafely
<1>6. CASE /\ ~ AllNew /\ RollbackPossible /\ Works
           /\ journal' = [journal EXCEPT !.committed = FALSE]
           /\ op' = [op EXCEPT !.pc = "walk", !.todo = Reverse(journal.entries)]
           /\ UNCHANGED <<game, report>>
  <2>1. /\ journal' \in Journal /\ journal'.committed = FALSE /\ journal'.version = 3
        /\ journal'.entries = journal.entries /\ journal'.original = journal.original
    BY <1>3, <1>6 DEF Journal
  <2>2. Steady
    BY <1>1, <1>6, WorksIsSteady DEF Works
  <2>3. DataType'
    BY <1>1, <1>2, <1>3, <2>1, <2>2 DEF Data, DataType, Steady
  <2>4. journal' # NoJournal /\ Undecided' /\ Own'
    BY <1>2, <1>3, <1>6, <2>1 DEF NoJournal, Undecided, Own
  <2>5. \A f \in File : Undoable(disk[f], base[f])
    <3> SUFFICES ASSUME NEW f \in File PROVE Undoable(disk[f], base[f])
      OBVIOUS
    <3>1. base[f] # None <=> disk[f]["backup"] # None
      BY <1>3, <1>6 DEF RollbackPossible, HadOriginal, Has, Own
    <3>2. Final(disk[f], base[f])
      BY <1>3
    <3> QED BY <3>1, <3>2 DEF Final, Undoable, Replaced
  <2>6. Named(journal'.entries) = File
    BY <1>3, <2>1, AllAreListed
  <2>7. Data'
    BY <1>2, <2>1, <2>3, <2>4, <2>5, <2>6 DEF Data, Accounted
  <2>8. Unwalked /\ op.good # "UPDATED" /\ SameGame
    BY <1>1, <1>6 DEF Verifies, SameGame
  <2> QED BY <1>1, <1>6, <2>1, <2>4, <2>7, <2>8, WalkBegins
<1>7. CASE Fault /\ Fail /\ UNCHANGED journal
  BY <1>1, <1>2, <1>7, FaultIsSteady, FailsSafely
<1> QED BY <1>4, <1>5, <1>6, <1>7 DEF VerifyCommitted

LEMMA DeleteBackupKeeps ==
    ASSUME UpdateInv, DeleteBackup PROVE UpdateInv'
<1> DEFINE f == Head(op.todo).file
<1>1. /\ op.who # None /\ op.pc = "backups" /\ Deletes /\ op \in Op /\ env \in Left
      /\ Data /\ journal.committed /\ journal # NoJournal /\ game.phase # "offered"
      /\ disk \in Disk /\ AllNew /\ op.todo # <<>>
  BY DEF DeleteBackup, At, UpdateInv, Working, Data, DataType, Told, Deletes, NoJournal
<1>2. UNCHANGED <<journal, base>>
  BY DEF DeleteBackup
<1>3. op.todo \in Seq(Entry) /\ f \in File /\ Tail(op.todo) \in Seq(Entry)
      /\ Listed(op.todo) = Listed(Tail(op.todo)) \cup {f}
  BY <1>1, HeadAndTail DEF Op
<1> HIDE DEF f
<1>4. CASE Undeletable(f, "backup") /\ Fail /\ UNCHANGED disk
  BY <1>1, <1>2, <1>4, UndeletableIsSteady, FailsSafely
<1>5. CASE Delete(f, "backup") /\ op' = [op EXCEPT !.todo = Tail(op.todo)]
           /\ UNCHANGED <<game, report>>
  <2>1. "backup" \in Slot
    BY DEF Slot
  <2>2. /\ Steady /\ disk' \in Disk /\ (\A g \in File \ {f} : disk'[g] = disk[g])
        /\ disk'[f]["backup"] = None
        /\ \A u \in Slot \ {"backup"} : disk'[f][u] = disk[f][u]
    BY <1>1, <1>3, <1>5, <2>1, DeleteIs
  <2>3. \A g \in File : /\ disk'[g]["target"] = disk[g]["target"]
                        /\ disk'[g]["quarantine"] = disk[g]["quarantine"]
                        /\ disk'[g]["staged"] = disk[g]["staged"]
                        /\ disk'[g]["backup"] \in {None, disk[g]["backup"]}
    BY <2>2 DEF Slot
  <2>4. AllNew'
    BY <1>1, <2>3 DEF AllNew, Is
  <2>5. DataType'
    BY <1>1, <1>2, <2>2 DEF Data, DataType, Steady
  <2>6. \A g \in File : Final(disk'[g], base'[g])
    BY <1>1, <1>2, <2>3 DEF Data, Accounted, Final, Spent
  <2>7. Own' \/ (AllNew' /\ NoBackups')
    BY <1>1, <1>2, <2>3, <2>4 DEF Data, Accounted, Own, NoBackups
  <2>8. Accounted'
    BY <1>1, <1>2, <2>4, <2>6, <2>7 DEF Data, Accounted, Undecided
  <2>9. /\ op' \in Op /\ op'.pc = "backups" /\ op'.who = op.who /\ op'.good = op.good
        /\ op'.bad = op.bad /\ op'.todo = Tail(op.todo)
    BY <1>1, <1>3, <1>5 DEF Op
  <2>10. \A g \in File : g \in Listed(op'.todo) \/ disk'[g]["backup"] = None
    BY <1>1, <1>3, <2>2, <2>9 DEF Deletes
  <2>11. Deletes'
    BY <1>1, <1>2, <2>4, <2>9, <2>10 DEF Deletes
  <2>12. Working'
    BY <2>9, <2>11 DEF Working
  <2>13. Ends'
    BY <1>1, <2>9, EndsStay
  <2>14. Data' /\ SameGame /\ report' = report
    BY <1>5, <2>5, <2>8 DEF Data, SameGame
  <2> QED BY <1>1, <2>9, <2>12, <2>13, <2>14, Continues
<1> QED BY <1>4, <1>5 DEF DeleteBackup, f

LEMMA DeleteJournalKeeps ==
    ASSUME UpdateInv, DeleteJournal PROVE UpdateInv'
<1>1. /\ op.who # None /\ op.pc = "backups" /\ Deletes /\ op \in Op /\ env \in Left
      /\ Data /\ AllNew /\ op.todo = <<>> /\ op.bad # "ROLLED_BACK"
  BY DEF DeleteJournal, At, UpdateInv, Working, Data, DataType, Deletes, Ends
<1>2. UNCHANGED <<disk, base>>
  BY DEF DeleteJournal
<1>3. CASE Fault /\ Fail /\ UNCHANGED journal
  BY <1>1, <1>2, <1>3, FaultIsSteady, FailsSafely
<1>4. CASE Works /\ journal' = NoJournal /\ Recovered
  <2>1. NoBackups
    BY <1>1, EmptyList DEF Deletes, NoBackups
  <2>2. Steady /\ AllNew'
    BY <1>1, <1>2, <1>4, WorksIsSteady DEF Works, AllNew, Is
  <2>3. Data'
    BY <1>1, <1>2, <1>4, <2>1, <2>2, JournalGone
  <2>4. op.good # "ROLLED_BACK"
    BY <1>1 DEF Deletes
  <2> QED BY <1>1, <1>4, <2>2, <2>3, <2>4, RecoversOn
<1> QED BY <1>3, <1>4 DEF DeleteJournal

-----------------------------------------------------------------------------
(* The reverse walk, file by file. *)

LEMMA Walking ==
    ASSUME UpdateInv, Walks, op.todo # <<>>
    PROVE  /\ op \in Op /\ env \in Left /\ Data /\ disk \in Disk /\ Undecided
           /\ journal # NoJournal /\ game.phase # "offered"
           /\ Current \in Entry /\ Current.file \in File /\ Tail(op.todo) \in Seq(Entry)
           /\ op.todo \in Seq(Entry) /\ op.unresolved \in Seq(Entry) /\ op.cleanup \in Seq(Entry)
           /\ Current.file \in Listed(op.todo) /\ Current.file \notin Listed(op.unresolved)
           /\ Current.file \notin Listed(op.cleanup)
           /\ Current.kind = "file" => Current.file \in Named(op.todo)
                                       /\ Current.file \in Named(journal.entries)
           /\ Current.kind # "file" /\ op.whole => InPlace(disk[Current.file], base[Current.file])
           /\ Own => Undoable(disk[Current.file], base[Current.file])
           /\ Outdated => InPlace(disk[Current.file], base[Current.file])
<1>1. op \in Op /\ env \in Left /\ Data /\ disk \in Disk /\ Undecided
      /\ journal # NoJournal /\ game.phase # "offered"
      /\ op.todo \in Seq(Entry) /\ op.unresolved \in Seq(Entry) /\ op.cleanup \in Seq(Entry)
  BY DEF UpdateInv, Data, DataType, Told, Walks, Op, Undecided
<1>2. /\ Current \in Entry /\ Current.file \in File /\ Tail(op.todo) \in Seq(Entry)
      /\ Listed(op.todo) = Listed(Tail(op.todo)) \cup {Current.file}
      /\ Named(op.todo) = Named(Tail(op.todo))
                            \cup (IF Current.kind = "file" THEN {Current.file} ELSE {})
      /\ Current.file \notin Listed(Tail(op.todo))
      /\ Named(Tail(op.todo)) \subseteq Listed(Tail(op.todo))
      /\ Named(op.unresolved) \subseteq Listed(op.unresolved)
  BY <1>1, HeadAndTail, ListedIs DEF Current, Walks
<1>3. Current.file \notin Listed(op.unresolved) /\ Current.file \notin Listed(op.cleanup)
  BY <1>2 DEF Walks, Separate
<1>4. Current.kind = "file" => Current.file \in Named(op.todo)
                               /\ Current.file \in Named(journal.entries)
  BY <1>2 DEF Walks
<1>5. Current.kind # "file" /\ op.whole => InPlace(disk[Current.file], base[Current.file])
  BY <1>2, <1>3 DEF Walks
<1>6. Own => Undoable(disk[Current.file], base[Current.file])
  BY <1>1, <1>2 DEF Data, Accounted, Outdated, AllInPlace, Undoable
<1>7. Outdated => InPlace(disk[Current.file], base[Current.file])
  BY <1>2 DEF Outdated, AllInPlace
<1> QED BY <1>1, <1>2, <1>3, <1>4, <1>5, <1>6, <1>7

\* The walk passes to the next entry, with u unresolved and c to clean up.
Passed(u, c, w) ==
    /\ op' \in Op /\ op'.pc = "walk" /\ op'.todo = Tail(op.todo) /\ ~ op'.quarantined
    /\ op'.unresolved = u /\ op'.cleanup = c /\ op'.whole = w
    /\ op'.who = op.who /\ op'.good = op.good /\ op'.bad = op.bad

LEMMA PastIs ==
    ASSUME op \in Op, op.todo # <<>>
    PROVE  /\ Resolved => Passed(op.unresolved, op.cleanup, op.whole)
           /\ Unresolved => Passed(Append(op.unresolved, Current), op.cleanup, op.whole)
           /\ Cleanup => Passed(op.unresolved,
                                Append(op.cleanup, [Current EXCEPT !.kind = "quarantine"]), op.whole)
           /\ op' = [Past(op) EXCEPT !.whole = FALSE]
                => Passed(op.unresolved, op.cleanup, FALSE)
<1> DEFINE q == [Current EXCEPT !.kind = "quarantine"]
           u == Append(op.unresolved, Current)
           c == Append(op.cleanup, q)
           p == Past(op)
<1>1. op.todo \in Seq(Entry) /\ op.unresolved \in Seq(Entry) /\ op.cleanup \in Seq(Entry)
  BY DEF Op
<1>2. Current \in Entry /\ Tail(op.todo) \in Seq(Entry)
  BY <1>1, HeadAndTail DEF Current
<1>3. q \in Entry
  BY <1>2 DEF Entry
<1>4. u \in Seq(Entry) /\ c \in Seq(Entry)
  BY <1>1, <1>2, <1>3, Appended
<1>5. /\ p \in Op /\ p.pc = "walk" /\ p.todo = Tail(op.todo) /\ p.quarantined = FALSE
      /\ p.unresolved = op.unresolved /\ p.cleanup = op.cleanup /\ p.whole = op.whole
      /\ p.who = op.who /\ p.good = op.good /\ p.bad = op.bad
  BY <1>2 DEF Past, Op, Pc
<1> HIDE DEF q, u, c, p
<1>6. Resolved => Passed(op.unresolved, op.cleanup, op.whole)
  BY <1>5 DEF Resolved, Passed, p
<1>7. ASSUME op' = [p EXCEPT !.unresolved = u] PROVE Passed(u, op.cleanup, op.whole)
  BY <1>4, <1>5, <1>7 DEF Passed, Op
<1>8. ASSUME op' = [p EXCEPT !.cleanup = c] PROVE Passed(op.unresolved, c, op.whole)
  BY <1>4, <1>5, <1>8 DEF Passed, Op
<1>9. ASSUME op' = [p EXCEPT !.whole = FALSE] PROVE Passed(op.unresolved, op.cleanup, FALSE)
  BY <1>5, <1>9 DEF Passed, Op
<1> QED BY <1>6, <1>7, <1>8, <1>9 DEF Unresolved, Cleanup, p, u, c, q

LEMMA Passes ==
    ASSUME UpdateInv, op.who # None, op.pc # "sweep", Walks, op.todo # <<>>,
           NEW u \in {op.unresolved, Append(op.unresolved, Current)},
           NEW c \in {op.cleanup, Append(op.cleanup, [Current EXCEPT !.kind = "quarantine"])},
           u = op.unresolved \/ c = op.cleanup,
           NEW w, w => op.whole, Passed(u, c, w),
           Data', Undecided', UNCHANGED <<journal, base>>,
           Own' \/ (Outdated' /\ u = <<>>),
           \A g \in File \ {Current.file} : disk'[g] = disk[g],
           w => Current.file \in Named(u) \/ InPlace(disk'[Current.file], base'[Current.file]),
           c # op.cleanup => Kept(disk'[Current.file], base'[Current.file]) /\ Current.kind = "file",
           SameGame, report' = report
    PROVE  UpdateInv'
<1> DEFINE f == Current.file
           t == Tail(op.todo)
           q == [Current EXCEPT !.kind = "quarantine"]
<1>1. /\ op \in Op /\ Current \in Entry /\ f \in File /\ t \in Seq(Entry)
      /\ op.todo \in Seq(Entry) /\ op.unresolved \in Seq(Entry) /\ op.cleanup \in Seq(Entry)
      /\ f \notin Listed(op.unresolved) /\ f \notin Listed(op.cleanup)
      /\ (Current.kind = "file" => f \in Named(journal.entries))
      /\ game.phase # "offered"
  BY Walking
<1>2. /\ Listed(op.todo) = Listed(t) \cup {f}
      /\ Named(op.todo) = Named(t) \cup (IF Current.kind = "file" THEN {f} ELSE {})
      /\ Apart(t) /\ f \notin Listed(t)
  BY <1>1, HeadAndTail DEF Current, Walks
<1>3. q \in Entry /\ q.file = f
  BY <1>1 DEF Entry
<1>4. /\ Apart(u) /\ Listed(u) \subseteq Listed(op.unresolved) \cup {f}
      /\ Named(op.unresolved) \subseteq Named(u)
      /\ u \in Seq(Entry)
  <2>1. CASE u = op.unresolved
    BY <1>1, <2>1 DEF Walks
  <2>2. CASE u = Append(op.unresolved, Current)
    <3>1. /\ Listed(u) = Listed(op.unresolved) \cup {f}
          /\ Named(u) = Named(op.unresolved) \cup (IF Current.kind = "file" THEN {f} ELSE {})
          /\ Apart(u) /\ u \in Seq(Entry)
      BY <1>1, <2>2, Appended DEF Walks
    <3> QED BY <3>1
  <2> QED BY <2>1, <2>2
<1>4a. c = op.cleanup \/ c = Append(op.cleanup, q)
  OBVIOUS
<1> HIDE DEF q
<1>5. /\ Apart(c) /\ Listed(c) \subseteq Listed(op.cleanup) \cup {f}
      /\ (c = op.cleanup => Listed(c) = Listed(op.cleanup))
  <2>1. CASE c = op.cleanup
    BY <2>1 DEF Walks
  <2>2. CASE c = Append(op.cleanup, q) /\ c # op.cleanup
    <3>1. /\ Listed(c) = Listed(op.cleanup) \cup {q.file}
          /\ Apart(op.cleanup) /\ q.file \notin Listed(op.cleanup) => Apart(c)
      BY <1>1, <1>3, <2>2, Appended
    <3> QED BY <1>1, <1>3, <2>2, <3>1 DEF Walks
  <2> QED BY <1>4a, <2>1, <2>2
<1>6. u = op.unresolved => Listed(u) = Listed(op.unresolved)
  OBVIOUS
<1> HIDE DEF f, t
<1>7. Separate(t, u) /\ Separate(t, c) /\ Separate(u, c)
  BY <1>1, <1>2, <1>4, <1>5, <1>6 DEF Walks, Separate
<1>8. Named(t) \subseteq Named(journal.entries) /\ Listed(c) \subseteq Named(journal.entries)
  BY <1>1, <1>2, <1>5 DEF Walks, f
<1>9. ASSUME w, NEW g \in File
      PROVE  g \in Named(t) \/ g \in Named(u) \/ InPlace(disk'[g], base'[g])
  <2>1. CASE g = f
    BY <1>9, <2>1 DEF f
  <2>2. CASE g # f
    <3>1. disk'[g] = disk[g]
      BY <2>2 DEF f
    <3>2. g \in Named(op.todo) \/ g \in Named(op.unresolved) \/ InPlace(disk[g], base[g])
      BY <1>9 DEF Walks
    <3>3. g \in Named(op.todo) => g \in Named(t)
      BY <1>2, <2>2
    <3> QED BY <1>4, <3>1, <3>2, <3>3
  <2> QED BY <2>1, <2>2
<1>10. ASSUME NEW g \in Listed(c) PROVE Kept(disk'[g], base'[g])
  <2>1. CASE g \in Listed(op.cleanup)
    <3>1. g # f /\ g \in File
      BY <1>1, <2>1, ListedIs
    <3>2. disk'[g] = disk[g] /\ Kept(disk[g], base[g])
      BY <2>1, <3>1 DEF f, Walks
    <3> QED BY <3>2
  <2>2. CASE g \notin Listed(op.cleanup)
    <3>1. g = f /\ c # op.cleanup
      BY <1>5, <1>10, <2>2
    <3> QED BY <3>1 DEF f
  <2> QED BY <2>1, <2>2
<1>11. Walks'
  <2>1. /\ op'.todo = t /\ op'.unresolved = u /\ op'.cleanup = c /\ op'.whole = w
        /\ op'.good = op.good /\ journal' = journal
    BY DEF Passed, t
  <2>2. op.good # "UPDATED"
    BY DEF Walks
  <2> QED BY <1>2, <1>4, <1>5, <1>7, <1>8, <1>9, <1>10, <2>1, <2>2 DEF Walks
<1>12. Working'
  BY <1>11 DEF Passed, Working
<1>13. Ends'
  BY EndsStay DEF Passed
<1>14. op' \in Op
  BY DEF Passed
<1> QED BY <1>1, <1>12, <1>13, <1>14, Continues

\* The walk goes on with the same entry.
LEMMA StillWalks ==
    ASSUME UpdateInv, Walks, op.todo # <<>>, Undecided', Own', UNCHANGED <<journal, base>>,
           op'.todo = op.todo, op'.unresolved = op.unresolved, op'.cleanup = op.cleanup,
           op'.whole = op.whole, op'.good = op.good,
           \A g \in File \ {Current.file} : disk'[g] = disk[g],
           \/ Current.kind = "file"
           \/ InPlace(disk[Current.file], base[Current.file])
                => InPlace(disk'[Current.file], base[Current.file])
    PROVE  Walks'
<1> DEFINE f == Current.file
<1>1. /\ f \in File /\ f \notin Listed(op.cleanup) /\ op.cleanup \in Seq(Entry)
      /\ (Current.kind = "file" => f \in Named(op.todo))
  BY Walking
<1> HIDE DEF f
<1>2. ASSUME op.whole, NEW g \in File
      PROVE  g \in Named(op.todo) \/ g \in Named(op.unresolved) \/ InPlace(disk'[g], base'[g])
  <2>1. g \in Named(op.todo) \/ g \in Named(op.unresolved) \/ InPlace(disk[g], base[g])
    BY <1>2 DEF Walks
  <2>2. g # f => disk'[g] = disk[g]
    BY DEF f
  <2> QED BY <1>1, <2>1, <2>2 DEF f
<1>3. ASSUME NEW g \in Listed(op.cleanup) PROVE Kept(disk'[g], base'[g])
  <2>1. g # f /\ g \in File
    BY <1>1, <1>3, ListedIs
  <2>2. disk'[g] = disk[g] /\ Kept(disk[g], base[g])
    BY <1>3, <2>1 DEF f, Walks
  <2> QED BY <2>2
<1> QED BY <1>2, <1>3 DEF Walks

LEMMA WalkQuarantineKeeps ==
    ASSUME UpdateInv, WalkQuarantine PROVE UpdateInv'
<1> DEFINE f == Current.file
<1>1. /\ op.who # None /\ op.pc = "walk" /\ Walks /\ ~ op.quarantined /\ op.todo # <<>>
      /\ disk[f]["quarantine"] # None
  BY DEF WalkQuarantine, At, UpdateInv, Working, Has
<1>2. UNCHANGED <<journal, game, report, base>>
  BY DEF WalkQuarantine
<1>3. /\ op \in Op /\ env \in Left /\ Data /\ disk \in Disk /\ Undecided /\ game.phase # "offered"
      /\ Current \in Entry /\ f \in File /\ op.unresolved \in Seq(Entry)
      /\ (Current.kind = "file" => f \in Named(journal.entries))
      /\ (Current.kind # "file" /\ op.whole => InPlace(disk[f], base[f]))
      /\ (Own => Undoable(disk[f], base[f]))
  BY <1>1, Walking
<1>4. Own
  BY <1>1, <1>3 DEF Walks, Outdated, Cleared
<1> HIDE DEF f
<1>5. CASE Undeletable(f, "quarantine") /\ Unresolved /\ UNCHANGED disk
  <2>1. Data'
    BY <1>2, <1>3, <1>5, UndeletableIsSteady, SameDisk, DataStays
  <2>2. Undecided' /\ Own'
    BY <1>2, <1>3, <1>4 DEF Undecided, Own
  <2>3. Passed(Append(op.unresolved, Current), op.cleanup, op.whole)
    BY <1>1, <1>3, <1>5, PastIs
  <2>4. op.whole => f \in Named(Append(op.unresolved, Current)) \/ InPlace(disk'[f], base'[f])
    BY <1>2, <1>3, <1>5, Appended DEF f
  <2>5. \A g \in File \ {f} : disk'[g] = disk[g]
    BY <1>5
  <2> HIDE DEF Passed
  <2> QED BY <1>1, <1>2, <2>1, <2>2, <2>3, <2>4, <2>5, Passes DEF f, SameGame
<1>6. CASE Delete(f, "quarantine") /\ UNCHANGED op
  <2>1. "quarantine" \in Slot
    BY DEF Slot
  <2>2. /\ Steady /\ disk' \in Disk /\ (\A g \in File \ {f} : disk'[g] = disk[g])
        /\ \A u \in Slot \ {"quarantine"} : disk'[f][u] = disk[f][u]
    BY <1>3, <1>6, <2>1, DeleteIs
  <2>3. /\ disk'[f]["target"] = disk[f]["target"] /\ disk'[f]["backup"] = disk[f]["backup"]
        /\ disk'[f]["staged"] = disk[f]["staged"]
    BY <2>2 DEF Slot
  <2>4. /\ Undoable(disk'[f], base[f])
        /\ (InPlace(disk[f], base[f]) => InPlace(disk'[f], base[f]))
    BY <1>3, <1>4, <2>3 DEF Undoable, InPlace, SetAside, Replaced, Spent
  <2>5. f \in Named(journal.entries) \/ InPlace(disk'[f], base[f])
    BY <1>3, <1>4, <2>4, Unmutated
  <2>6. Data' /\ Undecided' /\ Own'
    BY <1>2, <1>3, <1>4, <2>2, <2>4, <2>5, UndoableStays
  <2>7. Walks'
    BY <1>1, <1>2, <1>6, <2>2, <2>4, <2>6, StillWalks DEF f
  <2>8. Working' /\ Ends' /\ op' \in Op
    BY <1>1, <1>3, <1>6, <2>7, EndsStay DEF Working
  <2> QED BY <1>1, <1>2, <1>3, <2>6, <2>8, Continues DEF SameGame
<1> QED BY <1>5, <1>6 DEF WalkQuarantine, f

LEMMA WalkTargetKeeps ==
    ASSUME UpdateInv, WalkTarget PROVE UpdateInv'
<1> DEFINE f == Current.file
<1>1. /\ op.who # None /\ op.pc = "walk" /\ Walks /\ ~ op.quarantined /\ op.todo # <<>>
  BY DEF WalkTarget, At, UpdateInv, Working
<1>2. UNCHANGED <<journal, report, base>>
  BY DEF WalkTarget
<1>3. /\ op \in Op /\ env \in Left /\ Data /\ disk \in Disk /\ Undecided /\ game.phase # "offered"
      /\ Current \in Entry /\ f \in File /\ op.unresolved \in Seq(Entry)
      /\ (Current.kind = "file" => f \in Named(journal.entries))
      /\ (Current.kind # "file" /\ op.whole => InPlace(disk[f], base[f]))
      /\ (Own => Undoable(disk[f], base[f]))
      /\ (Outdated => InPlace(disk[f], base[f]))
  BY <1>1, Walking
<1>4. (Own /\ Undoable(disk[f], base[f])) \/ (Outdated /\ op.unresolved = <<>>)
  BY <1>1, <1>3 DEF Walks
<1>5. /\ (Own => (HadOriginal(f) <=> base[f] # None))
      /\ (Outdated => HadOriginal(f) /\ base[f] # None /\ InPlace(disk[f], base[f]))
  BY <1>3 DEF Own, HadOriginal, Outdated
<1>6. /\ Has(f, "target") <=> disk[f]["target"] # None
      /\ Has(f, "backup") <=> disk[f]["backup"] # None
  BY DEF Has
<1>7. \A g \in File \ {f} : disk' = disk => disk'[g] = disk[g]
  OBVIOUS
<1> HIDE DEF f
<1>8. CASE /\ \/ Current.kind = "quarantine"
              \/ HadOriginal(f) /\ ~ Has(f, "backup") /\ Has(f, "target")
              \/ ~ HadOriginal(f) /\ ~ Has(f, "target")
           /\ Resolved /\ UNCHANGED <<disk, game, env>>
  <2>1. Data'
    BY <1>2, <1>3, <1>8, WorksIsSteady, SameDisk, DataStays
  <2>2. Undecided' /\ (Own => Own') /\ (Outdated => Outdated')
    BY <1>2, <1>3, <1>8 DEF Undecided, Own, Outdated, AllInPlace, Cleared
  <2>3. Passed(op.unresolved, op.cleanup, op.whole)
    BY <1>1, <1>3, <1>8, PastIs
  <2>4. op.whole => InPlace(disk[f], base[f])
    <3>1. CASE Current.kind = "quarantine"
      BY <1>3, <3>1
    <3>2. CASE Current.kind # "quarantine"
      BY <1>4, <1>5, <1>6, <1>8, <3>2 DEF Undoable, InPlace, SetAside, Replaced, Fresh, None
    <3> QED BY <3>1, <3>2
  <2>5. op.whole => InPlace(disk'[f], base'[f])
    BY <1>2, <1>8, <2>4
  <2>6. Own' \/ (Outdated' /\ op.unresolved = <<>>)
    BY <1>4, <2>2
  <2> HIDE DEF Passed
  <2> QED BY <1>1, <1>2, <1>7, <1>8, <2>1, <2>2, <2>3, <2>5, <2>6, Passes DEF f, SameGame
<1>9. CASE /\ Current.kind = "file" /\ HadOriginal(f) /\ ~ Has(f, "backup") /\ ~ Has(f, "target")
           /\ Unresolved /\ UNCHANGED <<disk, game, env>>
  <2>1. FALSE
    BY <1>4, <1>5, <1>6, <1>9 DEF Undoable, InPlace, SetAside, Replaced, Fresh, None
  <2> QED BY <2>1
<1>10. CASE Current.kind = "file" /\ Displaces(f)
  <2>1. Own
    BY <1>4, <1>5, <1>6, <1>10 DEF Displaces, InPlace
  <2>2. Replaced(disk[f], base[f])
    BY <1>4, <1>5, <1>6, <1>10, <2>1 DEF Displaces, Undoable, InPlace, SetAside
  <2>3. CASE Fault /\ Unresolved /\ UNCHANGED <<disk, game>>
    <3>1. Data'
      BY <1>2, <1>3, <2>3, FaultIsSteady, SameDisk, DataStays
    <3>2. Undecided' /\ Own'
      BY <1>2, <1>3, <2>1 DEF Undecided, Own
    <3>3. Passed(Append(op.unresolved, Current), op.cleanup, op.whole)
      BY <1>1, <1>3, <2>3, PastIs
    <3>4. f \in Named(Append(op.unresolved, Current))
      BY <1>3, <1>10, Appended DEF f
    <3> HIDE DEF Passed
    <3> QED BY <1>1, <1>2, <1>7, <2>3, <3>1, <3>2, <3>3, <3>4, Passes DEF f, SameGame
  <2>4. CASE /\ Works /\ Move(f, "target", "quarantine") /\ Touched
             /\ op' = [op EXCEPT !.quarantined = TRUE,
                            !.pc = IF HadOriginal(f) THEN "restore" ELSE "release"]
    <3>1. "target" \in Slot /\ "quarantine" \in Slot
      BY DEF Slot
    <3>2. /\ disk' \in Disk /\ (\A g \in File \ {f} : disk'[g] = disk[g])
          /\ disk'[f]["quarantine"] = disk[f]["target"] /\ disk'[f]["target"] = None
          /\ \A u \in Slot \ {"target", "quarantine"} : disk'[f][u] = disk[f][u]
      BY <1>3, <2>4, <3>1, MoveIs
    <3>3. disk'[f]["backup"] = disk[f]["backup"] /\ disk'[f]["staged"] = disk[f]["staged"]
      BY <3>2 DEF Slot
    <3>4. disk'[f]["quarantine"] \in Fresh(base[f])
      BY <2>2, <3>2 DEF Replaced
    <3>5. HadOriginal(f) => SetAside(disk'[f], base[f])
      BY <1>5, <2>1, <2>2, <3>2, <3>3 DEF SetAside, Replaced
    <3>6. ~ HadOriginal(f) => Kept(disk'[f], base[f])
      BY <1>5, <2>1, <2>2, <3>2, <3>3, <3>4 DEF Kept, InPlace, Replaced, Spent
    <3>7. Undoable(disk'[f], base[f])
      BY <3>5, <3>6 DEF Undoable, Kept
    <3>8. Steady
      BY <1>3, <2>4, WorksIsSteady DEF Works
    <3>9. Data' /\ Undecided' /\ Own'
      BY <1>2, <1>3, <1>10, <2>1, <3>2, <3>7, <3>8, UndoableStays
    <3>10. /\ op' \in Op /\ op'.pc = (IF HadOriginal(f) THEN "restore" ELSE "release")
           /\ op'.who = op.who /\ op'.todo = op.todo /\ op'.unresolved = op.unresolved
           /\ op'.cleanup = op.cleanup /\ op'.whole = op.whole
           /\ op'.good = op.good /\ op'.bad = op.bad
      BY <1>3, <2>4 DEF Op, Pc
    <3>11. Walks'
      BY <1>1, <1>2, <1>10, <3>2, <3>9, <3>10, StillWalks DEF f
    <3>12. Handles' /\ Current' = Current
      BY <1>1, <1>10, <3>10, <3>11 DEF Handles, Current
    <3>13. HadOriginal(f) => Restores'
      BY <1>2, <3>4, <3>5, <3>12 DEF Restores, f
    <3>14. ~ HadOriginal(f) => Releases'
      BY <1>2, <3>6, <3>12 DEF Releases, f
    <3>15. Working' /\ Ends'
      BY <1>1, <3>10, <3>13, <3>14, EndsStay DEF Working
    <3>16. SameGame
      BY <2>4 DEF Touched, SameGame, UpdateInv, Told, Game
    <3> QED BY <1>1, <1>2, <1>3, <3>9, <3>10, <3>15, <3>16, Continues
  <2> QED BY <1>10, <2>3, <2>4 DEF WalkTarget, f, Displaces
<1>11. CASE /\ Current.kind = "file" /\ HadOriginal(f) /\ Has(f, "backup") /\ ~ Has(f, "target")
            /\ Goto("restore") /\ UNCHANGED <<disk, game, env>>
  <2>1. Own /\ SetAside(disk[f], base[f])
    BY <1>4, <1>5, <1>6, <1>11 DEF Undoable, InPlace, SetAside, Replaced, Fresh, None
  <2>2. Data' /\ Undecided' /\ Own'
    BY <1>2, <1>3, <1>11, <2>1, WorksIsSteady, SameDisk, DataStays DEF Undecided, Own
  <2>3. /\ op' \in Op /\ op'.pc = "restore" /\ op'.who = op.who /\ op'.todo = op.todo
        /\ op'.unresolved = op.unresolved /\ op'.cleanup = op.cleanup
        /\ op'.quarantined = op.quarantined /\ op'.whole = op.whole
        /\ op'.good = op.good /\ op'.bad = op.bad
    BY <1>3, <1>11, GotoIs DEF Pc
  <2>4. Walks'
    BY <1>1, <1>2, <1>7, <1>11, <2>2, <2>3, StillWalks DEF f
  <2>5. Restores'
    <3>1. Current' = Current /\ disk'[f] = disk[f] /\ base'[f] = base[f]
      BY <1>2, <1>11, <2>3 DEF Current
    <3> QED BY <1>1, <1>11, <2>1, <2>3, <2>4, <3>1 DEF Restores, Handles, f
  <2>6. Working' /\ Ends'
    BY <1>1, <2>3, <2>5, EndsStay DEF Working
  <2> QED BY <1>1, <1>2, <1>3, <1>11, <2>2, <2>3, <2>6, Continues DEF SameGame
<1> QED BY <1>8, <1>9, <1>10, <1>11 DEF WalkTarget, f

LEMMA Restoring ==
    ASSUME UpdateInv, Restores
    PROVE  /\ Walks /\ op.todo # <<>> /\ Current.kind = "file" /\ Own
           /\ base[Current.file] # None /\ disk[Current.file]["target"] = None
           /\ disk[Current.file]["backup"] = base[Current.file]
<1>1. Walks /\ op.todo # <<>> /\ Current.kind = "file"
      /\ SetAside(disk[Current.file], base[Current.file])
  BY DEF Restores, Handles
<1>2. Outdated => InPlace(disk[Current.file], base[Current.file])
  BY <1>1, Walking
<1>3. Own
  BY <1>1, <1>2 DEF Walks, InPlace, SetAside
<1> QED BY <1>1, <1>3 DEF SetAside

LEMMA WalkRestoreKeeps ==
    ASSUME UpdateInv, WalkRestore PROVE UpdateInv'
<1> DEFINE f == Current.file
<1>1. /\ op.who # None /\ op.pc = "restore" /\ Restores
  BY DEF WalkRestore, At, UpdateInv, Working
<1>2. UNCHANGED <<journal, report, base>>
  BY DEF WalkRestore
<1>3. /\ Walks /\ op.todo # <<>> /\ Current.kind = "file" /\ Own
      /\ base[f] # None /\ disk[f]["target"] = None /\ disk[f]["backup"] = base[f]
      /\ (op.quarantined => disk[f]["quarantine"] \in Fresh(base[f]))
  BY <1>1, Restoring DEF Restores
<1>4. /\ op \in Op /\ env \in Left /\ Data /\ disk \in Disk /\ Undecided /\ game.phase # "offered"
      /\ Current \in Entry /\ f \in File /\ op.unresolved \in Seq(Entry)
      /\ f \in Named(journal.entries)
  BY <1>3, Walking
<1> HIDE DEF f
<1>5. CASE Works /\ Move(f, "backup", "target") /\ Touched
           /\ IF op.quarantined THEN Goto("release") ELSE Resolved
  <2>1. "target" \in Slot /\ "backup" \in Slot
    BY DEF Slot
  <2>2. /\ disk' \in Disk /\ (\A g \in File \ {f} : disk'[g] = disk[g])
        /\ disk'[f]["target"] = disk[f]["backup"] /\ disk'[f]["backup"] = None
        /\ \A u \in Slot \ {"target", "backup"} : disk'[f][u] = disk[f][u]
    BY <1>4, <1>5, <2>1, MoveIs
  <2>3. disk'[f]["quarantine"] = disk[f]["quarantine"]
    BY <2>2 DEF Slot
  <2>4. InPlace(disk'[f], base[f])
    BY <1>3, <2>2 DEF InPlace
  <2>5. Undoable(disk'[f], base[f])
    BY <2>4 DEF Undoable
  <2>6. Steady
    BY <1>4, <1>5, WorksIsSteady DEF Works
  <2>7. Data' /\ Undecided' /\ Own'
    BY <1>2, <1>3, <1>4, <2>2, <2>5, <2>6, UndoableStays
  <2>8. SameGame
    BY <1>5 DEF Touched, SameGame, UpdateInv, Told, Game
  <2>9. CASE op.quarantined
    <3>1. /\ op' \in Op /\ op'.pc = "release" /\ op'.who = op.who /\ op'.todo = op.todo
          /\ op'.unresolved = op.unresolved /\ op'.cleanup = op.cleanup
          /\ op'.whole = op.whole /\ op'.good = op.good /\ op'.bad = op.bad
      BY <1>4, <1>5, <2>9, GotoIs DEF Pc
    <3>2. Walks'
      BY <1>2, <1>3, <2>2, <2>7, <3>1, StillWalks DEF f
    <3>3. Kept(disk'[f], base'[f])
      BY <1>2, <1>3, <2>3, <2>4, <2>9 DEF Kept, Spent
    <3>4. Releases'
      BY <1>3, <3>1, <3>2, <3>3 DEF Releases, Handles, Current, f
    <3>5. Working' /\ Ends'
      BY <1>1, <3>1, <3>4, EndsStay DEF Working
    <3> QED BY <1>1, <1>2, <1>4, <2>7, <2>8, <3>1, <3>5, Continues
  <2>10. CASE ~ op.quarantined
    <3>1. Passed(op.unresolved, op.cleanup, op.whole)
      BY <1>3, <1>4, <1>5, <2>10, PastIs
    <3>2. InPlace(disk'[f], base'[f])
      BY <1>2, <2>4
    <3> HIDE DEF Passed
    <3> QED BY <1>1, <1>2, <1>3, <2>2, <2>7, <2>8, <3>1, <3>2, Passes DEF f
  <2> QED BY <2>9, <2>10
<1>6. CASE Fault /\ (IF op.quarantined THEN Goto("unquarantine") ELSE Unresolved)
           /\ UNCHANGED <<disk, game>>
  <2>1. Data' /\ Undecided' /\ Own'
    BY <1>2, <1>3, <1>4, <1>6, FaultIsSteady, SameDisk, DataStays DEF Undecided, Own
  <2>2. \A g \in File \ {f} : disk'[g] = disk[g]
    BY <1>6
  <2>3. CASE op.quarantined
    <3>1. /\ op' \in Op /\ op'.pc = "unquarantine" /\ op'.who = op.who /\ op'.todo = op.todo
          /\ op'.unresolved = op.unresolved /\ op'.cleanup = op.cleanup /\ op'.quarantined
          /\ op'.whole = op.whole /\ op'.good = op.good /\ op'.bad = op.bad
      BY <1>4, <1>6, <2>3, GotoIs DEF Pc
    <3>2. Walks'
      BY <1>2, <1>3, <2>1, <2>2, <3>1, StillWalks DEF f
    <3>3. Current' = Current /\ disk' = disk /\ base' = base
      BY <1>2, <1>6, <3>1 DEF Current
    <3>4. SetAside(disk[f], base[f]) /\ disk[f]["quarantine"] \in Fresh(base[f])
      BY <1>1, <2>3 DEF Restores, f
    <3>5. Restores'
      BY <1>3, <3>1, <3>2, <3>3, <3>4 DEF Restores, Handles, f
    <3>6. Working' /\ Ends'
      BY <1>1, <3>1, <3>5, EndsStay DEF Working
    <3> QED BY <1>1, <1>2, <1>4, <1>6, <2>1, <3>1, <3>6, Continues DEF SameGame
  <2>4. CASE ~ op.quarantined
    <3>1. Passed(Append(op.unresolved, Current), op.cleanup, op.whole)
      BY <1>3, <1>4, <1>6, <2>4, PastIs
    <3>2. f \in Named(Append(op.unresolved, Current))
      BY <1>3, <1>4, Appended DEF f
    <3> HIDE DEF Passed
    <3> QED BY <1>1, <1>2, <1>3, <1>6, <2>1, <2>2, <3>1, <3>2, Passes DEF f, SameGame
  <2> QED BY <2>3, <2>4
<1> QED BY <1>5, <1>6 DEF WalkRestore, f

LEMMA WalkUnquarantineKeeps ==
    ASSUME UpdateInv, WalkUnquarantine PROVE UpdateInv'
<1> DEFINE f == Current.file
<1>1. /\ op.who # None /\ op.pc = "unquarantine" /\ Restores /\ op.quarantined
  BY DEF WalkUnquarantine, At, UpdateInv, Working
<1>2. UNCHANGED <<journal, game, report, base>>
  BY DEF WalkUnquarantine
<1>3. /\ Walks /\ op.todo # <<>> /\ Current.kind = "file" /\ Own
      /\ base[f] # None /\ disk[f]["target"] = None /\ disk[f]["backup"] = base[f]
      /\ disk[f]["quarantine"] \in Fresh(base[f])
  BY <1>1, Restoring DEF Restores
<1>4. /\ op \in Op /\ env \in Left /\ Data /\ disk \in Disk /\ Undecided
      /\ Current \in Entry /\ f \in File /\ op.unresolved \in Seq(Entry)
      /\ f \in Named(journal.entries)
  BY <1>3, Walking
<1> HIDE DEF f
<1>5. CASE Works /\ Move(f, "quarantine", "target") /\ Unresolved
  <2>1. "target" \in Slot /\ "quarantine" \in Slot
    BY DEF Slot
  <2>2. /\ disk' \in Disk /\ (\A g \in File \ {f} : disk'[g] = disk[g])
        /\ disk'[f]["target"] = disk[f]["quarantine"]
        /\ \A u \in Slot \ {"target", "quarantine"} : disk'[f][u] = disk[f][u]
    BY <1>4, <1>5, <2>1, MoveIs
  <2>3. disk'[f]["backup"] = disk[f]["backup"]
    BY <2>2 DEF Slot
  <2>4. Undoable(disk'[f], base[f])
    BY <1>3, <2>2, <2>3 DEF Undoable, Replaced, Spent
  <2>5. Steady
    BY <1>4, <1>5, WorksIsSteady DEF Works
  <2>6. Data' /\ Undecided' /\ Own'
    BY <1>2, <1>3, <1>4, <2>2, <2>4, <2>5, UndoableStays
  <2>7. Passed(Append(op.unresolved, Current), op.cleanup, op.whole)
    BY <1>3, <1>4, <1>5, PastIs
  <2>8. f \in Named(Append(op.unresolved, Current))
    BY <1>3, <1>4, Appended DEF f
  <2> HIDE DEF Passed
  <2> QED BY <1>1, <1>2, <1>3, <2>2, <2>6, <2>7, <2>8, Passes DEF f, SameGame
<1>6. CASE Fault /\ op' = [Past(op) EXCEPT !.whole = FALSE] /\ UNCHANGED disk
  <2>1. Data' /\ Undecided' /\ Own'
    BY <1>2, <1>3, <1>4, <1>6, FaultIsSteady, SameDisk, DataStays DEF Undecided, Own
  <2>2. Passed(op.unresolved, op.cleanup, FALSE)
    BY <1>3, <1>4, <1>6, PastIs
  <2>3. \A g \in File \ {f} : disk'[g] = disk[g]
    BY <1>6
  <2> HIDE DEF Passed
  <2> QED BY <1>1, <1>2, <1>3, <2>1, <2>2, <2>3, Passes DEF f, SameGame
<1> QED BY <1>5, <1>6 DEF WalkUnquarantine, f

LEMMA WalkReleaseKeeps ==
    ASSUME UpdateInv, WalkRelease PROVE UpdateInv'
<1> DEFINE f == Current.file
           q == [Current EXCEPT !.kind = "quarantine"]
<1>1. /\ op.who # None /\ op.pc = "release" /\ Walks /\ op.todo # <<>>
      /\ Current.kind = "file" /\ Kept(disk[f], base[f])
  BY DEF WalkRelease, At, UpdateInv, Working, Releases, Handles
<1>2. UNCHANGED <<journal, game, report, base>>
  BY DEF WalkRelease
<1>3. /\ op \in Op /\ env \in Left /\ Data /\ disk \in Disk /\ Undecided
      /\ Current \in Entry /\ f \in File /\ f \in Named(journal.entries)
  BY <1>1, Walking
<1>4. Own
  BY <1>1, <1>3 DEF Walks, Outdated, Cleared, Kept, Fresh, None
<1> HIDE DEF f, q
<1>5. CASE Delete(f, "quarantine") /\ Resolved
  <2>1. "quarantine" \in Slot
    BY DEF Slot
  <2>2. /\ Steady /\ disk' \in Disk /\ (\A g \in File \ {f} : disk'[g] = disk[g])
        /\ \A u \in Slot \ {"quarantine"} : disk'[f][u] = disk[f][u]
    BY <1>3, <1>5, <2>1, DeleteIs
  <2>3. disk'[f]["target"] = disk[f]["target"] /\ disk'[f]["backup"] = disk[f]["backup"]
    BY <2>2 DEF Slot
  <2>4. InPlace(disk'[f], base[f])
    BY <1>1, <2>3 DEF Kept, InPlace
  <2>5. Undoable(disk'[f], base[f])
    BY <2>4 DEF Undoable
  <2>6. Data' /\ Undecided' /\ Own'
    BY <1>2, <1>3, <1>4, <2>2, <2>5, UndoableStays
  <2>7. Passed(op.unresolved, op.cleanup, op.whole)
    BY <1>1, <1>3, <1>5, PastIs
  <2>8. InPlace(disk'[f], base'[f])
    BY <1>2, <2>4
  <2> HIDE DEF Passed
  <2> QED BY <1>1, <1>2, <2>2, <2>6, <2>7, <2>8, Passes DEF f, SameGame
<1>6. CASE Undeletable(f, "quarantine") /\ Cleanup /\ UNCHANGED disk
  <2>1. Data' /\ Undecided' /\ Own'
    BY <1>2, <1>3, <1>4, <1>6, UndeletableIsSteady, SameDisk, DataStays DEF Undecided, Own
  <2>2. Passed(op.unresolved, Append(op.cleanup, q), op.whole)
    BY <1>1, <1>3, <1>6, PastIs DEF q
  <2>3. Kept(disk'[f], base'[f]) /\ InPlace(disk'[f], base'[f])
    BY <1>1, <1>2, <1>6 DEF Kept
  <2>4. \A g \in File \ {f} : disk'[g] = disk[g]
    BY <1>6
  <2> HIDE DEF Passed
  <2> QED BY <1>1, <1>2, <2>1, <2>2, <2>3, <2>4, Passes DEF f, q, SameGame
<1> QED BY <1>5, <1>6 DEF WalkRelease, f

-----------------------------------------------------------------------------
(* What the walk leaves behind. *)

\* An operation fails over a disk that is accounted for.
LEMMA FailsOver ==
    ASSUME UpdateInv, op.who # None, op.pc # "sweep", Fail, Data',
           game.phase = "offered" => journal' = NoJournal
    PROVE  UpdateInv'
<1>1. op.bad \in Result /\ End(op.bad) /\ op.who \in {"check", "stage", "apply", "helper"}
      /\ op.bad # "ROLLED_BACK"
  BY DEF UpdateInv, Op, Ends, Fail
<1>2. op.bad = "offered" => op.who \notin {"check", "stage"}
  BY DEF UpdateInv, Ends
<1>3. op.who \notin {"check", "stage"} => op.bad # "UPDATED" /\ op.bad # "READY"
  BY <1>1 DEF UpdateInv, Ends
<1> HIDE DEF UpdateInv, Fail
<1> QED BY <1>1, <1>2, <1>3, Stops

LEMMA WillRevert ==
    ASSUME op'.pc = "revert", Undecided', Own', op'.good # "UPDATED", op'.todo # <<>>,
           Apart(op'.todo), Listed(op'.todo) \subseteq Named(journal'.entries),
           \A f \in Listed(op'.todo) : Kept(disk'[f], base'[f])
    PROVE  Working'
<1>1. Reverts(op.todo)'
  BY DEF Reverts
<1> QED BY <1>1 DEF Working

LEMMA PublishKeeps ==
    ASSUME UpdateInv, Publish PROVE UpdateInv'
<1>1. /\ op.who # None /\ op.pc = "walk" /\ Walks /\ op.todo = <<>>
      /\ op \in Op /\ env \in Left /\ Data /\ journal \in Journal /\ Undecided
      /\ journal # NoJournal /\ game.phase # "offered" /\ op.bad # "ROLLED_BACK"
      /\ op.unresolved \in Seq(Entry) /\ op.cleanup \in Seq(Entry)
      /\ (op.whole => \A f \in File : f \in Named(op.unresolved) \/ InPlace(disk[f], base[f]))
  BY EmptyList DEF Publish, At, UpdateInv, Working, Data, DataType, Walks, Undecided, Told, Ends, Op
<1>2. UNCHANGED <<disk, base>>
  BY DEF Publish
<1>3. /\ Reduced \in Seq(Entry) /\ Apart(Reduced)
      /\ Named(op.unresolved) \subseteq Named(Reduced)
      /\ (Reduced = <<>> <=> op.unresolved = <<>> /\ op.cleanup = <<>>)
  BY <1>1, Joined DEF Walks, Reduced
<1>4. op.cleanup # <<>> => Own
  <2> SUFFICES ASSUME op.cleanup # <<>> PROVE Own
    OBVIOUS
  <2> DEFINE f == Head(op.cleanup).file
  <2>1. f \in Listed(op.cleanup) /\ f \in File
    BY <1>1, HeadAndTail
  <2> HIDE DEF f
  <2>2. disk[f]["quarantine"] # None
    BY <1>1, <2>1 DEF Walks, Kept, Fresh, None
  <2> QED BY <1>1, <2>1, <2>2 DEF Walks, Outdated, Cleared
<1>5. op.whole /\ op.unresolved = <<>> => AllInPlace /\ AllBase /\ NoBackups
  BY <1>1, EmptyList, HomeIsBase DEF AllInPlace
<1>6. ASSUME op.whole, Works,
             IF Reduced = <<>> THEN journal' = NoJournal
             ELSE journal' = [journal EXCEPT !.version = 2, !.committed = FALSE,
                                             !.entries = Reduced],
             IF op.unresolved = <<>> THEN Recovered ELSE Fail
      PROVE  UpdateInv'
  <2>1. Steady
    BY <1>1, <1>6, WorksIsSteady DEF Works
  <2>2. CASE Reduced = <<>>
    <3>1. Data' /\ journal' = NoJournal
      BY <1>1, <1>2, <1>3, <1>5, <1>6, <2>1, <2>2, JournalGone
    <3>2. AllBase'
      BY <1>2, <1>3, <1>5, <1>6, <2>2 DEF AllBase, Is
    <3>3. Recovered /\ op.good # "UPDATED"
      BY <1>1, <1>3, <1>6, <2>2 DEF Walks
    <3> QED BY <1>1, <3>1, <3>2, <3>3, RecoversOn
  <2>3. CASE Reduced # <<>>
    <3>1. /\ journal' \in Journal /\ journal'.version = 2 /\ journal'.committed = FALSE
          /\ journal'.entries = Reduced /\ journal'.original = journal.original
      BY <1>1, <1>3, <1>6, <2>3 DEF Journal
    <3>2. journal.version # 0
      BY <1>1 DEF Data, DataType
    <3>3. DataType'
      BY <1>1, <1>2, <1>3, <2>1, <3>1, <3>2 DEF Data, DataType, Steady
    <3>4. Own
      BY <1>1, <1>3, <1>4, <2>3 DEF Walks
    <3>5. journal' # NoJournal /\ Undecided' /\ Own'
      BY <1>2, <3>1, <3>4 DEF NoJournal, Undecided, Own
    <3>6. \A f \in File : /\ Undoable(disk'[f], base'[f])
                          /\ f \in Named(journal'.entries) \/ InPlace(disk'[f], base'[f])
      BY <1>1, <1>2, <1>3, <1>6, <3>1 DEF Data, Accounted, Outdated, AllInPlace, Undoable
    <3>7. Data'
      BY <3>1, <3>3, <3>5, <3>6 DEF Data, Accounted
    <3>8. CASE op.unresolved = <<>>
      <4>1. AllInPlace' /\ AllBase'
        BY <1>2, <1>5, <1>6, <3>8 DEF AllInPlace, AllBase, Is
      <4>2. Recovered /\ op.good # "UPDATED"
        BY <1>1, <1>6, <3>8 DEF Walks
      <4> QED BY <1>1, <3>5, <3>7, <4>1, <4>2, RecoversOn
    <3>9. CASE op.unresolved # <<>>
      <4>1. Fail
        BY <1>6, <3>9
      <4> QED BY <1>1, <3>7, <4>1, FailsOver
    <3> QED BY <3>8, <3>9
  <2> QED BY <2>2, <2>3
<1>7. ASSUME IF op.whole THEN Fault ELSE UNCHANGED env, UNCHANGED journal,
             IF op.cleanup = <<>> THEN Fail
             ELSE /\ op' = [op EXCEPT !.pc = "revert", !.todo = Reverse(op.cleanup)]
                  /\ UNCHANGED <<game, report>>
      PROVE  UpdateInv'
  <2>1. Steady
    BY <1>1, <1>7, FaultIsSteady, WorksIsSteady
  <2>2. CASE op.cleanup = <<>>
    BY <1>1, <1>2, <1>7, <2>1, <2>2, FailsSafely
  <2>3. CASE op.cleanup # <<>>
    <3> DEFINE s == Reverse(op.cleanup)
    <3>1. Data'
      BY <1>1, <1>2, <1>7, <2>1, SameDisk, DataStays
    <3>2. Undecided' /\ Own'
      BY <1>1, <1>2, <1>4, <1>7, <2>3 DEF Undecided, Own
    <3>3. s \in Seq(Entry) /\ Listed(s) = Listed(op.cleanup) /\ Apart(s) /\ s # <<>>
      BY <1>1, <2>3, Reversed DEF Walks
    <3>4. op' = [op EXCEPT !.pc = "revert", !.todo = s]
      BY <1>7, <2>3
    <3> HIDE DEF s
    <3>5. /\ op' \in Op /\ op'.pc = "revert" /\ op'.who = op.who /\ op'.todo = s
          /\ op'.good = op.good /\ op'.bad = op.bad
      BY <1>1, <3>3, <3>4 DEF Op, Pc
    <3>6. Listed(s) \subseteq Named(journal'.entries) /\ op'.good # "UPDATED"
      BY <1>1, <1>7, <3>3, <3>5 DEF Walks
    <3>7. Working'
      <4>1. \A f \in Listed(s) : Kept(disk'[f], base'[f])
        BY <1>1, <1>2, <3>3 DEF Walks
      <4> QED BY <3>2, <3>3, <3>5, <3>6, <4>1, WillRevert
    <3>8. Ends'
      BY <1>1, <3>5, EndsStay
    <3> QED BY <1>1, <1>7, <2>3, <3>1, <3>5, <3>7, <3>8, Continues DEF SameGame
  <2> QED BY <2>2, <2>3
<1> QED BY <1>6, <1>7 DEF Publish

\* The next file of the cleanup is reverted.
LEMMA RevertsOn ==
    ASSUME UpdateInv, op.who # None, op.pc # "sweep", Reverted, Reverts(Tail(op.todo)),
           Data', Undecided', Own', UNCHANGED <<journal, base>>,
           \A g \in File \ {Current.file} : disk'[g] = disk[g]
    PROVE  UpdateInv'
<1> DEFINE t == Tail(op.todo)
           f == Current.file
<1>1. op \in Op /\ op.todo \in Seq(Entry) /\ op.todo # <<>> /\ game.phase # "offered"
  BY DEF UpdateInv, Reverts, Op, Told, Undecided
<1>2. /\ t \in Seq(Entry) /\ Apart(t) /\ f \notin Listed(t) /\ Listed(t) \subseteq File
      /\ Listed(t) \subseteq Named(journal.entries) /\ (Len(op.todo) # 1 => t # <<>>)
  BY <1>1, HeadAndTail, ListedIs DEF Reverts, Current
<1>3. CASE Len(op.todo) = 1
  <2>1. Fail
    BY <1>3 DEF Reverted
  <2> QED BY <1>1, <2>1, FailsOver
<1>4. CASE Len(op.todo) # 1
  <2>1. op' = [op EXCEPT !.pc = "revert", !.todo = t] /\ UNCHANGED <<game, report>>
    BY <1>4 DEF Reverted
  <2> HIDE DEF t
  <2>2. /\ op' \in Op /\ op'.pc = "revert" /\ op'.who = op.who /\ op'.todo = t
        /\ op'.good = op.good /\ op'.bad = op.bad
    BY <1>1, <1>2, <2>1 DEF Op, Pc
  <2>3. \A g \in Listed(t) : Kept(disk'[g], base'[g])
    BY <1>2 DEF Reverts, t
  <2>4. op'.good # "UPDATED" /\ journal' = journal
    BY <2>2 DEF Reverts
  <2>5. Working'
    BY <1>2, <1>4, <2>2, <2>3, <2>4, WillRevert
  <2>6. Ends'
    BY <2>2, EndsStay
  <2> QED BY <1>1, <2>1, <2>2, <2>5, <2>6, Continues DEF SameGame
<1> QED BY <1>3, <1>4

LEMMA Reverting ==
    ASSUME UpdateInv, Reverts(Tail(op.todo))
    PROVE  /\ op \in Op /\ env \in Left /\ Data /\ disk \in Disk /\ Undecided /\ Own
           /\ Current.file \in File /\ Current.file \in Named(journal.entries)
           /\ Current.file \in Listed(op.todo) /\ game.phase # "offered"
           /\ HadOriginal(Current.file) <=> base[Current.file] # None
           /\ "target" \in Slot /\ "backup" \in Slot /\ "quarantine" \in Slot
<1>1. op \in Op /\ op.todo \in Seq(Entry) /\ op.todo # <<>>
  BY DEF UpdateInv, Op, Reverts
<1>2. Current.file \in File /\ Current.file \in Listed(op.todo)
  BY <1>1, HeadAndTail DEF Current
<1>3. Own /\ Undecided /\ Current.file \in Named(journal.entries)
  BY <1>2 DEF Reverts
<1>4. HadOriginal(Current.file) <=> base[Current.file] # None
  BY <1>3 DEF HadOriginal, Own
<1> QED BY <1>1, <1>2, <1>3, <1>4 DEF UpdateInv, Data, DataType, Told, Undecided, Slot

LEMMA RevertKeeps ==
    ASSUME UpdateInv, Revert PROVE UpdateInv'
<1> DEFINE f == Current.file
<1>1. op.who # None /\ op.pc = "revert" /\ Reverts(op.todo) /\ op.todo # <<>>
  BY DEF Revert, At, UpdateInv, Working, Reverts
<1>2. UNCHANGED <<journal, base>>
  BY DEF Revert
<1>3. Reverts(Tail(op.todo))
  <2>1. Listed(Tail(op.todo)) \subseteq Listed(op.todo)
    BY <1>1, HeadAndTail DEF UpdateInv, Op
  <2> QED BY <1>1, <2>1 DEF Reverts
<1>4. /\ op \in Op /\ env \in Left /\ Data /\ disk \in Disk /\ Undecided /\ Own
      /\ f \in File /\ f \in Named(journal.entries) /\ f \in Listed(op.todo)
      /\ game.phase # "offered" /\ (HadOriginal(f) <=> base[f] # None)
      /\ "target" \in Slot /\ "backup" \in Slot /\ "quarantine" \in Slot
  BY <1>3, Reverting
<1>5. Kept(disk[f], base[f])
  BY <1>1, <1>4 DEF Reverts
<1> HIDE DEF f
<1>6. CASE Fault /\ Fail /\ UNCHANGED disk
  BY <1>1, <1>2, <1>4, <1>6, FaultIsSteady, FailsSafely
<1>7. CASE HadOriginal(f) /\ Works /\ Move(f, "target", "backup") /\ Goto("reinstate")
           /\ UNCHANGED <<game, report>>
  <2>1. /\ disk' \in Disk /\ (\A g \in File \ {f} : disk'[g] = disk[g])
        /\ disk'[f]["backup"] = disk[f]["target"] /\ disk'[f]["target"] = None
        /\ \A u \in Slot \ {"target", "backup"} : disk'[f][u] = disk[f][u]
    BY <1>4, <1>7, MoveIs
  <2>2. disk'[f]["quarantine"] = disk[f]["quarantine"]
    BY <2>1 DEF Slot
  <2>3. SetAside(disk'[f], base[f]) /\ disk'[f]["quarantine"] \in Fresh(base[f])
    BY <1>4, <1>5, <1>7, <2>1, <2>2 DEF SetAside, Kept, InPlace
  <2>4. Undoable(disk'[f], base[f])
    BY <2>3 DEF Undoable
  <2>5. Steady
    BY <1>4, <1>7, WorksIsSteady DEF Works
  <2>6. Data' /\ Undecided' /\ Own'
    BY <1>2, <1>4, <2>1, <2>4, <2>5, UndoableStays
  <2>7. /\ op' \in Op /\ op'.pc = "reinstate" /\ op'.who = op.who /\ op'.todo = op.todo
        /\ op'.good = op.good /\ op'.bad = op.bad
    BY <1>4, <1>7, GotoIs DEF Pc
  <2>8. f \notin Listed(Tail(op.todo)) /\ Listed(Tail(op.todo)) \subseteq File
    <3>1. op.todo \in Seq(Entry) /\ op.todo # <<>> /\ Apart(op.todo)
      BY <1>1, <1>4 DEF Op, Reverts
    <3>2. Tail(op.todo) \in Seq(Entry) /\ f \notin Listed(Tail(op.todo))
      BY <3>1, HeadAndTail DEF f, Current
    <3> QED BY <3>2, ListedIs
  <2>9. \A g \in Listed(Tail(op.todo)) : Kept(disk'[g], base'[g])
    BY <1>2, <1>3, <2>1, <2>8 DEF Reverts
  <2>10. Reverts(Tail(op.todo))'
    BY <1>2, <1>3, <2>6, <2>7, <2>9 DEF Reverts
  <2>11. Reinstates'
    BY <1>2, <2>3, <2>7, <2>10 DEF Reinstates, Current, f
  <2>12. Working' /\ Ends'
    BY <1>1, <2>7, <2>11, EndsStay DEF Working
  <2> QED BY <1>1, <1>4, <1>7, <2>6, <2>7, <2>12, Continues DEF SameGame
<1>8. CASE ~ HadOriginal(f) /\ Works /\ Move(f, "quarantine", "target") /\ Reverted
  <2>1. /\ disk' \in Disk /\ (\A g \in File \ {f} : disk'[g] = disk[g])
        /\ disk'[f]["target"] = disk[f]["quarantine"]
        /\ \A u \in Slot \ {"quarantine", "target"} : disk'[f][u] = disk[f][u]
    BY <1>4, <1>8, MoveIs
  <2>2. disk'[f]["backup"] = disk[f]["backup"] /\ disk'[f]["staged"] = disk[f]["staged"]
    BY <2>1 DEF Slot
  <2>3. Undoable(disk'[f], base[f])
    BY <1>4, <1>5, <1>8, <2>1, <2>2 DEF Undoable, Replaced, Kept, InPlace, Spent
  <2>4. Steady
    BY <1>4, <1>8, WorksIsSteady DEF Works
  <2>5. Data' /\ Undecided' /\ Own'
    BY <1>2, <1>4, <2>1, <2>3, <2>4, UndoableStays
  <2> QED BY <1>1, <1>2, <1>3, <1>8, <2>1, <2>5, RevertsOn DEF f
<1> QED BY <1>6, <1>7, <1>8 DEF Revert, f

LEMMA ReinstateKeeps ==
    ASSUME UpdateInv, Reinstate PROVE UpdateInv'
<1> DEFINE f == Current.file
<1>1. /\ op.who # None /\ op.pc = "reinstate" /\ Reverts(Tail(op.todo))
      /\ SetAside(disk[f], base[f]) /\ disk[f]["quarantine"] \in Fresh(base[f])
  BY DEF Reinstate, At, UpdateInv, Working, Reinstates
<1>2. UNCHANGED <<journal, base>>
  BY DEF Reinstate
<1>3. /\ op \in Op /\ env \in Left /\ Data /\ disk \in Disk /\ Undecided /\ Own
      /\ f \in File /\ f \in Named(journal.entries)
      /\ game.phase # "offered"
      /\ "target" \in Slot /\ "backup" \in Slot /\ "quarantine" \in Slot
  BY <1>1, Reverting
<1> HIDE DEF f
<1>4. CASE Works /\ Move(f, "quarantine", "target") /\ Reverted
  <2>1. /\ disk' \in Disk /\ (\A g \in File \ {f} : disk'[g] = disk[g])
        /\ disk'[f]["target"] = disk[f]["quarantine"]
        /\ \A u \in Slot \ {"quarantine", "target"} : disk'[f][u] = disk[f][u]
    BY <1>3, <1>4, MoveIs
  <2>2. disk'[f]["backup"] = disk[f]["backup"]
    BY <2>1 DEF Slot
  <2>3. Undoable(disk'[f], base[f])
    BY <1>1, <2>1, <2>2 DEF Undoable, Replaced, SetAside, Spent
  <2>4. Steady
    BY <1>3, <1>4, WorksIsSteady DEF Works
  <2>5. Data' /\ Undecided' /\ Own'
    BY <1>2, <1>3, <2>1, <2>3, <2>4, UndoableStays
  <2> QED BY <1>1, <1>2, <1>4, <2>1, <2>5, RevertsOn DEF f
<1>5. CASE Fault /\ Move(f, "backup", "target") /\ Fail
  <2>1. /\ disk' \in Disk /\ (\A g \in File \ {f} : disk'[g] = disk[g])
        /\ disk'[f]["target"] = disk[f]["backup"] /\ disk'[f]["backup"] = None
    BY <1>3, <1>5, MoveIs
  <2>2. Undoable(disk'[f], base[f])
    BY <1>1, <2>1 DEF Undoable, InPlace, SetAside
  <2>3. Steady
    BY <1>3, <1>5, FaultIsSteady
  <2>4. Data'
    BY <1>2, <1>3, <2>1, <2>2, <2>3, UndoableStays
  <2> QED BY <1>1, <1>3, <1>5, <2>4, FailsOver
<1>6. CASE Fault /\ UNCHANGED disk /\ Fail
  BY <1>1, <1>2, <1>3, <1>6, FaultIsSteady, FailsSafely
<1> QED BY <1>4, <1>5, <1>6 DEF Reinstate, f

-----------------------------------------------------------------------------
(* The pristine set is moved in, or out again. *)

LEMMA ApplyingIs ==
    ASSUME UpdateInv, Applying
    PROVE  /\ op \in Op /\ env \in Left /\ Data /\ disk \in Disk /\ Undecided /\ Own
           /\ Named(journal.entries) = File /\ game.phase # "offered"
           /\ op.todo \in Seq(Entry) /\ op.good = "UPDATED" /\ op.who \notin {"stage"}
           /\ \A f \in File : Undoable(disk[f], base[f]) /\ (HadOriginal(f) <=> base[f] # None)
           /\ "target" \in Slot /\ "backup" \in Slot /\ "quarantine" \in Slot /\ "staged" \in Slot
<1>1. Named(journal.entries) = File
  BY AllAreListed DEF UpdateInv, Data, DataType, Applying
<1>2. \A f \in File : Undoable(disk[f], base[f]) /\ (HadOriginal(f) <=> base[f] # None)
  BY DEF UpdateInv, Data, Accounted, Applying, Own, HadOriginal, Outdated, AllInPlace, Undoable
<1> QED BY <1>1, <1>2 DEF UpdateInv, Data, DataType, Applying, Undecided, Told, Op, Ends, Slot

LEMMA ApplyingFile ==
    ASSUME UpdateInv, Applying, op.todo # <<>>
    PROVE  /\ Current.file \in File /\ Tail(op.todo) \in Seq(Entry) /\ Apart(Tail(op.todo))
           /\ Listed(op.todo) = Listed(Tail(op.todo)) \cup {Current.file}
           /\ Current.file \notin Listed(Tail(op.todo))
<1>1. op.todo \in Seq(Entry) /\ Apart(op.todo)
  BY ApplyingIs DEF Applying
<1> QED BY <1>1, HeadAndTail DEF Current

\* What a step on one file of the release leaves alone.
LEMMA StillApplying ==
    ASSUME UpdateInv, Applying, UNCHANGED <<journal, base>>, Steady, disk' \in Disk,
           NEW f \in File, \A g \in File \ {f} : disk'[g] = disk[g],
           Undoable(disk'[f], base[f]), disk'[f]["quarantine"] = disk[f]["quarantine"],
           op' \in Op, op'.good = op.good, op'.unresolved = op.unresolved,
           op'.cleanup = op.cleanup, op'.quarantined = op.quarantined, Apart(op'.todo)
    PROVE  Data' /\ Applying'
<1>1. Data' /\ Undecided' /\ Own'
  BY ApplyingIs, UndoableStays
<1>2. Cleared'
  BY DEF Applying, Cleared
<1> QED BY <1>1, <1>2 DEF Applying, Unwalked

LEMMA UndoBegins ==
    ASSUME UpdateInv, op.who # None, op.pc # "sweep", Applying, Undo, Steady,
           UNCHANGED <<disk, journal, game, report, base>>
    PROVE  UpdateInv'
<1> DEFINE s == Reverse(AllEntries)
<1>1. /\ s \in Seq(Entry) /\ Apart(s) /\ Listed(s) = File
  BY AllAreListed, Reversed
<1>2. op' = [op EXCEPT !.pc = "undo", !.todo = s]
  BY DEF Undo
<1> HIDE DEF s
<1>3. op \in Op /\ Data /\ Undecided /\ Own /\ game.phase # "offered"
  BY ApplyingIs
<1>4. /\ op' \in Op /\ op'.pc = "undo" /\ op'.todo = s /\ op'.who = op.who
      /\ op'.good = op.good /\ op'.bad = op.bad /\ op'.unresolved = op.unresolved
      /\ op'.cleanup = op.cleanup /\ op'.quarantined = op.quarantined
  BY <1>1, <1>2, <1>3 DEF Op, Pc
<1>5. Data'
  BY <1>3, SameDisk, DataStays
<1>6. Applying'
  BY <1>1, <1>4 DEF Applying, Undecided, Own, Cleared, Unwalked
<1>7. Undoes'
  BY <1>1, <1>4, <1>6 DEF Undoes
<1>8. Working' /\ Ends'
  BY <1>4, <1>7, EndsStay DEF Working
<1> QED BY <1>3, <1>4, <1>5, <1>8, Continues DEF SameGame

LEMMA InstallBegins ==
    ASSUME UpdateInv, op.who # None, op.pc = "aside", Asides, op.todo # <<>>, Goto("install"),
           UNCHANGED <<journal, game, report, base>>, Steady, disk' \in Disk,
           \A g \in File \ {Current.file} : disk'[g] = disk[g],
           disk'[Current.file]["quarantine"] = disk[Current.file]["quarantine"],
           disk'[Current.file]["staged"] = "new",
           \/ SetAside(disk'[Current.file], base[Current.file])
           \/ InPlace(disk'[Current.file], base[Current.file]) /\ base[Current.file] = None
    PROVE  UpdateInv'
<1> DEFINE f == Current.file
<1>1. Applying /\ op \in Op /\ f \in File /\ game.phase # "offered"
  BY ApplyingIs, ApplyingFile DEF Asides
<1>2. /\ op' \in Op /\ op'.pc = "install" /\ op'.todo = op.todo /\ op'.who = op.who
      /\ op'.good = op.good /\ op'.bad = op.bad /\ op'.unresolved = op.unresolved
      /\ op'.cleanup = op.cleanup /\ op'.quarantined = op.quarantined
  BY <1>1, GotoIs DEF Pc
<1>3. Current' = Current
  BY <1>2 DEF Current
<1>4. Apart(op'.todo)
  BY <1>1, <1>2 DEF Applying
<1> HIDE DEF f
<1>5. Undoable(disk'[f], base[f])
  BY DEF Undoable, f
<1>6. Data' /\ Applying'
  BY <1>1, <1>2, <1>4, <1>5, StillApplying DEF f
<1>7. \A g \in File \ {f} : IF g \in Listed(op.todo) THEN Awaited(g)' ELSE Exchanged(g)'
  BY DEF Asides, Awaited, Exchanged, f
<1>8. Installs'
  BY <1>2, <1>3, <1>6, <1>7 DEF Installs, f
<1>9. Working' /\ Ends'
  BY <1>2, <1>8, EndsStay DEF Working
<1> QED BY <1>1, <1>2, <1>6, <1>9, Continues DEF SameGame

LEMMA MoveAsideKeeps ==
    ASSUME UpdateInv, MoveAside PROVE UpdateInv'
<1> DEFINE f == Current.file
<1>1. op.who # None /\ op.pc = "aside" /\ Asides /\ Applying /\ op.todo # <<>>
  BY DEF MoveAside, At, UpdateInv, Working, Asides
<1>2. UNCHANGED <<journal, game, report, base>>
  BY DEF MoveAside
<1>3. f \in File /\ f \in Listed(op.todo)
  BY <1>1, ApplyingFile
<1>4. /\ op \in Op /\ env \in Left /\ disk \in Disk /\ (HadOriginal(f) <=> base[f] # None)
      /\ "target" \in Slot /\ "backup" \in Slot
  BY <1>1, <1>3, ApplyingIs
<1>5. InPlace(disk[f], base[f]) /\ disk[f]["staged"] = "new"
  BY <1>1, <1>3 DEF Asides, Awaited
<1> HIDE DEF f
<1>6. CASE ~ HadOriginal(f) /\ Goto("install") /\ UNCHANGED <<disk, env>>
  <2>1. Steady /\ disk' \in Disk /\ disk'[f] = disk[f]
    BY <1>4, <1>6, WorksIsSteady
  <2>2. \A g \in File \ {f} : disk'[g] = disk[g]
    BY <1>6
  <2>3. InPlace(disk'[f], base[f]) /\ base[f] = None
    BY <1>4, <1>5, <1>6, <2>1
  <2> QED BY <1>1, <1>2, <1>5, <1>6, <2>1, <2>2, <2>3, InstallBegins DEF f
<1>7. CASE HadOriginal(f) /\ Works /\ Move(f, "target", "backup") /\ Goto("install")
  <2>1. /\ disk' \in Disk /\ (\A g \in File \ {f} : disk'[g] = disk[g])
        /\ disk'[f]["backup"] = disk[f]["target"] /\ disk'[f]["target"] = None
        /\ \A u \in Slot \ {"target", "backup"} : disk'[f][u] = disk[f][u]
    BY <1>3, <1>4, <1>7, MoveIs
  <2>2. disk'[f]["quarantine"] = disk[f]["quarantine"] /\ disk'[f]["staged"] = disk[f]["staged"]
    BY <2>1 DEF Slot
  <2>3. SetAside(disk'[f], base[f])
    BY <1>4, <1>5, <1>7, <2>1 DEF SetAside, InPlace
  <2>4. Steady
    BY <1>4, <1>7, WorksIsSteady DEF Works
  <2> QED BY <1>1, <1>2, <1>5, <1>7, <2>1, <2>2, <2>3, <2>4, InstallBegins DEF f
<1>8. CASE Fault /\ Undo /\ UNCHANGED disk
  BY <1>1, <1>2, <1>4, <1>8, FaultIsSteady, UndoBegins
<1> QED BY <1>6, <1>7, <1>8 DEF MoveAside, f

LEMMA InstallKeeps ==
    ASSUME UpdateInv, Install PROVE UpdateInv'
<1> DEFINE f == Current.file
           t == Tail(op.todo)
<1>1. op.who # None /\ op.pc = "install" /\ Installs /\ Applying /\ op.todo # <<>>
  BY DEF Install, At, UpdateInv, Working, Installs
<1>2. UNCHANGED <<journal, game, report, base>>
  BY DEF Install
<1>3. f \in File /\ t \in Seq(Entry) /\ Apart(t) /\ Listed(op.todo) = Listed(t) \cup {f}
      /\ f \notin Listed(t)
  BY <1>1, ApplyingFile
<1>4. /\ op \in Op /\ env \in Left /\ disk \in Disk /\ game.phase # "offered"
      /\ "target" \in Slot /\ "staged" \in Slot
  BY <1>1, ApplyingIs
<1>5. disk[f]["staged"] = "new" /\ disk[f]["backup"] = base[f]
  BY <1>1 DEF Installs, SetAside, InPlace
<1> HIDE DEF f
<1>6. CASE Works /\ Move(f, "staged", "target") /\ op' = [op EXCEPT !.pc = "aside", !.todo = t]
  <2> HIDE DEF t
  <2>1. /\ disk' \in Disk /\ (\A g \in File \ {f} : disk'[g] = disk[g])
        /\ disk'[f]["target"] = disk[f]["staged"] /\ disk'[f]["staged"] = None
        /\ \A u \in Slot \ {"staged", "target"} : disk'[f][u] = disk[f][u]
    BY <1>3, <1>4, <1>6, MoveIs
  <2>2. disk'[f]["quarantine"] = disk[f]["quarantine"] /\ disk'[f]["backup"] = disk[f]["backup"]
    BY <2>1 DEF Slot
  <2>3. Replaced(disk'[f], base[f])
    BY <1>5, <2>1, <2>2 DEF Replaced, Fresh, Spent
  <2>4. Undoable(disk'[f], base[f])
    BY <2>3 DEF Undoable
  <2>5. Steady
    BY <1>4, <1>6, WorksIsSteady DEF Works
  <2>6. /\ op' \in Op /\ op'.pc = "aside" /\ op'.todo = t /\ op'.who = op.who
        /\ op'.good = op.good /\ op'.bad = op.bad /\ op'.unresolved = op.unresolved
        /\ op'.cleanup = op.cleanup /\ op'.quarantined = op.quarantined
    BY <1>3, <1>4, <1>6 DEF Op, Pc
  <2>7. Data' /\ Applying'
    BY <1>1, <1>2, <1>3, <2>1, <2>2, <2>4, <2>5, <2>6, StillApplying
  <2>8. ASSUME NEW g \in File PROVE IF g \in Listed(t) THEN Awaited(g)' ELSE Exchanged(g)'
    <3>1. CASE g = f
      BY <1>2, <1>3, <2>1, <2>3, <3>1 DEF Exchanged
    <3>2. CASE g # f
      <4>1. disk'[g] = disk[g] /\ base'[g] = base[g]
        BY <1>2, <2>1, <3>2
      <4>2. IF g \in Listed(op.todo) THEN Awaited(g) ELSE Exchanged(g)
        BY <1>1, <3>2 DEF Installs, f
      <4>3. g \in Listed(op.todo) <=> g \in Listed(t)
        BY <1>3, <3>2
      <4> QED BY <4>1, <4>2, <4>3 DEF Awaited, Exchanged
    <3> QED BY <3>1, <3>2
  <2>9. Asides'
    BY <2>6, <2>7, <2>8 DEF Asides
  <2>10. Working' /\ Ends'
    BY <1>1, <2>6, <2>9, EndsStay DEF Working
  <2> QED BY <1>1, <1>2, <1>4, <2>6, <2>7, <2>10, Continues DEF SameGame
<1>7. CASE Fault /\ Undo /\ UNCHANGED disk
  BY <1>1, <1>2, <1>4, <1>7, FaultIsSteady, UndoBegins
<1> QED BY <1>6, <1>7 DEF Install, f

LEMMA CommitKeeps ==
    ASSUME UpdateInv, Commit PROVE UpdateInv'
<1>1. op.who # None /\ op.pc = "aside" /\ Asides /\ Applying /\ op.todo = <<>>
  BY DEF Commit, At, UpdateInv, Working, Asides
<1>2. UNCHANGED <<disk, game, report, base>>
  BY DEF Commit
<1>3. /\ op \in Op /\ env \in Left /\ Data /\ Undecided /\ Own /\ game.phase # "offered"
      /\ Cleared /\ journal \in Journal /\ journal.version = 3 /\ Unwalked
  BY <1>1, ApplyingIs DEF Applying, Data, DataType
<1>4. \A f \in File : Final(disk[f], base[f])
  BY <1>1, <1>3, EmptyList DEF Asides, Exchanged, Replaced, Final, Cleared
<1>5. ASSUME AllNew, Goto("journal"), Data', journal'.version = 3 PROVE UpdateInv'
  <2>1. /\ op' \in Op /\ op'.pc = "journal" /\ op'.who = op.who
        /\ op'.good = op.good /\ op'.bad = op.bad /\ op'.unresolved = op.unresolved
        /\ op'.cleanup = op.cleanup /\ op'.quarantined = op.quarantined
    BY <1>3, <1>5, GotoIs DEF Pc
  <2>2. TargetsAreComplete'
    BY <1>2, <1>3, <1>5 DEF TargetsAreComplete, AllNew, Cleared, Is, Has
  <2>3. op'.good = "UPDATED" /\ Unwalked'
    BY <1>1, <1>3, <2>1 DEF Applying, Unwalked
  <2>4. Reads'
    BY <2>2, <2>3 DEF Reads
  <2>5. Working' /\ Ends'
    BY <1>1, <2>1, <2>4, EndsStay DEF Working
  <2> QED BY <1>1, <1>2, <1>3, <1>5, <2>1, <2>5, Continues DEF SameGame
<1>6. CASE AllNew /\ Works /\ journal' = [journal EXCEPT !.committed = TRUE] /\ Goto("journal")
  <2>1. /\ journal' \in Journal /\ journal'.committed = TRUE /\ journal'.version = 3
        /\ journal'.entries = journal.entries /\ journal'.original = journal.original
    BY <1>3, <1>6 DEF Journal
  <2>2. Steady
    BY <1>3, <1>6, WorksIsSteady DEF Works
  <2>3. DataType'
    BY <1>2, <1>3, <2>1, <2>2 DEF Data, DataType, Steady
  <2>4. /\ journal' # NoJournal /\ ~ Undecided' /\ Own' /\ AllNew'
        /\ \A f \in File : Final(disk'[f], base'[f])
    BY <1>2, <1>3, <1>4, <1>6, <2>1 DEF NoJournal, Undecided, Own, AllNew, Is
  <2>5. Data'
    BY <2>1, <2>3, <2>4 DEF Data, Accounted
  <2> QED BY <1>5, <1>6, <2>1, <2>5
<1>7. CASE AllNew /\ Fault /\ UNCHANGED journal /\ Goto("journal")
  <2>1. Data' /\ journal'.version = 3
    BY <1>2, <1>3, <1>7, FaultIsSteady, SameDisk, DataStays
  <2> QED BY <1>5, <1>7, <2>1
<1>8. CASE ~ AllNew /\ Undo /\ UNCHANGED <<journal, env>>
  BY <1>1, <1>2, <1>3, <1>8, WorksIsSteady, UndoBegins
<1> QED BY <1>6, <1>7, <1>8 DEF Commit

\* The undo passes to the next file.
LEMMA UndoesOn ==
    ASSUME UpdateInv, op.who # None, op.pc # "sweep", Undoes, op.todo # <<>>,
           NEW w \in BOOLEAN, Undone(w), Steady, disk' \in Disk,
           UNCHANGED <<journal, game, report, base>>,
           \A g \in File \ {Current.file} : disk'[g] = disk[g],
           Undoable(disk'[Current.file], base[Current.file]),
           disk'[Current.file]["quarantine"] = disk[Current.file]["quarantine"],
           w /\ op.whole => InPlace(disk'[Current.file], base[Current.file])
    PROVE  UpdateInv'
<1> DEFINE f == Current.file
           t == Tail(op.todo)
<1>1. /\ Applying /\ op \in Op /\ f \in File /\ t \in Seq(Entry) /\ Apart(t)
      /\ Listed(op.todo) = Listed(t) \cup {f} /\ game.phase # "offered"
  BY ApplyingIs, ApplyingFile DEF Undoes
<1>2. op' = [op EXCEPT !.pc = "undo", !.todo = t, !.whole = op.whole /\ w]
  BY DEF Undone
<1> HIDE DEF f, t
<1>3. (op.whole /\ w) \in BOOLEAN
  OBVIOUS
<1>4. /\ op' \in Op /\ op'.pc = "undo" /\ op'.todo = t /\ op'.who = op.who
      /\ op'.good = op.good /\ op'.bad = op.bad /\ op'.unresolved = op.unresolved
      /\ op'.cleanup = op.cleanup /\ op'.quarantined = op.quarantined
      /\ op'.whole = (op.whole /\ w)
  BY <1>1, <1>2, <1>3 DEF Op, Pc
<1>5. Data' /\ Applying'
  BY <1>1, <1>4, StillApplying DEF f
<1>6. ASSUME op.whole, w, NEW g \in File PROVE g \in Listed(t) \/ InPlace(disk'[g], base'[g])
  <2>1. CASE g = f
    BY <1>6, <2>1 DEF f
  <2>2. CASE g # f
    <3>1. g \in Listed(op.todo) \/ InPlace(disk[g], base[g])
      BY <1>6 DEF Undoes
    <3> QED BY <1>1, <2>2, <3>1 DEF f
  <2> QED BY <2>1, <2>2
<1>7. Undoes'
  BY <1>4, <1>5, <1>6 DEF Undoes
<1>8. Working' /\ Ends'
  BY <1>4, <1>7, EndsStay DEF Working
<1> QED BY <1>1, <1>4, <1>5, <1>8, Continues DEF SameGame

LEMMA UndoTargetKeeps ==
    ASSUME UpdateInv, UndoTarget PROVE UpdateInv'
<1> DEFINE f == Current.file
           displaces == IF HadOriginal(f) THEN Has(f, "backup") ELSE Swapped(f)
<1>1. op.who # None /\ op.pc = "undo" /\ Undoes /\ Applying /\ op.todo # <<>>
  BY DEF UndoTarget, At, UpdateInv, Working, Undoes
<1>2. UNCHANGED <<journal, game, report, base>>
  BY DEF UndoTarget
<1>3. f \in File
  BY <1>1, ApplyingFile
<1>4. /\ op \in Op /\ env \in Left /\ disk \in Disk /\ (HadOriginal(f) <=> base[f] # None)
      /\ Undoable(disk[f], base[f]) /\ "target" \in Slot /\ "backup" \in Slot
      /\ game.phase # "offered" /\ Apart(op.todo)
  BY <1>1, <1>3, ApplyingIs DEF Applying
<1>5. /\ HadOriginal(f) => (displaces <=> disk[f]["backup"] # None)
      /\ ~ HadOriginal(f) => (displaces <=> disk[f]["staged"] = None)
  BY DEF Has, Swapped
<1>6. \A g \in File \ {f} : disk' = disk => disk'[g] = disk[g]
  OBVIOUS
<1> HIDE DEF f, displaces
<1>7. CASE ~ displaces /\ Undone(TRUE) /\ UNCHANGED <<disk, env>>
  <2>1. InPlace(disk[f], base[f])
    BY <1>4, <1>5, <1>7 DEF Undoable, InPlace, SetAside, Replaced, Spent
  <2>2. Steady /\ disk' \in Disk /\ disk'[f] = disk[f]
    BY <1>4, <1>7, WorksIsSteady
  <2>3. Undoable(disk'[f], base[f]) /\ InPlace(disk'[f], base[f])
        /\ disk'[f]["quarantine"] = disk[f]["quarantine"]
    BY <1>4, <2>1, <2>2
  <2> HIDE DEF Undone
  <2> QED BY <1>1, <1>2, <1>6, <1>7, <2>2, <2>3, UndoesOn DEF f
<1>8. CASE displaces /\ Delete(f, "target")
           /\ IF HadOriginal(f) THEN Goto("return") ELSE Undone(TRUE)
  <2>1. /\ Steady /\ disk' \in Disk /\ (\A g \in File \ {f} : disk'[g] = disk[g])
        /\ disk'[f]["target"] = None
        /\ \A u \in Slot \ {"target"} : disk'[f][u] = disk[f][u]
    BY <1>3, <1>4, <1>8, DeleteIs
  <2>2. /\ disk'[f]["quarantine"] = disk[f]["quarantine"]
        /\ disk'[f]["backup"] = disk[f]["backup"] /\ disk'[f]["staged"] = disk[f]["staged"]
    BY <2>1 DEF Slot
  <2>3. CASE HadOriginal(f)
    <3>1. SetAside(disk'[f], base[f])
      BY <1>4, <1>5, <1>8, <2>1, <2>2, <2>3 DEF Undoable, InPlace, SetAside, Replaced
    <3>2. Undoable(disk'[f], base[f])
      BY <3>1 DEF Undoable
    <3>3. /\ op' \in Op /\ op'.pc = "return" /\ op'.todo = op.todo /\ op'.who = op.who
          /\ op'.good = op.good /\ op'.bad = op.bad /\ op'.unresolved = op.unresolved
          /\ op'.cleanup = op.cleanup /\ op'.quarantined = op.quarantined
          /\ op'.whole = op.whole
      BY <1>4, <1>8, <2>3, GotoIs DEF Pc
    <3>4. Data' /\ Applying'
      BY <1>1, <1>2, <1>3, <1>4, <2>1, <2>2, <3>2, <3>3, StillApplying
    <3>5. f \in Listed(op.todo)
      BY <1>1, ApplyingFile DEF f
    <3>6. Undoes'
      BY <1>1, <1>2, <2>1, <3>3, <3>4, <3>5 DEF Undoes
    <3>7. Returns'
      BY <1>1, <1>2, <3>1, <3>3, <3>6 DEF Returns, Current, f
    <3>8. Working' /\ Ends'
      BY <1>1, <3>3, <3>7, EndsStay DEF Working
    <3> QED BY <1>1, <1>2, <1>4, <3>3, <3>4, <3>8, Continues DEF SameGame
  <2>4. CASE ~ HadOriginal(f)
    <3>1. InPlace(disk'[f], base[f])
      BY <1>4, <2>1, <2>2, <2>4 DEF Undoable, InPlace, SetAside, Replaced
    <3>2. Undoable(disk'[f], base[f]) /\ Undone(TRUE)
      BY <1>8, <2>4, <3>1 DEF Undoable
    <3> HIDE DEF Undone
    <3> QED BY <1>1, <1>2, <2>1, <2>2, <3>1, <3>2, UndoesOn DEF f
  <2> QED BY <2>3, <2>4
<1>9. CASE Undeletable(f, "target") /\ Undone(FALSE) /\ UNCHANGED disk
  <2>1. Steady /\ disk' \in Disk /\ disk'[f] = disk[f]
    BY <1>4, <1>9, UndeletableIsSteady
  <2>2. Undoable(disk'[f], base[f]) /\ disk'[f]["quarantine"] = disk[f]["quarantine"]
    BY <1>4, <2>1
  <2> HIDE DEF Undone
  <2> QED BY <1>1, <1>2, <1>6, <1>9, <2>1, <2>2, UndoesOn DEF f
<1> QED BY <1>7, <1>8, <1>9 DEF UndoTarget, f, displaces

LEMMA UndoReturnKeeps ==
    ASSUME UpdateInv, UndoReturn PROVE UpdateInv'
<1> DEFINE f == Current.file
<1>1. /\ op.who # None /\ op.pc = "return" /\ Undoes /\ Applying /\ op.todo # <<>>
      /\ SetAside(disk[f], base[f])
  BY DEF UndoReturn, At, UpdateInv, Working, Returns, Undoes
<1>2. UNCHANGED <<journal, game, report, base>>
  BY DEF UndoReturn
<1>3. f \in File
  BY <1>1, ApplyingFile
<1>4. env \in Left /\ disk \in Disk /\ "target" \in Slot /\ "backup" \in Slot
  BY <1>1, ApplyingIs
<1> HIDE DEF f
<1>5. CASE Works /\ Move(f, "backup", "target") /\ Undone(TRUE)
  <2>1. /\ disk' \in Disk /\ (\A g \in File \ {f} : disk'[g] = disk[g])
        /\ disk'[f]["target"] = disk[f]["backup"] /\ disk'[f]["backup"] = None
        /\ \A u \in Slot \ {"target", "backup"} : disk'[f][u] = disk[f][u]
    BY <1>3, <1>4, <1>5, MoveIs
  <2>2. disk'[f]["quarantine"] = disk[f]["quarantine"]
    BY <2>1 DEF Slot
  <2>3. InPlace(disk'[f], base[f]) /\ Undoable(disk'[f], base[f])
    BY <1>1, <2>1 DEF InPlace, SetAside, Undoable
  <2>4. Steady
    BY <1>4, <1>5, WorksIsSteady DEF Works
  <2> HIDE DEF Undone
  <2> QED BY <1>1, <1>2, <1>5, <2>1, <2>2, <2>3, <2>4, UndoesOn DEF f
<1>6. CASE Fault /\ Undone(FALSE) /\ UNCHANGED disk
  <2>1. Steady /\ disk' \in Disk /\ disk'[f] = disk[f]
    BY <1>4, <1>6, FaultIsSteady
  <2>2. Undoable(disk'[f], base[f]) /\ disk'[f]["quarantine"] = disk[f]["quarantine"]
    BY <1>1, <2>1 DEF Undoable
  <2>3. \A g \in File \ {f} : disk'[g] = disk[g]
    BY <1>6
  <2> HIDE DEF Undone
  <2> QED BY <1>1, <1>2, <1>6, <2>1, <2>2, <2>3, UndoesOn DEF f
<1> QED BY <1>5, <1>6 DEF UndoReturn, f

LEMMA UndoEndsKeeps ==
    ASSUME UpdateInv, UndoEnds PROVE UpdateInv'
<1>1. op.who # None /\ op.pc = "undo" /\ Undoes /\ Applying /\ op.todo = <<>>
  BY DEF UndoEnds, At, UpdateInv, Working, Undoes
<1>2. UNCHANGED <<disk, base>>
  BY DEF UndoEnds
<1>3. /\ op \in Op /\ env \in Left /\ Data /\ Undecided /\ game.phase # "offered"
      /\ op.who \in {"check", "apply", "helper"}
  BY <1>1, ApplyingIs DEF Op
<1>4. CASE ~ op.whole /\ Fail /\ UNCHANGED <<journal, env>>
  BY <1>1, <1>2, <1>3, <1>4, WorksIsSteady, FailsSafely
<1>5. CASE /\ op.whole
           /\ \/ Works /\ journal' = NoJournal
              \/ Fault /\ UNCHANGED journal
           /\ op' = [op EXCEPT !.pc = "sweep", !.good = "ROLLED_BACK", !.bad = "ROLLED_BACK"]
           /\ UNCHANGED <<game, report>>
  <2>1. AllInPlace
    BY <1>1, <1>5, EmptyList DEF Undoes, AllInPlace
  <2>2. AllBase /\ NoBackups
    BY <2>1, HomeIsBase
  <2>3. Steady
    BY <1>3, <1>5, FaultIsSteady, WorksIsSteady DEF Works
  <2>4. Data'
    <3>1. CASE journal' = NoJournal
      BY <1>2, <1>3, <2>2, <2>3, <3>1, JournalGone
    <3>2. CASE journal' = journal
      BY <1>2, <1>3, <2>3, <3>2, SameDisk, DataStays
    <3> QED BY <1>5, <3>1, <3>2
  <2>5. journal' # NoJournal => Undecided' /\ AllInPlace'
    BY <1>2, <1>3, <1>5, <2>1 DEF Undecided, AllInPlace
  <2>6. AllBase'
    BY <1>2, <2>2 DEF AllBase, Is
  <2>7. /\ op' \in Op /\ op'.pc = "sweep" /\ op'.who = op.who
        /\ op'.good = "ROLLED_BACK" /\ op'.bad = "ROLLED_BACK"
    BY <1>3, <1>5 DEF Op, Pc, Result
  <2>8. Cleans'
    BY <2>5, <2>6, <2>7 DEF Cleans
  <2>9. Working'
    BY <2>7, <2>8 DEF Working
  <2>10. Ends'
    BY <1>1, <1>3, <2>6, <2>7 DEF Ends
  <2> QED BY <1>1, <1>3, <1>5, <2>4, <2>7, <2>9, <2>10, Continues DEF SameGame
<1> QED BY <1>4, <1>5 DEF UndoEnds

-----------------------------------------------------------------------------
(* Cleaning, and staging the next release. *)

LEMMA Cleaning ==
    ASSUME UpdateInv, Cleans
    PROVE  /\ op \in Op /\ env \in Left /\ Data /\ disk \in Disk /\ NoBackups
           /\ journal # NoJournal => Undecided /\ AllInPlace
           /\ AllNew \/ AllBase \/ journal # NoJournal
           /\ game.phase = "offered" => journal = NoJournal
BY HomeIsBase DEF UpdateInv, Data, DataType, Accounted, Cleans, Told

\* A staged file comes or goes.
LEMMA StagedChanges ==
    ASSUME UpdateInv, Cleans \/ journal = NoJournal, UNCHANGED <<journal, base>>, Steady,
           disk' \in Disk,
           \A f \in File : /\ disk'[f]["target"] = disk[f]["target"]
                           /\ disk'[f]["backup"] = disk[f]["backup"]
                           /\ disk'[f]["quarantine"] = disk[f]["quarantine"]
    PROVE  Data' /\ (Undecided => Undecided') /\ (AllInPlace => AllInPlace')
           /\ (AllNew => AllNew') /\ (AllBase => AllBase')
<1>1. /\ journal # NoJournal => Undecided /\ AllInPlace
      /\ Data
  BY Cleaning DEF UpdateInv
<1>2. \A f \in File : InPlace(disk'[f], base'[f]) <=> InPlace(disk[f], base[f])
  BY DEF InPlace
<1>3. (AllNew => AllNew') /\ (AllBase => AllBase') /\ (Cleared => Cleared')
      /\ (NoBackups => NoBackups')
  BY DEF AllNew, AllBase, Is, Cleared, NoBackups
<1>4. (AllInPlace => AllInPlace') /\ (Undecided => Undecided') /\ (Own => Own')
  BY <1>2 DEF AllInPlace, Undecided, Own
<1>5. Outdated => Outdated'
  BY <1>3, <1>4 DEF Outdated
<1>6. DataType'
  BY <1>1 DEF Data, DataType, Steady
<1>7. Accounted'
  <2>1. CASE journal = NoJournal
    <3>1. ~ journal'.committed /\ ~ Undecided'
      BY <2>1 DEF NoJournal, Undecided
    <3> QED BY <1>1, <1>3, <2>1, <3>1 DEF Data, Accounted
  <2>2. CASE journal # NoJournal
    <3>1. Undecided' /\ journal' # NoJournal /\ ~ journal'.committed
      BY <1>1, <1>4, <2>2 DEF Undecided
    <3>2. \A f \in File : InPlace(disk'[f], base'[f]) /\ Undoable(disk'[f], base'[f])
      BY <1>1, <1>2, <2>2 DEF AllInPlace, Undoable
    <3>3. Own' \/ Outdated'
      BY <1>1, <1>4, <1>5, <2>2 DEF Data, Accounted
    <3> QED BY <3>1, <3>2, <3>3 DEF Accounted
  <2> QED BY <2>1, <2>2
<1> QED BY <1>3, <1>4, <1>6, <1>7 DEF Data

LEMMA ReconcileKeeps ==
    ASSUME UpdateInv, Reconcile PROVE UpdateInv'
<1>1. op.who # None /\ op.pc = "reconcile" /\ Cleans
  BY DEF Reconcile, At, UpdateInv, Working
<1>2. UNCHANGED <<journal, base>> /\ env' = env
  BY DEF Reconcile, Works
<1>3. /\ op \in Op /\ env \in Left /\ Data /\ disk \in Disk /\ NoBackups
      /\ (game.phase = "offered" => journal = NoJournal) /\ Steady
  BY <1>1, <1>2, Cleaning, WorksIsSteady
<1>4. SameFiles
  <2>1. \A f \in File : ~ Has(f, "backup")
    BY <1>3 DEF NoBackups, Has
  <2>2. disk' = [f \in File |-> disk[f]]
    BY <2>1 DEF Reconcile
  <2> QED BY <1>3, <2>2 DEF SameFiles, Disk
<1>5. Data' /\ (AllNew <=> AllNew') /\ (AllBase <=> AllBase') /\ (AllInPlace <=> AllInPlace')
  BY <1>2, <1>3, <1>4, DataStays
<1>6. CASE By("stage") /\ Succeed
  <2>1. op.who = "stage" /\ End(op.good) /\ op.good \in {"restart", "check"} /\ op.good \in Result
    BY <1>3, <1>6 DEF By, Succeed, UpdateInv, Ends, Op
  <2> QED BY <1>1, <1>5, <2>1, Stops
<1>7. CASE Goto("sweep") /\ UNCHANGED <<game, report>>
  <2>1. /\ op' \in Op /\ op'.pc = "sweep" /\ op'.who = op.who
        /\ op'.good = op.good /\ op'.bad = op.bad
    BY <1>3, <1>7, GotoIs DEF Pc
  <2>2. Undecided => Undecided'
    BY <1>2 DEF Undecided
  <2>3. Cleans'
    BY <1>1, <1>2, <1>5, <2>1, <2>2 DEF Cleans
  <2>4. Working' /\ Ends'
    BY <1>1, <2>1, <2>3, EndsStay DEF Working
  <2> QED BY <1>1, <1>2, <1>3, <1>5, <1>7, <2>1, <2>4, Continues DEF SameGame
<1> QED BY <1>6, <1>7 DEF Reconcile

LEMMA SweepOneKeeps ==
    ASSUME UpdateInv, SweepOne PROVE UpdateInv'
<1>1. op.who # None /\ op.pc = "sweep" /\ Cleans
  BY DEF SweepOne, At, UpdateInv, Working
<1>2. base' = base
  BY DEF SweepOne
<1>3. /\ op \in Op /\ env \in Left /\ Data /\ disk \in Disk /\ NoBackups
      /\ (journal # NoJournal => Undecided /\ AllInPlace)
      /\ (game.phase = "offered" => journal = NoJournal)
  BY <1>1, Cleaning
<1>4. ASSUME UNCHANGED <<op, game, report>>, Data', AllNew => AllNew', AllBase => AllBase',
             journal' # NoJournal => Undecided' /\ AllInPlace',
             journal' = journal \/ journal' = NoJournal
      PROVE  UpdateInv'
  <2>1. Cleans'
    BY <1>1, <1>4 DEF Cleans
  <2>2. Working'
    BY <1>1, <1>4, <2>1 DEF Working
  <2>3. Ends' /\ op' \in Op
    BY <1>1, <1>3, <1>4 DEF UpdateInv, Ends
  <2> QED BY <1>1, <1>3, <1>4, <2>2, <2>3, Continues DEF SameGame
<1>5. CASE Works /\ (\E f \in File : Drop(f, "staged")) /\ UNCHANGED <<journal, op, game, report>>
  <2>1. PICK f \in File : Put(f, "staged", None)
    BY <1>5 DEF Drop
  <2>2. "staged" \in Slot /\ None \in Content
    BY DEF Slot, Content
  <2>3. /\ disk' \in Disk /\ (\A g \in File \ {f} : disk'[g] = disk[g])
        /\ \A u \in Slot \ {"staged"} : disk'[f][u] = disk[f][u]
    BY <1>3, <2>1, <2>2, PutIs
  <2>4. \A g \in File : /\ disk'[g]["target"] = disk[g]["target"]
                        /\ disk'[g]["backup"] = disk[g]["backup"]
                        /\ disk'[g]["quarantine"] = disk[g]["quarantine"]
    BY <2>3 DEF Slot
  <2>5. Steady
    BY <1>3, <1>5, WorksIsSteady DEF Works
  <2>6. Data' /\ (Undecided => Undecided') /\ (AllInPlace => AllInPlace')
        /\ (AllNew => AllNew') /\ (AllBase => AllBase')
    BY <1>1, <1>2, <1>5, <2>3, <2>4, <2>5, StagedChanges
  <2> QED BY <1>3, <1>4, <1>5, <2>6
<1>6. CASE Works /\ journal # NoJournal /\ journal' = NoJournal /\ UNCHANGED <<disk, op, game, report>>
  <2>1. Steady /\ AllBase
    BY <1>3, <1>6, WorksIsSteady, HomeIsBase DEF Works
  <2>2. Data'
    BY <1>2, <1>3, <1>6, <2>1, JournalGone
  <2>3. (AllNew => AllNew') /\ (AllBase => AllBase')
    BY <1>2, <1>6 DEF AllNew, AllBase, Is
  <2> QED BY <1>4, <1>6, <2>2, <2>3
<1>7. CASE Fault /\ Fail /\ UNCHANGED <<disk, journal>>
  BY <1>1, <1>2, <1>3, <1>7, FaultIsSteady, FailsSafely
<1> QED BY <1>5, <1>6, <1>7 DEF SweepOne

LEMMA SweepEndsKeeps ==
    ASSUME UpdateInv, SweepEnds PROVE UpdateInv'
<1>1. /\ op.who # None /\ op.pc = "sweep" /\ Cleans /\ journal = NoJournal
      /\ UNCHANGED <<disk, journal, base, env>>
  BY DEF SweepEnds, At, UpdateInv, Working
<1>2. op \in Op /\ env \in Left /\ Data
  BY <1>1, Cleaning
<1>3. Data' /\ (AllNew <=> AllNew') /\ (AllBase <=> AllBase')
  BY <1>1, <1>2, WorksIsSteady, SameDisk, DataStays
<1>4. CASE By("stage") /\ op.good = "restart" /\ Goto("staging") /\ UNCHANGED <<game, report>>
  <2>1. /\ op' \in Op /\ op'.pc = "staging" /\ op'.who = op.who
        /\ op'.good = op.good /\ op'.bad = op.bad
    BY <1>2, <1>4, GotoIs DEF Pc
  <2>2. Stages'
    BY <1>1, <1>4, <2>1 DEF Stages, By
  <2>3. Working'
    BY <2>1, <2>2 DEF Working
  <2>4. Ends'
    BY <1>1, <1>4, <2>1 DEF UpdateInv, Ends, By
  <2> QED BY <1>1, <1>3, <1>4, <2>1, <2>3, <2>4, Continues DEF SameGame
<1>5. CASE Succeed
  <2>1. op.good \in Result /\ End(op.good)
    BY <1>2, <1>5 DEF Op, Succeed
  <2>2. (op.good = "UPDATED" => AllNew') /\ (op.good = "ROLLED_BACK" => AllBase')
        /\ journal' = NoJournal
    BY <1>1, <1>3 DEF Cleans
  <2> QED BY <1>1, <1>3, <2>1, <2>2, Stops
<1> QED BY <1>4, <1>5 DEF SweepEnds

\* The staged files are discarded again.
LEMMA DiscardKeeps ==
    ASSUME UpdateInv, op.who # None, Stages, op.pc # "sweep", Discard, Steady,
           UNCHANGED <<disk, journal, game, report, base>>
    PROVE  UpdateInv'
<1>1. /\ op \in Op /\ Data /\ op.bad = "check" /\ op.who = "stage" /\ journal = NoJournal
  BY DEF UpdateInv, Stages, Ends
<1>2. Data'
  BY <1>1, SameDisk, DataStays
<1>3. /\ op' \in Op /\ op'.pc = "sweep" /\ op'.who = op.who
      /\ op'.good = "check" /\ op'.bad = "check"
  BY <1>1 DEF Discard, Op, Pc
<1>4. Cleans'
  BY <1>1, <1>3 DEF Cleans
<1>5. Working'
  BY <1>3, <1>4 DEF Working
<1>6. Ends'
  BY <1>1, <1>3 DEF UpdateInv, Ends, None
<1> QED BY <1>1, <1>2, <1>3, <1>5, <1>6, Continues DEF SameGame

LEMMA StageKeeps ==
    ASSUME UpdateInv, Stage PROVE UpdateInv'
<1>1. op.who # None /\ op.pc = "staging" /\ Stages /\ journal = NoJournal
  BY DEF Stage, At, UpdateInv, Working, Stages
<1>2. UNCHANGED <<journal, game, report, base>>
  BY DEF Stage
<1>3. op \in Op /\ env \in Left /\ disk \in Disk
  BY DEF UpdateInv, Data, DataType
<1>4. CASE Works /\ disk' = [f \in File |-> [disk[f] EXCEPT !["staged"] = "new"]] /\ Goto("write")
  <2>1. /\ disk' \in Disk
        /\ \A f \in File : /\ disk'[f]["target"] = disk[f]["target"]
                           /\ disk'[f]["backup"] = disk[f]["backup"]
                           /\ disk'[f]["quarantine"] = disk[f]["quarantine"]
    <3> DEFINE d(f) == [disk[f] EXCEPT !["staged"] = "new"]
    <3>1. ASSUME NEW f \in File
          PROVE  /\ d(f) \in [Slot \cup {"mapped"} -> Content \cup Slot]
                 /\ d(f)["target"] = disk[f]["target"] /\ d(f)["backup"] = disk[f]["backup"]
                 /\ d(f)["quarantine"] = disk[f]["quarantine"]
      <4>1. disk[f] \in [Slot \cup {"mapped"} -> Content \cup Slot]
        BY <1>3 DEF Disk
      <4> QED BY <4>1 DEF Slot, Content
    <3>2. disk' = [f \in File |-> d(f)]
      BY <1>4
    <3> HIDE DEF d
    <3> QED BY <3>1, <3>2 DEF Disk
  <2>2. Steady
    BY <1>3, <1>4, WorksIsSteady DEF Works
  <2>3. Data'
    BY <1>1, <1>2, <2>1, <2>2, StagedChanges
  <2>4. /\ op' \in Op /\ op'.pc = "write" /\ op'.who = op.who
        /\ op'.good = op.good /\ op'.bad = op.bad
    BY <1>3, <1>4, GotoIs DEF Pc
  <2>5. Stages'
    BY <1>1, <1>2, <2>4 DEF Stages
  <2>6. Working' /\ Ends'
    BY <1>1, <2>4, <2>5, EndsStay DEF Working
  <2> QED BY <1>1, <1>2, <2>3, <2>4, <2>6, Continues DEF SameGame
<1>5. CASE (Fault \/ UNCHANGED env) /\ Discard /\ UNCHANGED disk
  BY <1>1, <1>2, <1>3, <1>5, FaultIsSteady, WorksIsSteady, DiscardKeeps
<1> QED BY <1>4, <1>5 DEF Stage

LEMMA WriteJournalKeeps ==
    ASSUME UpdateInv, WriteJournal PROVE UpdateInv'
<1>1. /\ op.who # None /\ op.pc = "write" /\ Stages /\ journal = NoJournal /\ op.who = "stage"
      /\ op.good = "restart"
  BY DEF WriteJournal, At, UpdateInv, Working, Stages
<1>2. disk' = disk
  BY DEF WriteJournal
<1>3. /\ op \in Op /\ env \in Left /\ disk \in Disk /\ NoBackups /\ (AllNew \/ AllBase)
      /\ base \in [File -> Content \ {"bad"}] /\ (MaxStrangers # 0 => \A f \in File : base[f] # None)
  BY <1>1 DEF UpdateInv, Data, DataType, Accounted
<1>4. CASE /\ Works
           /\ journal' = [version |-> 3, committed |-> FALSE, entries |-> AllEntries,
                          original |-> [f \in File |-> disk[f]["target"]]]
           /\ base' = [f \in File |-> disk[f]["target"]]
           /\ Succeed
  <2>1. \A f \in File : /\ disk[f]["target"] \in Content \ {"bad"}
                        /\ MaxStrangers # 0 => disk[f]["target"] # None
    <3>1. CASE AllNew
      BY <3>1 DEF AllNew, Is, Content, None
    <3>2. CASE AllBase
      BY <1>3, <3>2 DEF AllBase, Is
    <3> QED BY <1>3, <3>1, <3>2
  <2>2. /\ base' \in [File -> Content \ {"bad"}] /\ journal'.original = base'
        /\ \A f \in File : base'[f] = disk'[f]["target"]
    BY <1>2, <1>4, <2>1
  <2>3. /\ journal'.version = 3 /\ journal'.committed = FALSE /\ journal'.entries = AllEntries
        /\ journal' # NoJournal
    BY <1>4 DEF NoJournal
  <2>4. journal' \in Journal
    <3>1. [f \in File |-> disk[f]["target"]] \in [File -> Content]
      BY <2>1
    <3> QED BY <1>4, <3>1, AllAreListed DEF Journal
  <2>5. Steady
    BY <1>3, <1>4, WorksIsSteady DEF Works
  <2>6. DataType'
    <3>1. \A f \in File : MaxStrangers # 0 => base'[f] # None
      BY <1>2, <2>1, <2>2
    <3>2. journal'.original \in [File -> Content]
      BY <2>2
    <3> QED BY <1>2, <1>3, <2>2, <2>3, <2>4, <2>5, <3>1, <3>2, AllAreListed DEF DataType, Steady
  <2>7. \A f \in File : InPlace(disk'[f], base'[f]) /\ Undoable(disk'[f], base'[f])
    BY <1>2, <1>3, <2>2 DEF InPlace, Undoable, NoBackups
  <2>8. Undecided' /\ Own'
    BY <2>2, <2>3 DEF Undecided, Own
  <2>9. Data'
    BY <2>3, <2>6, <2>7, <2>8 DEF Data, Accounted
  <2>10. End("restart") /\ "restart" \in Result
    BY <1>1, <1>4 DEF Succeed, Result
  <2> QED BY <1>1, <2>9, <2>10, Stops
<1>5. CASE Fault /\ Discard /\ UNCHANGED <<journal, game, report, base>>
  BY <1>1, <1>2, <1>3, <1>5, FaultIsSteady, DiscardKeeps
<1> QED BY <1>4, <1>5 DEF WriteJournal

-----------------------------------------------------------------------------
(* What happens around an operation. *)

\* An operation does not notice that a game starts or stops.
LEMMA WorksOn ==
    ASSUME UpdateInv, SameFiles, UNCHANGED <<journal, op, base, env>>
    PROVE  Data' /\ Ends' /\ Working' /\ op' \in Op /\ (report' = report => ReportIsTrue')
<1>1. /\ Data /\ op \in Op /\ env \in Left /\ Ends /\ Working /\ ReportIsTrue
  BY DEF UpdateInv, Data, DataType, Told
<1>2. /\ Data' /\ (AllNew <=> AllNew') /\ (AllBase <=> AllBase') /\ (AllInPlace <=> AllInPlace')
      /\ (TargetsAreComplete <=> TargetsAreComplete')
  BY <1>1, WorksIsSteady, DataStays
<1>3. /\ \A f \in File : disk'[f]["target"] = disk[f]["target"]
      /\ \A f \in File : disk'[f]["backup"] = disk[f]["backup"]
      /\ \A f \in File : disk'[f]["quarantine"] = disk[f]["quarantine"]
      /\ \A f \in File : disk'[f]["staged"] = disk[f]["staged"]
  BY DEF SameFiles, Slot
<1>4. op' = op /\ journal' = journal /\ base' = base /\ Current' = Current
  BY DEF Current
<1>5. \A f \in File :
        /\ InPlace(disk'[f], base'[f]) <=> InPlace(disk[f], base[f])
        /\ SetAside(disk'[f], base'[f]) <=> SetAside(disk[f], base[f])
        /\ Replaced(disk'[f], base'[f]) <=> Replaced(disk[f], base[f])
        /\ Kept(disk'[f], base'[f]) <=> Kept(disk[f], base[f])
        /\ Awaited(f)' <=> Awaited(f)
        /\ Exchanged(f)' <=> Exchanged(f)
  BY <1>3, <1>4 DEF InPlace, SetAside, Replaced, Kept, Spent, Awaited, Exchanged
<1>6. (Undecided <=> Undecided') /\ (Own <=> Own') /\ (Unwalked <=> Unwalked')
      /\ (Cleared <=> Cleared') /\ (Outdated <=> Outdated')
  BY <1>2, <1>3, <1>4 DEF Undecided, Own, Unwalked, Cleared, Outdated
<1>7. op.todo # <<>> => Current.file \in File
  BY <1>1, HeadAndTail DEF Op, Current
<1>8. \A s : Listed(s)' = Listed(s) /\ Named(s)' = Named(s) /\ Apart(s)' = Apart(s)
  BY DEF Listed, Named, Apart
<1>9. Applying <=> Applying'
  BY <1>4, <1>6 DEF Applying
<1>10. Asides => Asides'
  BY <1>4, <1>5, <1>9 DEF Asides
<1>11. Installs => Installs'
  <2> SUFFICES ASSUME Installs PROVE Installs'
    OBVIOUS
  <2> DEFINE f == Current.file
  <2>1. f \in File
    BY <1>7 DEF Installs
  <2>2. /\ disk'[f]["staged"] = "new"
        /\ \/ SetAside(disk'[f], base'[f])
           \/ InPlace(disk'[f], base'[f]) /\ base'[f] = None
    BY <1>3, <1>4, <1>5, <2>1 DEF Installs
  <2>3. \A g \in File \ {f} : IF g \in Listed(op.todo) THEN Awaited(g)' ELSE Exchanged(g)'
    BY <1>5 DEF Installs
  <2>4. Applying' /\ op'.todo # <<>>
    BY <1>4, <1>9 DEF Installs
  <2> HIDE DEF f
  <2> QED BY <1>4, <2>2, <2>3, <2>4 DEF Installs, f
<1>12. Undoes => Undoes'
  BY <1>4, <1>5, <1>9 DEF Undoes
<1>13. Returns => Returns'
  BY <1>4, <1>5, <1>7, <1>12 DEF Returns
<1>14. Walks => Walks'
  <2> SUFFICES ASSUME Walks PROVE Walks'
    OBVIOUS
  <2>1. op.whole => \A f \in File :
          f \in Named(op.todo) \/ f \in Named(op.unresolved) \/ InPlace(disk'[f], base'[f])
    BY <1>5 DEF Walks
  <2>2. \A f \in Listed(op.cleanup) : Kept(disk'[f], base'[f])
    <3>1. Listed(op.cleanup) \subseteq File
      BY <1>1, ListedIs DEF Op
    <3> QED BY <1>5, <3>1 DEF Walks
  <2> QED BY <1>4, <1>6, <2>1, <2>2 DEF Walks
<1>15. Handles => Handles'
  BY <1>4, <1>14 DEF Handles
<1>16. Restores => Restores'
  <2> SUFFICES ASSUME Restores PROVE Restores'
    OBVIOUS
  <2>1. Current.file \in File
    BY <1>7 DEF Restores, Handles
  <2> QED BY <1>3, <1>4, <1>5, <1>15, <2>1 DEF Restores
<1>17. Releases => Releases'
  <2> SUFFICES ASSUME Releases PROVE Releases'
    OBVIOUS
  <2>1. Current.file \in File
    BY <1>7 DEF Releases, Handles
  <2> QED BY <1>4, <1>5, <1>15, <2>1 DEF Releases
<1>18. ASSUME NEW s \in Seq(Entry), op.todo # <<>>, \A f \in Listed(s) : Kept(disk[f], base[f])
       PROVE  \A f \in Listed(s) : Kept(disk'[f], base'[f])
  <2>1. Listed(s) \subseteq File
    BY ListedIs
  <2> QED BY <1>5, <1>18, <2>1
<1>19. Reverts(op.todo) => Reverts(op.todo)'
  <2>1. op.todo \in Seq(Entry)
    BY <1>1 DEF Op
  <2> QED BY <1>4, <1>6, <1>18, <2>1 DEF Reverts
<1>20. Reinstates => Reinstates'
  <2> SUFFICES ASSUME Reinstates PROVE Reinstates'
    OBVIOUS
  <2>1. Current.file \in File /\ op.todo # <<>> /\ op.todo \in Seq(Entry)
    BY <1>1, <1>7 DEF Reinstates, Reverts, Op
  <2>2. Tail(op.todo) \in Seq(Entry)
    BY <2>1, HeadAndTail
  <2>3. Reverts(Tail(op.todo))'
    BY <1>4, <1>6, <1>18, <2>1, <2>2 DEF Reinstates, Reverts
  <2> QED BY <1>3, <1>4, <1>5, <2>1, <2>3 DEF Reinstates
<1>21. (Reads => Reads') /\ (Verifies => Verifies') /\ (Cleans => Cleans') /\ (Stages => Stages')
  BY <1>2, <1>4, <1>6 DEF Reads, Verifies, Cleans, Stages
<1>22. Deletes => Deletes'
  BY <1>2, <1>3, <1>4 DEF Deletes
<1>23. Working'
  BY <1>1, <1>4, <1>10, <1>11, <1>12, <1>13, <1>14, <1>16, <1>17, <1>19, <1>20, <1>21, <1>22
     DEF Working
<1>24. Ends'
  BY <1>1, <1>2, <1>4 DEF Ends
<1> QED BY <1>1, <1>2, <1>4, <1>23, <1>24 DEF ReportIsTrue

LEMMA UnmappedKeeps == ASSUME disk \in Disk, Unmapped PROVE SameFiles
<1> DEFINE m == [f \in File |-> None]
<1>1. m \in [File -> Content \cup Slot]
  BY DEF Content
<1>2. disk' = [f \in File |-> [disk[f] EXCEPT !["mapped"] = m[f]]]
  BY DEF Unmapped
<1> HIDE DEF m
<1> QED BY <1>1, <1>2, UnmappedIs

LEMMA GameStartKeeps ==
    ASSUME UpdateInv, GameStart PROVE UpdateInv'
<1> DEFINE m == [f \in File |-> IF Has(f, "target") THEN "target" ELSE None]
<1>1. disk \in Disk
  BY DEF UpdateInv, Data, DataType
<1>2. m \in [File -> Content \cup Slot]
  BY DEF Content, Slot
<1>3. disk' = [f \in File |-> [disk[f] EXCEPT !["mapped"] = m[f]]]
  BY DEF GameStart
<1> HIDE DEF m
<1>4. SameFiles
  BY <1>1, <1>2, <1>3, UnmappedIs
<1>5. UNCHANGED <<journal, op, report, base, env>>
  BY DEF GameStart
<1>6. Data' /\ Ends' /\ Working' /\ op' \in Op /\ ReportIsTrue'
  BY <1>4, <1>5, WorksOn
<1>7. game' \in Game /\ game'.phase = "check"
  BY DEF GameStart, Closed, Game, Result, Is
<1> QED BY <1>5, <1>6, <1>7 DEF UpdateInv, Told

LEMMA ClosedIs == Closed \in Game /\ Closed.phase = "check"
BY DEF Closed, Game, Result

LEMMA GameExitKeeps ==
    ASSUME UpdateInv, GameExit PROVE UpdateInv'
<1>1. SameFiles /\ UNCHANGED <<journal, op, report, base, env>> /\ game' = Closed
  BY UnmappedKeeps DEF GameExit, UpdateInv, Data, DataType
<1>2. Data' /\ Ends' /\ Working' /\ op' \in Op /\ ReportIsTrue'
  BY <1>1, WorksOn
<1> QED BY <1>1, <1>2, ClosedIs DEF UpdateInv, Told

\* What an operation finds.
LEMMA StagedIs ==
    ASSUME Data
    PROVE  /\ Staged = "none" <=> journal = NoJournal
           /\ Staged \in {"none", "interrupted", "pristine", "stale"}
           /\ Staged \in {"pristine", "stale"} =>
                 Undecided /\ AllInPlace /\ Cleared /\ journal.version = 3
           /\ Staged = "pristine" => Own /\ \A f \in File : Awaited(f)
<1>1. (Staged = "none" <=> journal = NoJournal)
      /\ Staged \in {"none", "interrupted", "pristine", "stale"}
  BY DEF Staged
<1>2. ASSUME Staged \in {"pristine", "stale"}
      PROVE  Undecided /\ AllInPlace /\ Cleared /\ journal.version = 3
  <2>1. journal # NoJournal /\ ~ (journal.version < 3) /\ ~ journal.committed /\ ~ Mutated
    BY <1>2 DEF Staged
  <2>2. Undecided
    BY <2>1 DEF Undecided
  <2>3. journal.version = 3
    <3>1. journal.version \in {0, 2, 3} /\ journal.version # 0
      BY <2>1 DEF Data, DataType, Journal
    <3> QED BY <2>1, <3>1
  <2>4. \A f \in File : /\ disk[f]["backup"] = None /\ disk[f]["quarantine"] = None
                        /\ disk[f]["staged"] # None \/ disk[f]["target"] # "new"
    BY <2>1 DEF Mutated, Has, Is
  <2>5. ASSUME NEW f \in File PROVE InPlace(disk[f], base[f])
    <3>1. Undoable(disk[f], base[f])
      BY <2>2 DEF Data, Accounted, Outdated, AllInPlace, Undoable
    <3>2. /\ disk[f]["backup"] = None
          /\ disk[f]["staged"] # None \/ disk[f]["target"] # "new"
      BY <2>4
    <3> QED BY <3>1, <3>2 DEF Undoable, SetAside, Replaced, Fresh, Spent
  <2> QED BY <2>2, <2>3, <2>4, <2>5 DEF AllInPlace, Cleared
<1>3. ASSUME Staged = "pristine" PROVE Own /\ \A f \in File : Awaited(f)
  <2>1. Pristine /\ AllInPlace /\ Undecided
    BY <1>2, <1>3 DEF Staged
  <2>2. \A f \in File : disk[f]["staged"] = "new" /\ disk[f]["target"] = journal.original[f]
    BY <2>1 DEF Pristine, Is
  <2>3. \A f \in File : journal.original[f] = base[f]
    BY <2>1, <2>2 DEF AllInPlace, InPlace
  <2>4. journal.original \in [File -> Content] /\ base \in [File -> Content \ {"bad"}]
    BY <2>1 DEF Data, DataType, Undecided
  <2>5. Own
    BY <2>3, <2>4 DEF Own
  <2> QED BY <2>1, <2>2, <2>5 DEF AllInPlace, Awaited
<1> QED BY <1>1, <1>2, <1>3

LEMMA NoOpIs ==
    /\ NoOp \in Op /\ NoOp.who = None /\ NoOp.todo = <<>> /\ NoOp.unresolved = <<>>
    /\ NoOp.cleanup = <<>> /\ NoOp.quarantined = FALSE /\ NoOp.good = None /\ NoOp.bad = None
BY EmptyList DEF NoOp, Op, Pc, Result

LEMMA CheckKeeps ==
    ASSUME UpdateInv, Check PROVE UpdateInv'
<1>1. /\ op = NoOp /\ report' = None /\ UNCHANGED <<disk, journal, base, env>>
      /\ Data /\ disk \in Disk /\ env \in Left /\ game \in Game /\ game.phase # "offered"
  BY DEF Check, UpdateInv, Data, DataType, Told
<1>2. Data' /\ (AllInPlace <=> AllInPlace')
  BY <1>1, WorksIsSteady, SameDisk, DataStays
<1>3. ReportIsTrue'
  BY <1>1 DEF ReportIsTrue, None
<1>4. CASE /\ Staged = "pristine" /\ game' = [game EXCEPT !.restart = TRUE, !.phase = "restart"]
           /\ UNCHANGED op
  <2>1. game' \in Game /\ game'.phase # "offered"
    BY <1>1, <1>4 DEF Game, Result
  <2>2. op' \in Op /\ Ends' /\ Working'
    BY <1>1, <1>4, NoOpWorks
  <2> QED BY <1>1, <1>2, <1>3, <2>1, <2>2 DEF UpdateInv, Told
<1>5. CASE /\ Staged # "pristine"
           /\ op' = [NoOp EXCEPT !.who = "check", !.bad = "check",
                        !.pc = IF Staged = "stale" THEN "reconcile" ELSE "journal",
                        !.good = IF game.old THEN "offered" ELSE "latest"]
           /\ UNCHANGED game
  <2>1. /\ op' \in Op /\ op'.who = "check" /\ op'.bad = "check"
        /\ op'.pc = (IF Staged = "stale" THEN "reconcile" ELSE "journal")
        /\ op'.good \in {"offered", "latest"}
        /\ op'.unresolved = <<>> /\ op'.cleanup = <<>> /\ op'.quarantined = FALSE
    BY <1>5, NoOpIs DEF Op, Pc, Result
  <2>2. Staged = "stale" => Cleans'
    <3>1. Staged = "stale" => Undecided' /\ AllInPlace'
      BY <1>1, <1>2, StagedIs DEF Undecided
    <3> QED BY <2>1, <3>1 DEF Cleans
  <2>3. Reads'
    BY <2>1 DEF Reads, Unwalked
  <2>4. Working'
    BY <2>1, <2>2, <2>3 DEF Working
  <2>5. Ends'
    BY <2>1 DEF Ends, None
  <2> QED BY <1>1, <1>2, <1>3, <1>5, <2>1, <2>4, <2>5 DEF UpdateInv, Told
<1> QED BY <1>4, <1>5 DEF Check

LEMMA ApplyKeeps ==
    ASSUME UpdateInv, Apply PROVE UpdateInv'
<1>1. /\ op = NoOp /\ report' = None /\ UNCHANGED <<disk, journal, game, base, env>>
      /\ Data /\ env \in Left
      /\ op' = [NoOp EXCEPT !.who = "stage", !.pc = "journal", !.good = "restart", !.bad = "check"]
  BY DEF Apply, UpdateInv, Data, DataType
<1>2. Data'
  BY <1>1, WorksIsSteady, SameDisk, DataStays
<1>3. ReportIsTrue'
  BY <1>1 DEF ReportIsTrue, None
<1>4. /\ op' \in Op /\ op'.who = "stage" /\ op'.bad = "check" /\ op'.pc = "journal"
      /\ op'.good = "restart"
      /\ op'.unresolved = <<>> /\ op'.cleanup = <<>> /\ op'.quarantined = FALSE
  BY <1>1, NoOpIs DEF Op, Pc, Result
<1>5. Reads'
  BY <1>4 DEF Reads, Unwalked
<1>6. Working' /\ Ends'
  BY <1>4, <1>5 DEF Working, Ends, None
<1> QED BY <1>1, <1>2, <1>3, <1>4, <1>6 DEF UpdateInv, Told

\* The helper starts on what it finds.
LEMMA ServiceKeeps ==
    ASSUME UpdateInv, Service, SameFiles, game' \in {game, Closed} PROVE UpdateInv'
<1>1. /\ op = NoOp /\ op' = HelperOp /\ report' = None /\ UNCHANGED <<journal, base, env>>
      /\ Data /\ env \in Left
  BY DEF Service, UpdateInv, Data, DataType
<1>2. Data' /\ (AllInPlace <=> AllInPlace') /\ (TargetsAreComplete <=> TargetsAreComplete')
  BY <1>1, WorksIsSteady, DataStays
<1>3. ReportIsTrue'
  BY <1>1 DEF ReportIsTrue, None
<1>4. CASE Staged = "pristine"
  <2>1. op' = [NoOp EXCEPT !.who = "apply", !.pc = "aside", !.todo = AllEntries,
                           !.good = "UPDATED", !.bad = "BLOCKED"]
    BY <1>1, <1>4 DEF HelperOp
  <2>2. /\ op' \in Op /\ op'.who = "apply" /\ op'.bad = "BLOCKED" /\ op'.pc = "aside"
        /\ op'.good = "UPDATED" /\ op'.todo = AllEntries
        /\ op'.unresolved = <<>> /\ op'.cleanup = <<>> /\ op'.quarantined = FALSE
    BY <2>1, NoOpIs, AllAreListed DEF Op, Pc, Result
  <2>3. Undecided /\ Own /\ Cleared /\ journal.version = 3 /\ \A f \in File : Awaited(f)
    BY <1>1, <1>4, StagedIs
  <2>4. Undecided' /\ Own' /\ Cleared' /\ journal'.version = 3 /\ \A f \in File : Awaited(f)'
    BY <1>1, <2>3 DEF Undecided, Own, Cleared, Awaited, InPlace, SameFiles, Slot
  <2>5. Asides'
    BY <2>2, <2>4, AllAreListed DEF Asides, Applying, Unwalked
  <2>6. Working' /\ Ends'
    BY <2>2, <2>5 DEF Working, Ends, None
  <2> QED BY <1>1, <1>2, <1>3, <2>2, <2>6, ClosedIs DEF UpdateInv, Told
<1>5. CASE Staged = "interrupted"
  <2>1. op' = [NoOp EXCEPT !.who = "helper", !.pc = "journal", !.bad = "BLOCKED",
                         !.good = IF TargetsAreComplete THEN "UPDATED" ELSE "ROLLED_BACK"]
    BY <1>1, <1>5 DEF HelperOp
  <2>2. /\ op' \in Op /\ op'.who = "helper" /\ op'.bad = "BLOCKED" /\ op'.pc = "journal"
        /\ op'.good = (IF TargetsAreComplete THEN "UPDATED" ELSE "ROLLED_BACK")
        /\ op'.unresolved = <<>> /\ op'.cleanup = <<>> /\ op'.quarantined = FALSE
    BY <2>1, NoOpIs DEF Op, Pc, Result
  <2>3. journal' # NoJournal
    BY <1>1, <1>5, StagedIs
  <2>4. Reads'
    BY <1>2, <2>2, <2>3 DEF Reads, Unwalked
  <2>5. Working' /\ Ends'
    BY <2>2, <2>4 DEF Working, Ends, None
  <2> QED BY <1>1, <1>2, <1>3, <2>2, <2>5, ClosedIs DEF UpdateInv, Told
<1>6. CASE Staged \notin {"pristine", "interrupted"}
  <2>1. op' = [NoOp EXCEPT !.who = "helper", !.pc = "reconcile",
                           !.good = "READY", !.bad = "BLOCKED"]
    BY <1>1, <1>6 DEF HelperOp
  <2>2. /\ op' \in Op /\ op'.who = "helper" /\ op'.bad = "BLOCKED" /\ op'.pc = "reconcile"
        /\ op'.good = "READY"
    BY <2>1, NoOpIs DEF Op, Pc, Result
  <2>3. journal # NoJournal => Undecided /\ AllInPlace
    BY <1>1, <1>6, StagedIs
  <2>4. Cleans'
    BY <1>1, <1>2, <2>2, <2>3 DEF Cleans, Undecided
  <2>5. Working' /\ Ends'
    BY <2>2, <2>4 DEF Working, Ends, None
  <2> QED BY <1>1, <1>2, <1>3, <2>2, <2>5, ClosedIs DEF UpdateInv, Told
<1> QED BY <1>4, <1>5, <1>6

LEMMA HelperKeeps ==
    ASSUME UpdateInv, RecoverOnly \/ Handoff PROVE UpdateInv'
<1>1. Data /\ disk \in Disk
  BY DEF UpdateInv, Data, DataType
<1>2. CASE RecoverOnly
  BY <1>1, <1>2, SameDisk, ServiceKeeps DEF RecoverOnly
<1>3. CASE Handoff
  BY <1>1, <1>3, UnmappedKeeps, ServiceKeeps DEF Handoff
<1> QED BY <1>2, <1>3

LEMMA CrashKeeps ==
    ASSUME UpdateInv, Crash PROVE UpdateInv'
<1>1. /\ op # NoOp /\ op' = NoOp /\ UNCHANGED <<journal, report, base>>
      /\ Data /\ disk \in Disk /\ env \in Left /\ game \in Game
      /\ report = None /\ (game.phase = "offered" => journal = NoJournal)
  BY DEF Crash, UpdateInv, Data, DataType, Told
<1>2. SameFiles /\ game' \in {game, Closed}
  BY <1>1, UnmappedKeeps, SameDisk DEF Crash
<1>3. Steady
  <2>1. env.crashes - 1 \in Nat
    BY <1>1 DEF Crash, Left
  <2> QED BY <1>1, <2>1 DEF Crash, Left, Steady
<1>4. Data'
  BY <1>1, <1>2, <1>3, DataStays
<1>5. op' \in Op /\ Ends' /\ Working'
  BY <1>1, NoOpWorks
<1>6. ReportIsTrue'
  BY <1>1 DEF ReportIsTrue, None
<1> QED BY <1>1, <1>2, <1>4, <1>5, <1>6, ClosedIs DEF UpdateInv, Told

LEMMA StrangerKeeps ==
    ASSUME UpdateInv, NEW f \in File, Stranger(f) PROVE UpdateInv'
<1>1. /\ op = NoOp /\ Staged # "interrupted" /\ env.strangers > 0
      /\ env' = [env EXCEPT !.strangers = env.strangers - 1]
      /\ Put(f, "target", "other")
      /\ base' = [g \in File |-> IF g = f THEN "other" ELSE disk[g]["target"]]
      /\ report' = None /\ UNCHANGED <<journal, op, game>>
      /\ Data /\ disk \in Disk /\ env \in Left
      /\ base \in [File -> Content \ {"bad"}]
  BY DEF Stranger, UpdateInv, Data, DataType
<1>2. env' \in Left /\ MaxStrangers # 0
  <2>1. env.strangers \in 0 .. MaxStrangers /\ MaxStrangers \in Nat
    BY <1>1, UpdateAssumption DEF Left
  <2>2. env.strangers - 1 \in 0 .. MaxStrangers /\ MaxStrangers # 0
    BY <1>1, <2>1
  <2> QED BY <1>1, <2>2 DEF Left
<1>3. "target" \in Slot /\ "other" \in Content
  BY DEF Slot, Content
<1>4. /\ disk' \in Disk /\ (\A g \in File \ {f} : disk'[g] = disk[g])
      /\ disk'[f]["target"] = "other"
      /\ \A u \in Slot \ {"target"} : disk'[f][u] = disk[f][u]
  BY <1>1, <1>3, PutIs
<1>5. \A g \in File : /\ disk'[g]["backup"] = disk[g]["backup"]
                      /\ disk'[g]["quarantine"] = disk[g]["quarantine"]
  BY <1>4 DEF Slot
<1>6. journal # NoJournal => Undecided /\ AllInPlace /\ Cleared /\ journal.version = 3
  BY <1>1, StagedIs
<1>7. NoBackups
  <2>1. CASE journal = NoJournal
    BY <1>1, <2>1 DEF Data, Accounted
  <2>2. CASE journal # NoJournal
    BY <1>6, <2>2, HomeIsBase
  <2> QED BY <2>1, <2>2
<1>8. \A g \in File : base[g] # None /\ (journal.version # 0 => journal.original[g] # None)
  BY <1>1, <1>2 DEF Data, DataType
<1>9. \A g \in File : disk[g]["target"] \in Content \ {"bad", None}
  <2>1. CASE AllNew
    BY <2>1 DEF AllNew, Is, Content, None
  <2>2. CASE AllBase
    BY <1>1, <1>8, <2>2 DEF AllBase, Is
  <2>3. AllNew \/ AllBase
    BY <1>1, <1>6, HomeIsBase DEF Data, Accounted
  <2> QED BY <2>1, <2>2, <2>3
<1>10. /\ base' \in [File -> Content \ {"bad"}]
       /\ \A g \in File : base'[g] = disk'[g]["target"] /\ base'[g] # None
  BY <1>1, <1>4, <1>9 DEF Content, None
<1>11. DataType'
  BY <1>1, <1>2, <1>4, <1>8, <1>10 DEF Data, DataType
<1>12. AllBase' /\ NoBackups' /\ AllInPlace'
  BY <1>5, <1>7, <1>10 DEF AllBase, Is, NoBackups, AllInPlace, InPlace
<1>13. Accounted'
  <2>1. CASE journal = NoJournal
    <3>1. ~ journal'.committed /\ ~ Undecided'
      BY <1>1, <2>1 DEF NoJournal, Undecided
    <3> QED BY <1>12, <3>1 DEF Accounted
  <2>2. CASE journal # NoJournal
    <3>1. Undecided' /\ journal' # NoJournal /\ ~ journal'.committed /\ journal'.version = 3
      BY <1>1, <1>6, <2>2 DEF Undecided
    <3>2. Cleared'
      BY <1>5, <1>6, <2>2 DEF Cleared
    <3>3. \A g \in File : journal'.original[g] # None
      BY <1>1, <1>6, <1>8, <2>2
    <3>4. Outdated'
      BY <1>10, <1>12, <3>1, <3>2, <3>3 DEF Outdated
    <3> QED BY <3>1, <3>4 DEF Accounted
  <2> QED BY <2>1, <2>2
<1>14. op' \in Op /\ Ends' /\ Working'
  BY <1>1, NoOpWorks
<1>15. ReportIsTrue'
  BY <1>1 DEF ReportIsTrue, None
<1> QED BY <1>1, <1>11, <1>13, <1>14, <1>15 DEF UpdateInv, Data, Told

\* A damaged file keeps its backup.
LEMMA DamageKeeps ==
    ASSUME UpdateInv, NEW f \in File, Damage(f) PROVE UpdateInv'
<1>1. /\ disk[f]["target"] = "new" /\ disk[f]["backup"] # None
      /\ (op = NoOp /\ journal.committed) \/ op.pc \in {"aside", "install"}
      /\ env.damage > 0 /\ env' = [env EXCEPT !.damage = env.damage - 1]
      /\ Put(f, "target", "bad") /\ report' = None /\ UNCHANGED <<journal, op, game, base>>
      /\ Data /\ disk \in Disk /\ env \in Left /\ op \in Op
  BY DEF Damage, UpdateInv, Data, DataType, Is, Has
<1>2. env' \in Left /\ env'.damage # MaxDamage
  <2>1. env.damage \in 0 .. MaxDamage /\ MaxDamage \in Nat
    BY <1>1, UpdateAssumption DEF Left
  <2>2. env.damage - 1 \in 0 .. MaxDamage /\ env.damage - 1 # MaxDamage
    BY <1>1, <2>1
  <2> QED BY <1>1, <2>2 DEF Left
<1>3. "target" \in Slot /\ "bad" \in Content
  BY DEF Slot, Content
<1>4. /\ disk' \in Disk /\ (\A g \in File \ {f} : disk'[g] = disk[g])
      /\ disk'[f]["target"] = "bad"
      /\ \A u \in Slot \ {"target"} : disk'[f][u] = disk[f][u]
  BY <1>1, <1>3, PutIs
<1>5. /\ disk'[f]["backup"] = disk[f]["backup"] /\ disk'[f]["staged"] = disk[f]["staged"]
      /\ disk'[f]["quarantine"] = disk[f]["quarantine"]
  BY <1>4 DEF Slot
<1>6. ReportIsTrue'
  BY <1>1 DEF ReportIsTrue, None
<1>7. CASE op = NoOp /\ journal.committed
  <2>1. Final(disk[f], base[f]) /\ Own /\ journal.version = 3
    BY <1>1, <1>7 DEF Data, Accounted, NoBackups
  <2>2. \A g \in File : Final(disk'[g], base'[g])
    <3>1. Final(disk'[f], base'[f])
      BY <1>1, <1>4, <1>5, <2>1 DEF Final, Fresh, Spent
    <3> QED BY <1>1, <1>4, <1>7, <3>1 DEF Data, Accounted
  <2>3. DataType'
    BY <1>1, <1>2, <1>4 DEF Data, DataType
  <2>4. Own' /\ ~ Undecided' /\ journal' # NoJournal
    BY <1>1, <1>7, <2>1 DEF Own, Undecided, NoJournal
  <2>5. Accounted'
    BY <1>1, <1>2, <2>1, <2>2, <2>4 DEF Accounted
  <2>6. op' \in Op /\ Ends' /\ Working'
    BY <1>1, <1>7, NoOpWorks
  <2> QED BY <1>1, <1>6, <2>3, <2>5, <2>6 DEF UpdateInv, Data, Told
<1>8. CASE op.pc \in {"aside", "install"}
  <2>1. Applying
    BY <1>8 DEF UpdateInv, Working, Asides, Installs
  <2>2. Undecided /\ Own /\ f \in Named(journal.entries) /\ op.who # None /\ report = None
    <3>1. Undecided /\ Own /\ f \in Named(journal.entries)
      BY <2>1, ApplyingIs
    <3>2. op # NoOp
      BY <1>8 DEF NoOp
    <3> QED BY <3>1, <3>2 DEF UpdateInv, Ends, Told
  <2>3. Exchanged(f)
    <3>1. ~ Awaited(f)
      BY <1>1 DEF Awaited, InPlace
    <3>2. CASE op.pc = "aside"
      BY <3>1, <3>2 DEF UpdateInv, Working, Asides
    <3>3. CASE op.pc = "install"
      <4>1. Installs
        BY <3>3 DEF UpdateInv, Working
      <4>2. f # Current.file
        BY <1>1, <4>1 DEF Installs, SetAside, InPlace, None
      <4> QED BY <3>1, <3>3, <4>1, <4>2 DEF Installs
    <3> QED BY <1>8, <3>2, <3>3
  <2>4. Exchanged(f)'
    BY <1>1, <1>4, <1>5, <2>3 DEF Exchanged, Replaced, Fresh, Spent
  <2>5. Undoable(disk'[f], base[f])
    BY <1>1, <2>4 DEF Exchanged, Undoable
  <2>6. Data' /\ Undecided' /\ Own'
    BY <1>1, <1>2, <1>4, <2>2, <2>5, UndoableIsKept
  <2>7. Applying'
    <3>1. Cleared'
      BY <1>4, <1>5, <2>1 DEF Applying, Cleared
    <3> QED BY <1>1, <2>1, <2>6, <3>1 DEF Applying, Unwalked
  <2>8. \A g \in File : /\ Awaited(g) => Awaited(g)'
                        /\ Exchanged(g) => Exchanged(g)'
    <3>1. ~ Awaited(f)
      BY <1>1 DEF Awaited, InPlace
    <3>2. \A g \in File \ {f} : /\ Awaited(g) => Awaited(g)'
                                /\ Exchanged(g) => Exchanged(g)'
      BY <1>1, <1>4 DEF Awaited, Exchanged
    <3> QED BY <2>4, <3>1, <3>2
  <2>9. CASE op.pc = "aside"
    <3>1. Asides
      BY <2>9 DEF UpdateInv, Working
    <3>2. Asides'
      BY <1>1, <2>7, <2>8, <3>1 DEF Asides
    <3>3. Working' /\ Ends'
      BY <1>1, <2>2, <2>9, <3>2, EndsStay DEF Working
    <3> QED BY <1>1, <1>6, <2>6, <3>3 DEF UpdateInv, Told
  <2>10. CASE op.pc = "install"
    <3>1. Installs
      BY <2>10 DEF UpdateInv, Working
    <3>2. Current.file # f /\ Current.file \in File
      BY <1>1, <2>1, <3>1, ApplyingFile DEF Installs, SetAside, InPlace, None
    <3>3. Current' = Current /\ disk'[Current.file] = disk[Current.file]
      BY <1>1, <1>4, <3>2 DEF Current
    <3>4. Installs'
      BY <1>1, <2>7, <2>8, <3>1, <3>3 DEF Installs
    <3>5. Working' /\ Ends'
      BY <1>1, <2>2, <2>10, <3>4, EndsStay DEF Working
    <3> QED BY <1>1, <1>6, <2>6, <3>5 DEF UpdateInv, Told
  <2> QED BY <1>8, <2>9, <2>10
<1> QED BY <1>1, <1>7, <1>8

-----------------------------------------------------------------------------
(* The three promises. *)

LEMMA UpdateStarts ==
    ASSUME Init, AddsNothing PROVE UpdateInv
<1>1. base \in [File -> Content \ {"bad"}] /\ base \in Installed
  BY UpdateAssumption DEF Init
<1>2. disk \in Disk
  <2>1. \A f \in File : base[f] \in Content
    BY <1>1
  <2> QED BY <2>1 DEF Init, Disk, Content, Slot
<1>3. \A f \in File : disk[f]["target"] = base[f] /\ disk[f]["backup"] = None
  BY DEF Init, Slot
<1>4. /\ journal = NoJournal /\ NoJournal \in Journal /\ NoJournal.version = 0
      /\ NoJournal.committed = FALSE /\ Apart(NoJournal.entries)
  BY EmptyList DEF Init, NoJournal, Journal
<1>5. env \in Left
  BY UpdateAssumption DEF Init, Left
<1>6. MaxStrangers # 0 => \A f \in File : base[f] # None
  BY <1>1 DEF AddsNothing
<1>7. DataType
  BY <1>1, <1>2, <1>4, <1>5, <1>6 DEF DataType
<1>8. AllBase /\ NoBackups
  BY <1>3 DEF AllBase, NoBackups, Is
<1>9. Accounted
  BY <1>4, <1>8 DEF Accounted, Undecided
<1>10. op = NoOp /\ report = None /\ game = Closed
  BY DEF Init
<1>11. op \in Op /\ op.who = None /\ op.pc = "idle" /\ op.bad = None
  BY <1>10, NoOpIs DEF NoOp
<1>12. Ends /\ Working
  BY <1>10, <1>11 DEF Ends, Working, None
<1>13. Told
  BY <1>10, ClosedIs DEF Told, ReportIsTrue, None
<1> QED BY <1>7, <1>9, <1>11, <1>12, <1>13 DEF UpdateInv, Data

LEMMA UpdateGoesOn ==
    ASSUME UpdateInv, [Next]_vars PROVE UpdateInv'
<1>1. ASSUME OpStep PROVE UpdateInv'
  BY <1>1, ReadJournalKeeps, VerifyCommittedKeeps, DeleteBackupKeeps, DeleteJournalKeeps,
     WalkQuarantineKeeps, WalkTargetKeeps, WalkRestoreKeeps, WalkUnquarantineKeeps,
     WalkReleaseKeeps, PublishKeeps, RevertKeeps, ReinstateKeeps, MoveAsideKeeps, InstallKeeps,
     CommitKeeps, UndoTargetKeeps, UndoReturnKeeps, UndoEndsKeeps, ReconcileKeeps,
     SweepOneKeeps, SweepEndsKeeps, StageKeeps, WriteJournalKeeps DEF OpStep
<1>2. CASE UNCHANGED vars
  <2>1. SameFiles
    BY <1>2, SameDisk DEF vars, UpdateInv
  <2>2. Data' /\ Ends' /\ Working' /\ op' \in Op /\ ReportIsTrue'
    BY <1>2, <2>1, WorksOn DEF vars
  <2> QED BY <1>2, <2>2 DEF vars, UpdateInv, Told
<1>3. ASSUME NEW f \in File, Stranger(f) \/ Damage(f) PROVE UpdateInv'
  BY <1>3, StrangerKeeps, DamageKeeps
<1> HIDE DEF UpdateInv
<1> QED BY <1>1, <1>2, <1>3, GameStartKeeps, GameExitKeeps, CheckKeeps, ApplyKeeps,
           HelperKeeps, CrashKeeps DEF Next

\* The invariant holds the three promises.
LEMMA UpdatePromises ==
    ASSUME UpdateInv PROVE WholeWithoutJournal /\ OriginalsKept /\ ReportIsTrue
<1>1. WholeWithoutJournal
  BY DEF UpdateInv, Data, Accounted, WholeWithoutJournal
<1>2. ASSUME env.damage = MaxDamage, ~ AllNew, NEW f \in File
      PROVE  base[f] \in {None, disk[f]["target"], disk[f]["backup"]}
  <2>1. CASE journal = NoJournal
    BY <1>2, <2>1 DEF UpdateInv, Data, Accounted, AllBase, Is
  <2>2. CASE journal # NoJournal
    <3>1. Undecided
      BY <1>2, <2>2 DEF UpdateInv, Data, Accounted, Undecided
    <3>2. Undoable(disk[f], base[f])
      BY <3>1 DEF UpdateInv, Data, Accounted, Outdated, AllInPlace, Undoable
    <3> QED BY <3>2 DEF Undoable, InPlace, SetAside, Replaced
  <2> QED BY <2>1, <2>2
<1>3. OriginalsKept
  BY <1>2 DEF OriginalsKept
<1> QED BY <1>1, <1>3 DEF UpdateInv, Told

\* Nothing the updater does, fails to do or is stopped in leaves its files and
\* its journal in a state that the next pass cannot account for.
THEOREM UpdateIsAccountedFor == ASSUME AddsNothing PROVE Spec => []UpdateInv
<1>1. Init => UpdateInv
  BY UpdateStarts
<1>2. UpdateInv /\ [Next]_vars => UpdateInv'
  BY UpdateGoesOn
<1> QED BY <1>1, <1>2, PTL DEF Spec

\* Without a journal the installation is one version, whole, whatever stopped
\* or failed (WholeWithoutJournal): the recovery gives its journal up last.
THEOREM UpdateIsWhole == ASSUME AddsNothing PROVE Spec => []WholeWithoutJournal
<1>1. UpdateInv => WholeWithoutJournal
  BY UpdatePromises
<1> QED BY <1>1, UpdateIsAccountedFor, PTL

\* Until the new version is whole, each original file is in its place or in its
\* backup (OriginalsKept), also between the moves of an update or a recovery.
THEOREM OriginalsAreKept == ASSUME AddsNothing PROVE Spec => []OriginalsKept
<1>1. UpdateInv => OriginalsKept
  BY UpdatePromises
<1> QED BY <1>1, UpdateIsAccountedFor, PTL

\* What the helper reports to the launcher is so (ReportIsTrue).
THEOREM HelperReportsTruly == ASSUME AddsNothing PROVE Spec => []ReportIsTrue
<1>1. UpdateInv => ReportIsTrue
  BY UpdatePromises
<1> QED BY <1>1, UpdateIsAccountedFor, PTL
=============================================================================
