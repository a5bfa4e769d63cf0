-------------------------- MODULE InputExchangeProofs --------------------------
(***************************************************************************)
(* What the input exchange keeps for every ring, window, packet size,      *)
(* delay and link: acknowledgements only claim inputs the peer has stored. *)
(* The invariant relates the two sessions and the packets between them.    *)
(***************************************************************************)
EXTENDS InputExchange, BoundLemmas, SequenceTheorems, FiniteSetTheorems,
        FunctionTheorems

(***************************************************************************)
(* The inductive invariant.                                                *)
(***************************************************************************)
Frames(I) == {i.frame : i \in I}

\* What a ring holds was committed, or received, and sits in its slot.
RingWithin(ring, I) ==
    \A k \in Slots : ring[k].frame # None =>
        /\ Slot(ring[k].frame) = k
        /\ [frame |-> ring[k].frame, cmd |-> ring[k].cmd] \in I

\* A committed input leaves the ring only below the cumulative horizon, and
\* then only for a newer one.
CommittedKept(s) ==
    \A i \in s.committed :
        /\ i.frame <= s.highestLocal
        /\ i.frame <= s.local[Slot(i.frame)].frame
        /\ i.frame <= s.peerAcked \/ s.local[Slot(i.frame)].frame = i.frame

CommittedOnce(s) == \A i, j \in s.committed : i.frame = j.frame => i = j

Own(s) ==
    /\ RingWithin(s.local, s.committed)
    /\ RingWithin(s.remote, s.received)
    /\ CommittedKept(s)
    /\ CommittedOnce(s)
    /\ 0 .. s.contiguous \subseteq Frames(s.received)

\* What s believes of its peer's session o is true.
Believed(s, o) ==
    /\ s.received \subseteq o.committed
    /\ 0 .. s.peerAcked \subseteq Frames(o.received)
    /\ \A k \in Slots : s.local[k].acked => s.local[k].frame \in Frames(o.received)

\* What a packet claims of its sender's session o is true.
Truthful(m, o) ==
    /\ m.inputs \subseteq o.committed
    /\ 0 .. m.base \subseteq Frames(o.received)
    /\ m.sacks \subseteq Frames(o.received)

\* Every kept boundary is a state of its own length.
Boundaries(history) ==
    \A k \in Slots : history[k].frame # None
                        => Len(history[k].state) = history[k].frame

\* The session of a peer between its steps, given the other peer's.
Consistent(s, o) ==
    /\ s \in Session
    /\ Own(s)
    /\ Believed(s, o)
    /\ Boundaries(s.history)
    /\ ~s.disconnected

IInv ==
    /\ session \in [Peer -> Session]
    /\ net \subseteq Message
    /\ \A p \in Peer :
          /\ Consistent(session[p], session[Other(p)])
          /\ Len(session[p].game) = session[p].frame
    /\ \A m \in net : Truthful(m, session[Other(m.to)])

\* What a step of one session may do to what the other relies on.
Grows(s, t) ==
    /\ s.committed \subseteq t.committed
    /\ s.received \subseteq t.received
    /\ s.contiguous <= t.contiguous
    /\ s.peerAcked <= t.peerAcked

-----------------------------------------------------------------------------
(***************************************************************************)
(* The constants, the peers, slots and runs of frames.                     *)
(***************************************************************************)
LEMMA RingType ==
    /\ HistoryFrames \in Nat \ {0}
    /\ RetentionFrames \in Nat
    /\ Slots = 0 .. (HistoryFrames - 1)
    /\ None = -1
  BY RingAssumption DEF RetentionFrames, Slots, None

LEMMA SlotType == ASSUME NEW f \in Int PROVE Slot(f) \in Slots
<1>1. \A h \in Nat \ {0} : f % h \in 0 .. (h - 1)
  BY SMTT(30)
<1> QED BY <1>1, RingType DEF Slot

LEMMA OtherPeer ==
    ASSUME NEW p \in Peer
    PROVE  Other(p) \in Peer /\ Other(p) # p /\ Other(Other(p)) = p
<1>1. PICK a \in Peer, b \in Peer : a # b /\ Peer = {a, b}
  BY PeerAssumption
<1>2. Other(a) = b
  BY <1>1, Zenon DEF Other
<1>3. Other(b) = a
  BY <1>1, Zenon DEF Other
<1> QED BY <1>1, <1>2, <1>3, Zenon

\* The run starts at c, and every frame of it after c is in S.
LEMMA RunEndProperties ==
    ASSUME NEW c \in Int, NEW S
    PROVE  /\ RunEnd(S, c) \in Int
           /\ c <= RunEnd(S, c)
           /\ \A f \in (c + 1) .. RunEnd(S, c) : f \in S
<1> DEFINE R == {m \in c .. (c + HistoryFrames) : \A f \in (c + 1) .. m : f \in S}
<1>1. c \in R
  BY RingType
<1>2. R \subseteq Int /\ \A m \in R : m <= c + HistoryFrames
  BY RingType
<1>3. c + HistoryFrames \in Int
  BY RingType
<1>4. Max(R) \in R
  <2> HIDE DEF R
  <2> QED BY <1>1, <1>2, <1>3, MaxOfBounded
<1> QED BY <1>4, RingType DEF RunEnd

LEMMA HorizonType ==
    ASSUME NEW s \in Session
    PROVE  /\ s.contiguous \in Nat \cup {None} /\ s.contiguous \in Int
           /\ s.peerAcked \in Nat \cup {None} /\ s.peerAcked \in Int
           /\ s.highestLocal \in Nat \cup {None} /\ s.highestLocal \in Int
  BY RingType DEF Session

LEMMA GrowsTransitive ==
    ASSUME NEW s \in Session, NEW t \in Session, NEW u \in Session,
           Grows(s, t), Grows(t, u)
    PROVE  Grows(s, u)
  BY HorizonType DEF Grows

-----------------------------------------------------------------------------
(***************************************************************************)
(* Acknowledgements.                                                       *)
(***************************************************************************)
LEMMA NotePeerAckKeeps ==
    ASSUME NEW s \in Session, NEW o \in Session, Consistent(s, o),
           NEW m \in Message, Truthful(m, o)
    PROVE  LET t == NotePeerAck(s, m)
           IN  /\ Consistent(t, o)
               /\ Grows(s, t)
               /\ t.frame = s.frame /\ t.game = s.game
<1> DEFINE local == [k \in Slots |->
                       [s.local[k] EXCEPT !.acked =
                          @ \/ (s.local[k].frame # None
                                /\ s.local[k].frame \in m.sacks)]]
           base == AckedBase(s, m)
           sacked == {f \in base .. (base + HistoryFrames) :
                        Holds(local, f) /\ local[Slot(f)].acked}
           run == IF base = None THEN None ELSE RunEnd(sacked, base)
           t == NotePeerAck(s, m)
<1>1. t = [s EXCEPT !.local = local, !.hasPeerAck = TRUE, !.peerAcked = run]
  BY DEF NotePeerAck
<1>2. /\ s.local \in [Slots -> InputSlot] /\ s.peerAcked \in Nat \cup {None}
      /\ m.base \in Nat \cup {None} /\ m.sacks \subseteq Nat
  BY DEF Session, Message
<1>3. /\ local \in [Slots -> InputSlot]
      /\ \A k \in Slots :
            /\ local[k].frame = s.local[k].frame
            /\ local[k].cmd = s.local[k].cmd
            /\ local[k].acked => s.local[k].acked \/ s.local[k].frame \in m.sacks
  BY <1>2 DEF InputSlot
<1>4. /\ base \in Nat \cup {None} /\ s.peerAcked <= base
      /\ base = s.peerAcked \/ base = m.base
  BY <1>2, MaxOfTwo, RingType DEF AckedBase
<1>5. \A k \in Slots : local[k].acked => local[k].frame \in Frames(o.received)
  BY <1>3 DEF Consistent, Believed, Truthful
<1>6. 0 .. base \subseteq Frames(o.received)
  BY <1>4 DEF Consistent, Believed, Truthful
<1> HIDE DEF local, base
<1>7. ASSUME NEW f \in sacked PROVE f \in Frames(o.received)
  <2>1. f \in Int
    BY <1>4, RingType
  <2>2. Slot(f) \in Slots /\ local[Slot(f)].frame = f /\ local[Slot(f)].acked
    BY <2>1, SlotType DEF Holds
  <2> QED BY <2>2, <1>5
<1> HIDE DEF sacked
<1>8. /\ run \in Nat \cup {None} /\ s.peerAcked <= run
      /\ 0 .. run \subseteq Frames(o.received)
  <2>1. CASE base = None
    BY <1>4, <2>1, <1>6
  <2>2. CASE base # None
    <3>1. /\ RunEnd(sacked, base) \in Int /\ base <= RunEnd(sacked, base)
          /\ \A f \in (base + 1) .. RunEnd(sacked, base) : f \in sacked
      BY <1>4, <2>2, RunEndProperties
    <3>2. run = RunEnd(sacked, base)
      BY <2>2
    <3> HIDE DEF run
    <3>3. run \in Nat /\ s.peerAcked <= run
      BY <1>2, <1>4, <2>2, <3>1, <3>2, RingType
    <3>4. ASSUME NEW f \in 0 .. run PROVE f \in Frames(o.received)
      <4>1. f \in 0 .. base \/ f \in (base + 1) .. run
        BY <1>4, <2>2, <3>3, RingType
      <4> QED BY <4>1, <3>1, <3>2, <1>6, <1>7
    <3> QED BY <3>3, <3>4
  <2> QED BY <2>1, <2>2
<1> HIDE DEF run, t
<1>9. /\ t \in Session
      /\ t.local = local /\ t.peerAcked = run /\ t.remote = s.remote
      /\ t.committed = s.committed /\ t.received = s.received
      /\ t.contiguous = s.contiguous /\ t.highestLocal = s.highestLocal
      /\ t.history = s.history /\ t.disconnected = s.disconnected
      /\ t.frame = s.frame /\ t.game = s.game
  BY <1>1, <1>3, <1>8 DEF Session
<1>10. Own(t)
  <2>1. RingWithin(t.local, t.committed) /\ RingWithin(t.remote, t.received)
    BY <1>3, <1>9 DEF Consistent, Own, RingWithin
  <2>2. CommittedKept(t)
    <3> SUFFICES ASSUME NEW i \in s.committed
                 PROVE  /\ i.frame <= s.highestLocal
                        /\ i.frame <= local[Slot(i.frame)].frame
                        /\ i.frame <= run \/ local[Slot(i.frame)].frame = i.frame
      BY <1>9 DEF CommittedKept
    <3>1. i.frame \in Nat
      BY DEF Session, InputSet
    <3>2. /\ i.frame <= s.highestLocal
          /\ i.frame <= s.local[Slot(i.frame)].frame
          /\ i.frame <= s.peerAcked \/ s.local[Slot(i.frame)].frame = i.frame
      BY DEF Consistent, Own, CommittedKept
    <3>3. local[Slot(i.frame)].frame = s.local[Slot(i.frame)].frame
      BY <1>3, <3>1, SlotType
    <3>4. i.frame <= s.peerAcked => i.frame <= run
      BY <1>2, <1>8, <3>1, RingType
    <3> QED BY <3>2, <3>3, <3>4
  <2>3. CommittedOnce(t) /\ 0 .. t.contiguous \subseteq Frames(t.received)
    BY <1>9 DEF Consistent, Own, CommittedOnce
  <2> QED BY <2>1, <2>2, <2>3 DEF Own
<1>11. Believed(t, o)
  BY <1>5, <1>8, <1>9 DEF Consistent, Believed
<1>12. Consistent(t, o)
  BY <1>9, <1>10, <1>11 DEF Consistent
<1>13. Grows(s, t)
  BY <1>8, <1>9, RingType DEF Grows, Session
<1> QED BY <1>9, <1>12, <1>13 DEF t

-----------------------------------------------------------------------------
(***************************************************************************)
(* Remote inputs.                                                          *)
(***************************************************************************)
LEMMA NoteRemoteFrameKeeps ==
    ASSUME NEW s \in Session, NEW o \in Session, Consistent(s, o), NEW f \in Nat
    PROVE  LET t == NoteRemoteFrame(s, f)
           IN  /\ Consistent(t, o)
               /\ Grows(s, t)
               /\ t.frame = s.frame /\ t.game = s.game
<1> DEFINE t == NoteRemoteFrame(s, f)
           top == Max({s.remoteFrame, f})
<1>1. t = s \/ t = [s EXCEPT !.remoteFrame = top]
  BY DEF NoteRemoteFrame
<1>2. top \in Nat
  <2>1. s.remoteFrame \in Int /\ f \in Int
    BY RingType DEF Session
  <2>2. top = IF s.remoteFrame >= f THEN s.remoteFrame ELSE f
    BY <2>1, MaxOfTwo
  <2> HIDE DEF top
  <2> QED BY <2>1, <2>2
<1> HIDE DEF t, top
<1>3. /\ t \in Session
      /\ t.local = s.local /\ t.peerAcked = s.peerAcked /\ t.remote = s.remote
      /\ t.committed = s.committed /\ t.received = s.received
      /\ t.contiguous = s.contiguous /\ t.highestLocal = s.highestLocal
      /\ t.history = s.history /\ t.disconnected = s.disconnected
      /\ t.frame = s.frame /\ t.game = s.game
  BY <1>1, <1>2 DEF Session
<1>4. Consistent(t, o)
  BY <1>3 DEF Consistent, Own, Believed, RingWithin, CommittedKept, CommittedOnce
<1>5. Grows(s, t)
  BY <1>3, RingType DEF Grows, Session
<1> QED BY <1>3, <1>4, <1>5 DEF t

LEMMA NoteRemoteInputsKeeps ==
    ASSUME NEW s \in Session, NEW o \in Session, Consistent(s, o),
           NEW inputs, inputs \subseteq o.committed
    PROVE  LET t == NoteRemoteInputs(s, inputs)
           IN  /\ Consistent(t, o)
               /\ Grows(s, t)
               /\ t.frame = s.frame /\ t.game = s.game
<1> DEFINE stored == {i \in inputs :
                        /\ Admissible(s, i.frame)
                        /\ MayReplace(s.remote[Slot(i.frame)], i.frame)}
           new == {i \in stored : ~Holds(s.remote, i.frame)}
           remote == [k \in Slots |->
                        IF \E i \in new : Slot(i.frame) = k
                        THEN LET i == CHOOSE i \in new : Slot(i.frame) = k
                             IN  [frame |-> i.frame, cmd |-> i.cmd,
                                  acked |-> FALSE]
                        ELSE s.remote[k]]
           late == {i \in new : Late(s, i)}
           wrong == {i \in late : s.history[Slot(i.frame)].remoteCmd # i.cmd}
           right == {i.frame : i \in late \ wrong}
           pending == {i.frame : i \in wrong} \cup ({s.rollbackTo} \ {None})
           known == {f \in s.contiguous .. (s.contiguous + HistoryFrames) :
                        Holds(remote, f)}
           run == RunEnd(known, s.contiguous)
           history == [k \in Slots |->
                         [s.history[k] EXCEPT !.predicted =
                            @ /\ s.history[k].frame \notin right]]
           rollbackTo == IF pending = {} THEN None ELSE Min(pending)
           received == s.received
                         \cup {[frame |-> i.frame, cmd |-> i.cmd] : i \in new}
           t == NoteRemoteInputs(s, inputs)
<1>1. t = [s EXCEPT !.remote = remote, !.contiguous = run,
                    !.history = history, !.rollbackTo = rollbackTo,
                    !.received = received]
  BY Zenon DEF NoteRemoteInputs
<1> HIDE DEF t
<1>2. /\ s.remote \in [Slots -> InputSlot] /\ s.contiguous \in Nat \cup {None}
      /\ s.history \in [Slots -> HistorySlot] /\ s.received \subseteq InputSet
      /\ s.rollbackTo \in Nat \cup {None} /\ s.contiguous \in Int
      /\ o.committed \subseteq InputSet
  BY RingType DEF Session
<1>3. new \subseteq inputs /\ new \subseteq InputSet /\ wrong \subseteq InputSet
  BY <1>2
<1>4. rollbackTo \in Nat \cup {None}
  <2>1. pending \subseteq Nat /\ pending \subseteq Int
        /\ 0 \in Int /\ \A f \in pending : 0 <= f
    BY <1>2, <1>3 DEF InputSet
  <2> HIDE DEF pending
  <2>2. pending # {} => Min(pending) \in pending
    BY <2>1, MinOfBounded
  <2> QED BY <2>1, <2>2
<1>5. /\ history \in [Slots -> HistorySlot]
      /\ \A k \in Slots : /\ history[k].frame = s.history[k].frame
                          /\ history[k].state = s.history[k].state
  <2> HIDE DEF right
  <2> QED BY <1>2 DEF HistorySlot
<1> HIDE DEF new, wrong, rollbackTo, history
<1>6. received = s.received \cup new
  BY <1>3 DEF InputSet
<1>7. ASSUME NEW k \in Slots
      PROVE  /\ remote[k] \in InputSlot
             /\ remote[k].frame # None =>
                  /\ Slot(remote[k].frame) = k
                  /\ [frame |-> remote[k].frame, cmd |-> remote[k].cmd] \in received
  <2>1. CASE \E i \in new : Slot(i.frame) = k
    <3>1. PICK i \in new : Slot(i.frame) = k
                           /\ remote[k] = [frame |-> i.frame, cmd |-> i.cmd,
                                           acked |-> FALSE]
      <4> DEFINE i == CHOOSE i \in new : Slot(i.frame) = k
      <4>1. i \in new /\ Slot(i.frame) = k
        BY <2>1
      <4>2. remote[k] = [frame |-> i.frame, cmd |-> i.cmd, acked |-> FALSE]
        BY <2>1
      <4> HIDE DEF i
      <4> QED BY <4>1, <4>2
    <3>2. i.frame \in Nat /\ i.cmd \in Cmd
          /\ i = [frame |-> i.frame, cmd |-> i.cmd]
      BY <1>3 DEF InputSet
    <3> HIDE DEF remote, received
    <3> QED BY <3>1, <3>2, <1>6 DEF InputSlot
  <2>2. CASE ~ \E i \in new : Slot(i.frame) = k
    <3>1. remote[k] = s.remote[k]
      BY <2>2
    <3> HIDE DEF remote, received
    <3> QED BY <3>1, <1>2, <1>6 DEF Consistent, Own, RingWithin
  <2> QED BY <2>1, <2>2
<1>8. remote \in [Slots -> InputSlot]
  BY <1>7
<1> HIDE DEF remote, received
<1>9. /\ received \subseteq InputSet /\ s.received \subseteq received
      /\ received \subseteq o.committed
  BY <1>2, <1>3, <1>6 DEF Consistent, Believed
<1>10. /\ run \in Nat \cup {None} /\ s.contiguous <= run
       /\ 0 .. run \subseteq Frames(received)
  <2>1. /\ run \in Int /\ s.contiguous <= run
        /\ \A f \in (s.contiguous + 1) .. run : f \in known
    BY <1>2, RunEndProperties
  <2>2. \A f \in known : f \in Nat => f \in Frames(received)
    <3> SUFFICES ASSUME NEW f \in known, f \in Nat
                 PROVE  f \in Frames(received)
      OBVIOUS
    <3>1. remote[Slot(f)].frame = f /\ Slot(f) \in Slots /\ f # None
      BY SlotType, RingType DEF Holds
    <3>2. [frame |-> f, cmd |-> remote[Slot(f)].cmd] \in received
      BY <3>1, <1>7
    <3> QED BY <3>2 DEF Frames
  <2> HIDE DEF run, known
  <2>3. 0 .. s.contiguous \subseteq Frames(received)
    BY <1>9 DEF Consistent, Own, Frames
  <2>4. ASSUME NEW f \in 0 .. run PROVE f \in Frames(received)
    <3>1. f \in 0 .. s.contiguous \/ f \in (s.contiguous + 1) .. run
      BY <1>2, <2>1
    <3> QED BY <3>1, <2>1, <2>2, <2>3
  <2>5. run \in Nat \cup {None}
    BY <2>1, <1>2, RingType
  <2> QED BY <2>1, <2>4, <2>5
<1> HIDE DEF run
<1>11. /\ t \in Session
       /\ t.local = s.local /\ t.peerAcked = s.peerAcked /\ t.remote = remote
       /\ t.committed = s.committed /\ t.received = received
       /\ t.contiguous = run /\ t.highestLocal = s.highestLocal
       /\ t.history = history /\ t.disconnected = s.disconnected
       /\ t.frame = s.frame /\ t.game = s.game
  BY <1>1, <1>4, <1>5, <1>8, <1>9, <1>10 DEF Session
<1>12. RingWithin(t.remote, t.received)
  BY <1>7, <1>11 DEF RingWithin
<1>13. Own(t)
  BY <1>10, <1>11, <1>12
     DEF Consistent, Own, RingWithin, CommittedKept, CommittedOnce
<1>14. Believed(t, o)
  BY <1>9, <1>11 DEF Consistent, Believed
<1>15. Boundaries(t.history)
  BY <1>5, <1>11 DEF Consistent, Boundaries
<1>16. Consistent(t, o)
  BY <1>11, <1>13, <1>14, <1>15 DEF Consistent
<1>17. Grows(s, t)
  BY <1>9, <1>10, <1>11, RingType DEF Grows, Session
<1> QED BY <1>11, <1>16, <1>17 DEF t

-----------------------------------------------------------------------------
(***************************************************************************)
(* The envelope check: whatever the peer claims to have stored was         *)
(* committed here, and is still in the ring unless it was acknowledged.    *)
(***************************************************************************)
LEMMA ClaimedIsHeld ==
    ASSUME NEW s \in Session, NEW o \in Session,
           Consistent(s, o), Consistent(o, s),
           NEW f \in Frames(o.received)
    PROVE  /\ f \in Nat
           /\ f <= s.highestLocal
           /\ f <= s.peerAcked \/ Holds(s.local, f)
<1>1. PICK i \in o.received : i.frame = f
  BY DEF Frames
<1>2. i \in s.committed /\ i \in InputSet
  BY DEF Consistent, Believed, Session
<1> QED BY <1>1, <1>2 DEF Consistent, Own, CommittedKept, InputSet, Holds

LEMMA EnvelopeHolds ==
    ASSUME NEW s \in Session, NEW o \in Session,
           Consistent(s, o), Consistent(o, s),
           NEW m \in Message, Truthful(m, o)
    PROVE  ValidEnvelope(s, m)
<1>1. m.base \in Nat \cup {None} /\ m.inputs \subseteq InputSet
      /\ s.peerAcked \in Nat \cup {None} /\ s.highestLocal \in Nat \cup {None}
  BY DEF Message, Session
<1>2. m.base <= s.highestLocal
  <2>1. CASE m.base = None
    BY <1>1, <2>1, RingType
  <2>2. CASE m.base # None
    <3>1. m.base \in Frames(o.received)
      BY <1>1, <2>2 DEF Truthful
    <3> QED BY <3>1, ClaimedIsHeld
  <2> QED BY <2>1, <2>2
<1>3. ASSUME NEW f \in (s.peerAcked + 1) .. m.base PROVE Holds(s.local, f)
  <2>1. f \in 0 .. m.base /\ ~ (f <= s.peerAcked)
    BY <1>1, RingType
  <2>2. f \in Frames(o.received)
    BY <2>1 DEF Truthful
  <2> QED BY <2>1, <2>2, ClaimedIsHeld
<1>4. ASSUME NEW f \in m.sacks PROVE Holds(s.local, f) \/ f <= s.peerAcked
  <2>1. f \in Frames(o.received)
    BY DEF Truthful
  <2> QED BY <2>1, ClaimedIsHeld
<1>5. ASSUME NEW i \in m.inputs, Holds(s.remote, i.frame)
      PROVE  s.remote[Slot(i.frame)].cmd = i.cmd
  <2>1. i \in o.committed /\ i.frame \in Nat /\ i.cmd \in Cmd
    BY <1>1 DEF Truthful, InputSet
  <2> DEFINE e == s.remote[Slot(i.frame)]
  <2>2. e.frame = i.frame /\ Slot(i.frame) \in Slots /\ e.frame # None
    BY <1>5, <2>1, SlotType, RingType DEF Holds
  <2>3. [frame |-> i.frame, cmd |-> e.cmd] \in o.committed
    BY <2>2 DEF Consistent, Own, RingWithin, Believed
  <2> HIDE DEF e
  <2>4. [frame |-> i.frame, cmd |-> e.cmd] = i
    BY <2>1, <2>3 DEF Consistent, Own, CommittedOnce
  <2> QED BY <2>4 DEF e
<1> QED BY <1>2, <1>3, <1>4, <1>5 DEF ValidEnvelope, ValidAck

LEMMA HandlePacketKeeps ==
    ASSUME NEW s \in Session, NEW o \in Session,
           Consistent(s, o), Consistent(o, s),
           NEW m \in Message, Truthful(m, o)
    PROVE  LET t == HandlePacket(s, m)
           IN  /\ Consistent(t, o)
               /\ Grows(s, t)
               /\ t.frame = s.frame /\ t.game = s.game
<1> DEFINE a == NotePeerAck(s, m)
           b == NoteRemoteFrame(a, m.frame)
           t == HandlePacket(s, m)
<1>1. t = NoteRemoteInputs(b, m.inputs)
  BY EnvelopeHolds DEF HandlePacket
<1> HIDE DEF t
<1>2. m.frame \in Nat /\ m.inputs \subseteq o.committed
  BY DEF Message, Truthful
<1>3. /\ Consistent(a, o) /\ Grows(s, a)
      /\ a.frame = s.frame /\ a.game = s.game
  BY NotePeerAckKeeps
<1> HIDE DEF a
<1>4. a \in Session
  BY <1>3 DEF Consistent
<1>5. /\ Consistent(b, o) /\ Grows(a, b)
      /\ b.frame = a.frame /\ b.game = a.game
  BY <1>2, <1>3, <1>4, NoteRemoteFrameKeeps
<1> HIDE DEF b
<1>6. b \in Session
  BY <1>5 DEF Consistent
<1>7. /\ Consistent(t, o) /\ Grows(b, t)
      /\ t.frame = b.frame /\ t.game = b.game
  BY <1>1, <1>2, <1>5, <1>6, NoteRemoteInputsKeeps
<1>8. t \in Session
  BY <1>7 DEF Consistent
<1>9. Grows(s, t)
  BY <1>3, <1>4, <1>5, <1>6, <1>7, <1>8, GrowsTransitive
<1> QED BY <1>3, <1>5, <1>7, <1>9 DEF t

-----------------------------------------------------------------------------
(***************************************************************************)
(* Simulation: the words fed to a frame, the boundaries kept, and the      *)
(* replay.  None of it touches the exchange.                               *)
(***************************************************************************)
\* The fields that Own and Believed speak of.
SameExchange(s, t) ==
    /\ t.local = s.local /\ t.remote = s.remote
    /\ t.committed = s.committed /\ t.received = s.received
    /\ t.contiguous = s.contiguous /\ t.highestLocal = s.highestLocal
    /\ t.peerAcked = s.peerAcked /\ t.disconnected = s.disconnected

LEMMA SameExchangeKeeps ==
    ASSUME NEW s \in Session, NEW o \in Session, Consistent(s, o),
           NEW t \in Session, SameExchange(s, t), Boundaries(t.history)
    PROVE  Consistent(t, o) /\ Grows(s, t)
<1>1. s.contiguous \in Int /\ s.peerAcked \in Int
  BY RingType DEF Session
<1>2. Consistent(t, o)
  BY DEF Consistent, SameExchange, Own, Believed, RingWithin, CommittedKept,
         CommittedOnce
<1>3. Grows(s, t)
  BY <1>1 DEF Grows, SameExchange
<1> QED BY <1>2, <1>3

LEMMA FrameInputsType ==
    ASSUME NEW p \in Peer, NEW s \in Session, NEW f \in Nat
    PROVE  /\ PredictRemote(s, f) \in Cmd
           /\ FrameInputs(p, s, f) \in [Peer -> Cmd]
<1> DEFINE first == Max({0, f - RetentionFrames})
           known == {g \in first .. f : Holds(s.remote, g)}
<1>1. s.remote \in [Slots -> InputSlot] /\ s.local \in [Slots -> InputSlot]
  BY DEF Session
<1>2. first \in Int
  <2>1. 0 \in Int /\ f - RetentionFrames \in Int
    BY RingType
  <2> QED BY <2>1, MaxOfTwo
<1> HIDE DEF first
<1>3. known # {} => Max(known) \in Int
  <2>1. known \subseteq Int /\ f \in Int /\ \A g \in known : g <= f
    BY <1>2
  <2> HIDE DEF known
  <2>2. known # {} => Max(known) \in known
    BY <2>1, MaxOfBounded
  <2> QED BY <2>1, <2>2
<1>4. PredictRemote(s, f) = IF known = {} THEN Neutral
                            ELSE s.remote[Slot(Max(known))].cmd
  BY DEF PredictRemote, first
<1> HIDE DEF known
<1>5. PredictRemote(s, f) \in Cmd
  <2>1. CASE known = {}
    BY <1>4, <2>1, CmdAssumption
  <2>2. CASE known # {}
    <3>1. Slot(Max(known)) \in Slots
      BY <1>3, <2>2, SlotType
    <3> QED BY <1>1, <1>4, <2>2, <3>1 DEF InputSlot
  <2> QED BY <2>1, <2>2
<1>6. s.local[Slot(f)].cmd \in Cmd
  <2>1. Slot(f) \in Slots
    BY SlotType
  <2> QED BY <1>1, <2>1 DEF InputSlot
<1> QED BY <1>5, <1>6, CmdAssumption DEF FrameInputs

LEMMA FrameBoundaryKeeps ==
    ASSUME NEW s \in Session, Boundaries(s.history), NEW f \in Nat,
           NEW state \in Seq([Peer -> Cmd]), Len(state) = f
    PROVE  LET t == FrameBoundary(s, f, state)
           IN  /\ t \in Session
               /\ SameExchange(s, t)
               /\ Boundaries(t.history)
               /\ t.frame = s.frame /\ t.game = s.game
<1> DEFINE e == [frame |-> f, state |-> state, remoteCmd |-> Neutral,
                 predicted |-> FALSE]
           history == [s.history EXCEPT ![Slot(f)] = e]
           t == FrameBoundary(s, f, state)
<1>1. t = [s EXCEPT !.failed = TRUE] \/ t = [s EXCEPT !.history = history]
  BY DEF FrameBoundary
<1> HIDE DEF t
<1>2. e \in HistorySlot
  BY CmdAssumption DEF HistorySlot
<1>3. history \in [Slots -> HistorySlot] /\ Boundaries(history)
  <2>1. s.history \in [Slots -> HistorySlot]
    BY DEF Session
  <2>2. e.frame = f /\ e.state = state
    OBVIOUS
  <2> HIDE DEF e
  <2> QED BY <1>2, <2>1, <2>2 DEF Boundaries
<1> HIDE DEF e, history
<1>4. CASE t = [s EXCEPT !.failed = TRUE]
  BY <1>4 DEF Session, SameExchange, Boundaries, t
<1>5. CASE t = [s EXCEPT !.history = history]
  BY <1>3, <1>5 DEF Session, SameExchange, t
<1> QED BY <1>1, <1>4, <1>5

LEMMA SavePreStateKeeps ==
    ASSUME NEW s \in Session, Boundaries(s.history), Len(s.game) = s.frame
    PROVE  LET t == SavePreState(s)
           IN  /\ t \in Session
               /\ SameExchange(s, t)
               /\ Boundaries(t.history)
               /\ t.frame = s.frame /\ t.game = s.game
<1>1. CASE SavePreState(s) = s
  BY <1>1 DEF SameExchange
<1>2. CASE SavePreState(s) = FrameBoundary(s, s.frame, s.game)
  <2>1. s.frame \in Nat /\ s.game \in Seq([Peer -> Cmd])
    BY DEF Session
  <2> QED BY <1>2, <2>1, FrameBoundaryKeeps
<1> QED BY <1>1, <1>2 DEF SavePreState

LEMMA TickKeeps ==
    ASSUME NEW p \in Peer, NEW s \in Session, Boundaries(s.history),
           Len(s.game) = s.frame
    PROVE  LET t == Tick(p, s, s.frame)
           IN  /\ t \in Session
               /\ SameExchange(s, t)
               /\ Boundaries(t.history)
               /\ t.frame = s.frame /\ Len(t.game) = s.frame + 1
<1> DEFINE inputs == FrameInputs(p, s, s.frame)
           game == Append(s.game, inputs)
           b == FrameBoundary(s, s.frame + 1, game)
           k == Slot(s.frame)
           word == inputs[Other(p)]
           guess == ~ Holds(s.remote, s.frame)
           t == Tick(p, s, s.frame)
<1>1. t = [b EXCEPT !.game = game, !.history[k].remoteCmd = word,
                    !.history[k].predicted = guess]
  BY DEF Tick
<1>2. s.frame \in Nat /\ s.game \in Seq([Peer -> Cmd]) /\ k \in Slots
      /\ guess \in BOOLEAN
  BY SlotType DEF Session
<1>3. inputs \in [Peer -> Cmd] /\ word \in Cmd
  BY <1>2, FrameInputsType, OtherPeer
<1> HIDE DEF t, inputs
<1>4. game \in Seq([Peer -> Cmd]) /\ Len(game) = s.frame + 1
  BY <1>2, <1>3
<1> HIDE DEF game, k, word, guess
<1>5. /\ b \in Session /\ SameExchange(s, b) /\ Boundaries(b.history)
      /\ b.frame = s.frame
  BY <1>2, <1>4, FrameBoundaryKeeps
<1> HIDE DEF b
<1> DEFINE e == [b.history[k] EXCEPT !.remoteCmd = word, !.predicted = guess]
           history == [b.history EXCEPT ![k] = e]
<1>6. b.history \in [Slots -> HistorySlot]
  BY <1>5 DEF Session
<1>7. t = [b EXCEPT !.game = game, !.history = history]
  BY <1>1, <1>2, <1>5, <1>6 DEF Session
<1>8. e \in HistorySlot /\ e.frame = b.history[k].frame
      /\ e.state = b.history[k].state
  BY <1>2, <1>3, <1>6 DEF HistorySlot
<1> HIDE DEF e
<1>9. history \in [Slots -> HistorySlot] /\ Boundaries(history)
  BY <1>2, <1>5, <1>6, <1>8 DEF Boundaries
<1> HIDE DEF history
<1>10. /\ t \in Session /\ SameExchange(b, t)
       /\ t.history = history /\ t.game = game
       /\ t.frame = b.frame
  BY <1>4, <1>5, <1>7, <1>9 DEF Session, SameExchange
<1>11. SameExchange(s, t)
  BY <1>5, <1>10 DEF SameExchange
<1> QED BY <1>4, <1>5, <1>9, <1>10, <1>11 DEF t

LEMMA ReplayedKeeps ==
    ASSUME NEW s \in Session, NEW h \in HistorySlot, NEW game \in Seq([Peer -> Cmd]),
           h.frame \in 0 .. s.frame, Len(game) = s.frame
    PROVE  /\ Replayed(s, game, h) \in HistorySlot
           /\ Replayed(s, game, h).frame = h.frame
           /\ Len(Replayed(s, game, h).state) = h.frame
<1> DEFINE state == SubSeq(game, 1, h.frame)
           word == IF h.frame = s.frame THEN Neutral ELSE PredictRemote(s, h.frame)
           guess == h.frame < s.frame /\ ~ Holds(s.remote, h.frame)
           t == Replayed(s, game, h)
<1>1. t = [h EXCEPT !.state = state, !.remoteCmd = word, !.predicted = guess]
  BY DEF Replayed
<1>2. s.frame \in Nat /\ h.frame \in Nat
  BY DEF Session
<1>3. state \in Seq([Peer -> Cmd]) /\ Len(state) = h.frame
  <2>1. \A i \in 1 .. h.frame : game[i] \in [Peer -> Cmd]
    BY <1>2, ElementOfSeq
  <2>2. 1 \in Int /\ h.frame \in Int
    BY <1>2
  <2> QED BY <1>2, <2>1, <2>2, SubSeqProperties
<1>4. word \in Cmd
  BY <1>2, FrameInputsType, CmdAssumption, PeerAssumption
<1>5. guess \in BOOLEAN
  OBVIOUS
<1> HIDE DEF t, state, word, guess
<1> QED BY <1>1, <1>3, <1>4, <1>5 DEF HistorySlot, t

LEMMA RollbackKeeps ==
    ASSUME NEW p \in Peer, NEW s \in Session, Boundaries(s.history),
           Len(s.game) = s.frame
    PROVE  LET t == Rollback(p, s)
           IN  /\ t \in Session
               /\ SameExchange(s, t)
               /\ Boundaries(t.history)
               /\ t.frame = s.frame /\ Len(t.game) = s.frame
              
<1> DEFINE start == s.rollbackTo
           boundary == s.history[Slot(start)]
           tail == [i \in 1 .. (s.frame - start) |-> FrameInputs(p, s, start + i - 1)]
           game == boundary.state \o tail
           history == [k \in Slots |->
                         IF s.history[k].frame \in start .. s.frame
                         THEN Replayed(s, game, s.history[k])
                         ELSE s.history[k]]
           u == [s EXCEPT !.rollbackTo = None]
           t == Rollback(p, s)
<1>1. \/ t = s
      \/ t = u
      \/ /\ start # None /\ start < s.frame /\ boundary.frame = start
         /\ t = [s EXCEPT !.rollbackTo = None, !.game = game, !.history = history]
  <2>1. s.frame \in Nat /\ start \in Nat \cup {None} /\ start \in Int
    BY RingType DEF Session
  <2>2. CASE start = None
    BY <2>2 DEF Rollback
  <2>3. CASE start # None /\ \/ start >= s.frame
                             \/ s.frame - start >= HistoryFrames
                             \/ boundary.frame # start
    BY <2>3 DEF Rollback
  <2>4. CASE start # None /\ ~ \/ start >= s.frame
                               \/ s.frame - start >= HistoryFrames
                               \/ boundary.frame # start
    <3>1. t = [s EXCEPT !.rollbackTo = None, !.game = game, !.history = history]
      BY <2>4, Zenon DEF Rollback
    <3> HIDE DEF t, game, history
    <3> QED BY <2>1, <2>4, <3>1
  <2> QED BY <2>2, <2>3, <2>4
<1> HIDE DEF t
<1>2. CASE t = s
  BY <1>2 DEF SameExchange, t
<1>3. CASE t = u
  BY <1>3 DEF SameExchange, Session, t
<1>4. CASE /\ start # None /\ start < s.frame /\ boundary.frame = start
           /\ t = [s EXCEPT !.rollbackTo = None, !.game = game, !.history = history]
  <2>1. /\ s.frame \in Nat /\ start \in Nat /\ Slot(start) \in Slots
        /\ s.history \in [Slots -> HistorySlot]
    BY <1>4, SlotType DEF Session
  <2>2. boundary.state \in Seq([Peer -> Cmd]) /\ Len(boundary.state) = start
    BY <1>4, <2>1 DEF HistorySlot, Boundaries
  <2>3. tail \in Seq([Peer -> Cmd]) /\ Len(tail) = s.frame - start
    <3>1. \A i \in 1 .. (s.frame - start) :
             FrameInputs(p, s, start + i - 1) \in [Peer -> Cmd]
      <4>1. \A i \in 1 .. (s.frame - start) : start + i - 1 \in Nat
        BY <2>1
      <4> QED BY <4>1, FrameInputsType
    <3>2. s.frame - start \in Nat
      BY <1>4, <2>1
    <3>3. tail \in [1 .. (s.frame - start) -> [Peer -> Cmd]]
      BY <3>1
    <3> HIDE DEF tail
    <3> QED BY <3>2, <3>3
  <2> HIDE DEF boundary, tail
  <2>4. game \in Seq([Peer -> Cmd]) /\ Len(game) = s.frame
    <3>1. game \in Seq([Peer -> Cmd])
          /\ Len(game) = Len(boundary.state) + Len(tail)
      BY <2>2, <2>3, ConcatProperties, Zenon
    <3> HIDE DEF game
    <3> QED BY <2>1, <2>2, <2>3, <3>1
  <2> HIDE DEF game
  <2>5. ASSUME NEW k \in Slots
        PROVE  /\ history[k] \in HistorySlot
               /\ history[k].frame # None
                    => Len(history[k].state) = history[k].frame
    <3>1. CASE s.history[k].frame \in start .. s.frame
      <4>1. history[k] = Replayed(s, game, s.history[k])
        BY <3>1
      <4>2. s.history[k] \in HistorySlot /\ s.history[k].frame \in 0 .. s.frame
        BY <2>1, <3>1
      <4> HIDE DEF history
      <4> QED BY <2>4, <4>1, <4>2, ReplayedKeeps
    <3>2. CASE s.history[k].frame \notin start .. s.frame
      <4>1. history[k] = s.history[k]
        BY <3>2
      <4> HIDE DEF history
      <4> QED BY <2>1, <4>1 DEF Boundaries
    <3> QED BY <3>1, <3>2
  <2>6. history \in [Slots -> HistorySlot]
    BY <2>5
  <2> HIDE DEF history
  <2>7. Boundaries(history)
    BY <2>5 DEF Boundaries
  <2> QED BY <1>4, <2>4, <2>6, <2>7 DEF Session, SameExchange, t
<1> QED BY <1>1, <1>2, <1>3, <1>4

-----------------------------------------------------------------------------
(***************************************************************************)
(* Local input.  A frame is committed once: its slot then holds it, or a   *)
(* newer frame that the ring will not give up for it.                      *)
(***************************************************************************)
LEMMA QueueLocalKeeps ==
    ASSUME NEW s \in Session, NEW o \in Session, Consistent(s, o),
           NEW f \in Nat, NEW c \in Cmd
    PROVE  LET t == QueueLocal(s, f, c)
           IN  /\ Consistent(t, o)
               /\ Grows(s, t)
               /\ t.frame = s.frame /\ t.game = s.game
<1> DEFINE old == s.local[Slot(f)]
           e == [frame |-> f, cmd |-> c,
                 acked |-> Holds(s.local, f) /\ s.local[Slot(f)].acked]
           local == [s.local EXCEPT ![Slot(f)] = e]
           top == Max({s.highestLocal, f})
           i == [frame |-> f, cmd |-> c]
           committed == s.committed \cup {i}
           put == [s EXCEPT !.local = local, !.highestLocal = top,
                            !.committed = committed]
           t == QueueLocal(s, f, c)
<1>1. \/ t = s
      \/ t = [s EXCEPT !.failed = TRUE]
      \/ old.frame # f /\ old.frame <= f /\ old.frame <= s.peerAcked /\ t = put
  BY DEF QueueLocal, Put, MayReplace, LocalRetirable
<1>2. /\ s.local \in [Slots -> InputSlot] /\ Slot(f) \in Slots
      /\ old.frame \in Nat \cup {None} /\ old.frame \in Int
      /\ s.committed \subseteq InputSet
  <2>1. s.local \in [Slots -> InputSlot] /\ s.committed \subseteq InputSet
    BY DEF Session
  <2>2. Slot(f) \in Slots
    BY SlotType
  <2>3. s.local[Slot(f)] \in InputSlot
    BY <2>1, <2>2
  <2> QED BY <2>1, <2>2, <2>3, RingType DEF InputSlot
<1>3. s.history \in [Slots -> HistorySlot] /\ Boundaries(s.history)
  BY DEF Session, Consistent
<1> HIDE DEF t
<1>4. CASE t = s
  <2>1. SameExchange(s, s)
    BY DEF SameExchange
  <2> QED BY <1>3, <1>4, <2>1, SameExchangeKeeps DEF t
<1>5. CASE t = [s EXCEPT !.failed = TRUE]
  <2>1. /\ t \in Session /\ SameExchange(s, t) /\ t.history = s.history
        /\ t.frame = s.frame /\ t.game = s.game
    BY <1>5 DEF Session, SameExchange
  <2> QED BY <1>3, <2>1, SameExchangeKeeps DEF t
<1>6. CASE old.frame # f /\ old.frame <= f /\ old.frame <= s.peerAcked /\ t = put
  <2>1. e = [frame |-> f, cmd |-> c, acked |-> FALSE]
    BY <1>6 DEF Holds
  <2> HIDE DEF e
  <2>2. /\ local \in [Slots -> InputSlot]
        /\ local[Slot(f)] = e
        /\ \A k \in Slots : k # Slot(f) => local[k] = s.local[k]
    BY <1>2, <2>1 DEF InputSlot
  <2> HIDE DEF local
  <2>3. top \in Nat /\ s.highestLocal <= top /\ f <= top
    <3>1. f \in Int
      OBVIOUS
    <3>2. top = IF s.highestLocal >= f THEN s.highestLocal ELSE f
      BY <3>1, HorizonType, MaxOfTwo
    <3> HIDE DEF top
    <3> QED BY <3>2, HorizonType
  <2> HIDE DEF top
  <2>4. i \in InputSet /\ i.frame = f
    BY DEF InputSet
  <2>5. committed \subseteq InputSet
    BY <1>2, <2>4
  <2>6. /\ t \in Session
        /\ t.local = local /\ t.highestLocal = top /\ t.committed = committed
        /\ t.remote = s.remote /\ t.received = s.received
        /\ t.contiguous = s.contiguous /\ t.peerAcked = s.peerAcked
        /\ t.history = s.history /\ t.disconnected = s.disconnected
        /\ t.frame = s.frame /\ t.game = s.game
    <3> HIDE DEF committed
    <3> QED BY <1>6, <2>2, <2>3, <2>5 DEF Session
  <2>7. RingWithin(local, committed)
    <3> SUFFICES ASSUME NEW k \in Slots, local[k].frame # None
                 PROVE  /\ Slot(local[k].frame) = k
                        /\ [frame |-> local[k].frame, cmd |-> local[k].cmd]
                             \in committed
      BY DEF RingWithin
    <3>1. CASE k = Slot(f)
      BY <2>1, <2>2, <3>1
    <3>2. CASE k # Slot(f)
      BY <2>2, <3>2 DEF Consistent, Own, RingWithin
    <3> QED BY <3>1, <3>2
  <2>8. \A j \in s.committed :
           /\ j.frame \in Nat
           /\ j.frame <= s.highestLocal
           /\ j.frame <= s.local[Slot(j.frame)].frame
           /\ j.frame <= s.peerAcked \/ s.local[Slot(j.frame)].frame = j.frame
    BY <1>2 DEF Consistent, Own, CommittedKept, InputSet
  <2>9. \A j \in s.committed : j.frame # f
    BY <1>2, <1>6, <2>8
  <2>10. CommittedKept(t)
    <3> SUFFICES ASSUME NEW j \in committed
                 PROVE  /\ j.frame <= top
                        /\ j.frame <= local[Slot(j.frame)].frame
                        /\ j.frame <= s.peerAcked
                             \/ local[Slot(j.frame)].frame = j.frame
      BY <2>6 DEF CommittedKept
    <3>1. CASE j = i
      BY <2>1, <2>2, <2>3, <2>4, <3>1
    <3>2. CASE j \in s.committed /\ Slot(j.frame) = Slot(f)
      <4>1. j.frame <= old.frame /\ j.frame <= s.highestLocal /\ j.frame \in Nat
        BY <2>8, <3>2
      <4>2. j.frame <= f /\ j.frame <= s.peerAcked /\ j.frame <= top
        BY <1>2, <1>6, <2>3, <4>1, HorizonType
      <4> QED BY <2>1, <2>2, <3>2, <4>2
    <3>3. CASE j \in s.committed /\ Slot(j.frame) # Slot(f)
      <4>1. local[Slot(j.frame)] = s.local[Slot(j.frame)]
        BY <2>2, <2>8, <3>3, SlotType
      <4>2. j.frame <= top
        BY <2>3, <2>8, <3>3, HorizonType
      <4> QED BY <2>8, <3>3, <4>1, <4>2
    <3> QED BY <3>1, <3>2, <3>3
  <2>11. CommittedOnce(t)
    <3> SUFFICES ASSUME NEW j \in committed, NEW k \in committed,
                        j.frame = k.frame
                 PROVE  j = k
      BY <2>6 DEF CommittedOnce
    <3>1. j \in s.committed /\ k \in s.committed => j = k
      BY DEF Consistent, Own, CommittedOnce
    <3> QED BY <2>4, <2>9, <3>1
  <2>12. Own(t)
    BY <2>6, <2>7, <2>10, <2>11 DEF Consistent, Own
  <2>13. Believed(t, o)
    <3>1. \A k \in Slots : local[k].acked => local[k].frame \in Frames(o.received)
      BY <2>1, <2>2 DEF Consistent, Believed
    <3> QED BY <2>6, <3>1 DEF Consistent, Believed
  <2>14. Consistent(t, o)
    BY <1>3, <2>6, <2>12, <2>13 DEF Consistent
  <2>15. Grows(s, t)
    BY <2>6, HorizonType DEF Grows
  <2> QED BY <2>6, <2>14, <2>15 DEF t
<1> QED BY <1>1, <1>4, <1>5, <1>6

-----------------------------------------------------------------------------
(***************************************************************************)
(* The network.                                                            *)
(***************************************************************************)
LEMMA PacketTruthful ==
    ASSUME NEW p \in Peer, NEW s \in Session, Own(s)
    PROVE  /\ Packet(p, s) \in Message
           /\ Packet(p, s).to = Other(p)
           /\ Truthful(Packet(p, s), s)
<1> DEFINE unacked == {f \in 0 .. s.highestLocal :
                         /\ Holds(s.local, f)
                         /\ ~LocalAcknowledged(s, s.local[Slot(f)])}
           live == unacked \cap {s.highestLocal}
           room == PacketInputs - Cardinality(live)
           rest == unacked \ live
           sent == live \cup (IF s.hasPeerAck THEN Oldest(rest, room)
                                              ELSE Newest(rest, room))
           inputs == {[frame |-> f, cmd |-> s.local[Slot(f)].cmd] : f \in sent}
           sacks == {f \in (s.contiguous + 1) .. (s.contiguous + HistoryFrames) :
                        Holds(s.remote, f)}
           m == Packet(p, s)
<1>1. m = [to |-> Other(p), frame |-> s.frame, inputs |-> inputs,
           base |-> s.contiguous, sacks |-> sacks]
  BY DEF Packet
<1>2. sent \subseteq unacked
  <2>1. rest \subseteq unacked /\ live \subseteq unacked
    OBVIOUS
  <2> HIDE DEF unacked, live, rest, room
  <2> QED BY <2>1 DEF Oldest, Newest
<1>3. /\ s.local \in [Slots -> InputSlot] /\ s.committed \subseteq InputSet
      /\ s.frame \in Nat
  BY DEF Session
<1> HIDE DEF m, sent
<1>4. inputs \subseteq s.committed
  <2> SUFFICES ASSUME NEW f \in sent
               PROVE  [frame |-> f, cmd |-> s.local[Slot(f)].cmd] \in s.committed
    OBVIOUS
  <2>1. f \in Nat /\ s.local[Slot(f)].frame = f /\ f # None
    BY <1>2, HorizonType, RingType DEF Holds
  <2>2. Slot(f) \in Slots
    BY <2>1, SlotType
  <2> QED BY <2>1, <2>2 DEF Own, RingWithin
<1>5. sacks \subseteq Nat /\ sacks \subseteq Frames(s.received)
  <2> SUFFICES ASSUME NEW f \in sacks PROVE f \in Nat /\ f \in Frames(s.received)
    OBVIOUS
  <2>1. f \in Nat /\ s.remote[Slot(f)].frame = f /\ f # None
    BY HorizonType, RingType DEF Holds
  <2>2. Slot(f) \in Slots
    BY <2>1, SlotType
  <2>3. [frame |-> f, cmd |-> s.remote[Slot(f)].cmd] \in s.received
    BY <2>1, <2>2 DEF Own, RingWithin
  <2> QED BY <2>1, <2>3 DEF Frames
<1> HIDE DEF inputs, sacks
<1>6. m \in Message
  BY <1>1, <1>3, <1>4, <1>5, OtherPeer, HorizonType DEF Message
<1>7. Truthful(m, s)
  BY <1>1, <1>4, <1>5 DEF Own, Truthful
<1> QED BY <1>1, <1>6, <1>7 DEF m

LEMMA SentWithin ==
    ASSUME NEW links, NEW m, NEW sent \in Sent(links, m)
    PROVE  sent \subseteq links \cup {m}
<1> DEFINE queued == {n \in links : n.to = m.to} \cup {m}
<1>1. \/ sent = links \cup {m}
      \/ \E lost \in queued : sent = (links \cup {m}) \ {lost}
  BY Zenon DEF Sent
<1> QED BY <1>1

-----------------------------------------------------------------------------
(***************************************************************************)
(* The start, and the steps of the two sessions.                           *)
(***************************************************************************)
LEMMA SlotOfSmall == ASSUME NEW f \in Slots PROVE Slot(f) = f
<1>1. \A h \in Nat \ {0} : \A g \in 0 .. (h - 1) : g % h = g
  BY SMTT(30)
<1> QED BY <1>1, RingType DEF Slot

LEMMA InitialConsistent ==
    ASSUME NEW p \in Peer
    PROVE  /\ InitialSession(p) \in Session
           /\ Own(InitialSession(p))
           /\ \A o : Believed(InitialSession(p), o)
           /\ Boundaries(InitialSession(p).history)
           /\ ~ InitialSession(p).disconnected
           /\ Len(InitialSession(p).game) = InitialSession(p).frame
<1> DEFINE D == InputDelay[p]
           seeded == 0 .. (D - 1)
           local == [k \in Slots |->
                       IF k \in seeded
                       THEN [frame |-> k, cmd |-> Neutral, acked |-> FALSE]
                       ELSE NoInput]
           remote == [k \in Slots |-> NoInput]
           history == [k \in Slots |->
                         IF k = 0 THEN [NoHistory EXCEPT !.frame = 0]
                         ELSE NoHistory]
           committed == {[frame |-> f, cmd |-> Neutral] : f \in seeded}
           s == InitialSession(p)
<1>1. s = [frame |-> 0, local |-> local, highestLocal |-> D - 1,
           peerAcked |-> None, hasPeerAck |-> FALSE, remote |-> remote,
           contiguous |-> None, remoteFrame |-> None, rollbackTo |-> None,
           game |-> <<>>, history |-> history, throttled |-> 0,
           disconnected |-> FALSE, failed |-> FALSE,
           committed |-> committed, received |-> {}]
  BY DEF InitialSession
<1>2. D \in 0 .. HistoryFrames /\ seeded \subseteq Slots /\ seeded \subseteq Nat
      /\ D - 1 \in Nat \cup {None} /\ \A f \in seeded : f <= D - 1
  BY RingAssumption, RingType
<1> HIDE DEF s, D
<1>3. \A k \in Slots : local[k] \in InputSlot /\ remote[k] \in InputSlot
  BY <1>2, CmdAssumption, RingType DEF InputSlot, NoInput
<1>4. \A k \in Slots : /\ history[k] \in HistorySlot
                       /\ history[k].frame # None
                            => Len(history[k].state) = history[k].frame
  <2>1. <<>> \in Seq([Peer -> Cmd]) /\ Len(<<>>) = 0
    OBVIOUS
  <2>2. NoHistory \in HistorySlot /\ [NoHistory EXCEPT !.frame = 0] \in HistorySlot
    BY <2>1, CmdAssumption DEF HistorySlot, NoHistory
  <2>3. /\ [NoHistory EXCEPT !.frame = 0].frame = 0
        /\ [NoHistory EXCEPT !.frame = 0].state = <<>>
        /\ NoHistory.frame = None
    BY DEF NoHistory
  <2> QED BY <2>1, <2>2, <2>3
<1>5. committed \subseteq InputSet
  BY <1>2, CmdAssumption DEF InputSet
<1>6. RingWithin(local, committed)
  <2> SUFFICES ASSUME NEW k \in Slots, local[k].frame # None
               PROVE  /\ Slot(local[k].frame) = k
                      /\ [frame |-> local[k].frame, cmd |-> local[k].cmd]
                           \in committed
    BY DEF RingWithin
  <2>1. k \in seeded
    BY DEF NoInput
  <2>2. local[k].frame = k /\ local[k].cmd = Neutral
    BY <2>1
  <2> QED BY <2>1, <2>2, SlotOfSmall
<1>7. RingWithin(remote, {})
  BY DEF RingWithin, NoInput
<1>8. \A i \in committed : /\ i.frame \in seeded /\ i.cmd = Neutral
                           /\ local[Slot(i.frame)].frame = i.frame
  <2> SUFFICES ASSUME NEW f \in seeded PROVE local[Slot(f)].frame = f
    OBVIOUS
  <2>1. Slot(f) = f /\ f \in Slots
    BY <1>2, SlotOfSmall
  <2> QED BY <2>1
<1>9. \A k \in Slots : ~ local[k].acked
  BY DEF NoInput
<1>10. \A i, j \in committed : i.frame = j.frame => i = j
  OBVIOUS
<1> HIDE DEF local, remote, history, committed
<1>11. local \in [Slots -> InputSlot] /\ remote \in [Slots -> InputSlot]
       /\ history \in [Slots -> HistorySlot]
  <2>1. local = [k \in Slots |-> local[k]] /\ remote = [k \in Slots |-> remote[k]]
        /\ history = [k \in Slots |-> history[k]]
    BY DEF local, remote, history
  <2> QED BY <1>3, <1>4, <2>1
<1>12. s \in Session
  <2>1. <<>> \in Seq([Peer -> Cmd])
    OBVIOUS
  <2> QED BY <1>1, <1>2, <1>5, <1>11, <2>1, RingType DEF Session
<1>13. /\ s.local = local /\ s.remote = remote /\ s.history = history
       /\ s.committed = committed /\ s.received = {} /\ s.contiguous = None
       /\ s.highestLocal = D - 1 /\ s.peerAcked = None /\ s.frame = 0
       /\ s.game = <<>> /\ ~ s.disconnected
  BY <1>1
<1>14. CommittedKept(s)
  <2> SUFFICES ASSUME NEW i \in committed
               PROVE  /\ i.frame <= D - 1
                      /\ i.frame <= local[Slot(i.frame)].frame
                      /\ local[Slot(i.frame)].frame = i.frame
    BY <1>13 DEF CommittedKept
  <2> QED BY <1>2, <1>8
<1>15. 0 .. None = {}
  BY RingType
<1>16. Own(s)
  BY <1>6, <1>7, <1>10, <1>13, <1>14, <1>15 DEF Own, CommittedOnce
<1>17. \A o : Believed(s, o)
  BY <1>9, <1>13, <1>15 DEF Believed
<1>18. Boundaries(s.history) /\ Len(s.game) = s.frame
  BY <1>4, <1>13 DEF Boundaries
<1> QED BY <1>12, <1>13, <1>16, <1>17, <1>18 DEF s

LEMMA IInv_Init == Init => IInv
<1> SUFFICES ASSUME Init PROVE IInv
  OBVIOUS
<1>1. \A p \in Peer : session[p] = InitialSession(p)
  BY DEF Init
<1>2. session \in [Peer -> Session] /\ net = {}
  BY InitialConsistent DEF Init
<1>3. ASSUME NEW p \in Peer
      PROVE  /\ Consistent(session[p], session[Other(p)])
             /\ Len(session[p].game) = session[p].frame
  BY <1>1, InitialConsistent DEF Consistent
<1> QED BY <1>2, <1>3 DEF IInv

LEMMA GrownIsBelieved ==
    ASSUME NEW s, NEW t, Grows(s, t)
    PROVE  /\ \A o : Consistent(o, s) => Consistent(o, t)
           /\ \A m : Truthful(m, s) => Truthful(m, t)
<1>1. s.committed \subseteq t.committed /\ Frames(s.received) \subseteq Frames(t.received)
  BY DEF Grows, Frames
<1> QED BY <1>1 DEF Consistent, Believed, Truthful

\* What HorizonsAdvance says of one session.
Advanced(s, t) ==
    /\ s.contiguous <= t.contiguous
    /\ s.peerAcked <= t.peerAcked
    /\ s.frame <= t.frame
    /\ \A i \in t.committed, j \in s.committed : i.frame = j.frame => i = j

\* A step that takes p's session to t, and whose packets tell the truth of t.
LEMMA SessionStep ==
    ASSUME IInv, NEW p \in Peer, NEW t,
           Consistent(t, session[Other(p)]), Grows(session[p], t),
           session[p].frame <= t.frame,
           Len(t.game) = t.frame,
           session' = [session EXCEPT ![p] = t],
           \A m \in net' : \/ m \in net
                           \/ m \in Message /\ m.to = Other(p) /\ Truthful(m, t)
    PROVE  IInv' /\ \A q \in Peer : Advanced(session[q], session'[q])
<1>1. Other(p) \in Peer /\ Other(p) # p /\ Other(Other(p)) = p
      /\ \A q \in Peer : q = p \/ q = Other(p)
  <2>1. \A q \in Peer : q = p \/ q = Other(p)
    BY OtherPeer, PeerAssumption, Zenon
  <2> QED BY <2>1, OtherPeer
<1>2. session \in [Peer -> Session] /\ t \in Session
  BY DEF IInv, Consistent
<1>3. /\ session' \in [Peer -> Session]
      /\ session'[p] = t /\ session'[Other(p)] = session[Other(p)]
  BY <1>1, <1>2
<1>4. Consistent(session[Other(p)], t)
  BY <1>1, GrownIsBelieved DEF IInv
<1>5. ASSUME NEW q \in Peer
      PROVE  /\ Consistent(session'[q], session'[Other(q)])
             /\ Len(session'[q].game) = session'[q].frame
  <2>1. CASE q = p
    BY <1>3, <2>1
  <2>2. CASE q = Other(p)
    BY <1>1, <1>3, <1>4, <2>2 DEF IInv
  <2> QED BY <1>1, <2>1, <2>2
<1>6. ASSUME NEW m \in net'
      PROVE  m \in Message /\ Truthful(m, session'[Other(m.to)])
  <2>1. CASE m \in net
    <3>1. m \in Message /\ Truthful(m, session[Other(m.to)])
      BY <2>1 DEF IInv
    <3>2. Other(m.to) \in Peer
      BY <3>1, OtherPeer DEF Message
    <3>3. CASE Other(m.to) = p
      BY <1>3, <3>1, <3>3, GrownIsBelieved
    <3>4. CASE Other(m.to) = Other(p)
      BY <1>3, <3>1, <3>4
    <3> QED BY <1>1, <3>2, <3>3, <3>4
  <2>2. CASE m \in Message /\ m.to = Other(p) /\ Truthful(m, t)
    BY <1>1, <1>3, <2>2
  <2> QED BY <2>1, <2>2
<1>7. IInv'
  BY <1>3, <1>5, <1>6 DEF IInv
<1>8. ASSUME NEW q \in Peer PROVE Advanced(session[q], session'[q])
  <2>1. CASE q = p
    <3>1. CommittedOnce(t)
      BY DEF Consistent, Own
    <3> QED BY <1>3, <2>1, <3>1 DEF Advanced, Grows, CommittedOnce
  <2>2. CASE q = Other(p)
    <3>1. CommittedOnce(session[q]) /\ session[q] \in Session
      BY <1>2 DEF IInv, Consistent, Own
    <3>2. session[q].frame \in Int
      BY <3>1 DEF Session
    <3> QED BY <1>3, <2>2, <3>1, <3>2, HorizonType DEF Advanced, CommittedOnce
  <2> QED BY <1>1, <2>1, <2>2
<1> QED BY <1>7, <1>8

LEMMA ReceiveStep ==
    ASSUME IInv, NEW p \in Peer, Receive(p)
    PROVE  IInv' /\ \A q \in Peer : Advanced(session[q], session'[q])
<1> DEFINE s == session[p]
           o == session[Other(p)]
<1>1. PICK m \in net : /\ m.to = p
                       /\ session' = [session EXCEPT ![p] = HandlePacket(@, m)]
                       /\ net' = net \ {m}
  BY DEF Receive
<1> DEFINE t == HandlePacket(s, m)
<1>3. /\ s \in Session /\ o \in Session /\ Consistent(s, o) /\ Consistent(o, s)
      /\ Len(s.game) = s.frame
  BY OtherPeer DEF IInv
<1>4. m \in Message /\ Truthful(m, o)
  BY <1>1 DEF IInv
<1>5. session' = [session EXCEPT ![p] = t]
  BY <1>1
<1> HIDE DEF s, o
<1>6. /\ Consistent(t, o) /\ Grows(s, t)
      /\ t.frame = s.frame /\ t.game = s.game
  BY <1>3, <1>4, HandlePacketKeeps
<1> HIDE DEF t
<1>7. s.frame <= t.frame /\ Len(t.game) = t.frame
  BY <1>3, <1>6 DEF Session
<1>8. \A n \in net' : n \in net
  BY <1>1
<1> QED BY <1>5, <1>6, <1>7, <1>8, SessionStep DEF s, o

LEMMA PastThrottleKeeps ==
    ASSUME NEW s \in Session, NEW n \in Nat
    PROVE  \A t \in {[s EXCEPT !.throttled = n], PastThrottle(s)} :
             /\ t \in Session /\ SameExchange(s, t)
             /\ t.history = s.history /\ t.frame = s.frame
             /\ t.game = s.game
<1> DEFINE m == IF TooFarAhead(s) THEN s.throttled ELSE 0
<1>1. PastThrottle(s) = [s EXCEPT !.throttled = m] /\ m \in Nat
  BY DEF PastThrottle, Session
<1> HIDE DEF m
<1> QED BY <1>1 DEF Session, SameExchange

\* A simulated frame, after its local input was queued.
LEMMA SimulateFrameKeeps ==
    ASSUME NEW p \in Peer, NEW s \in Session, NEW o \in Session,
           Consistent(s, o), Len(s.game) = s.frame
    PROVE  LET t == SimulateFrame(p, s)
           IN  /\ Consistent(t, o) /\ Grows(s, t)
               /\ s.frame <= t.frame
               /\ Len(t.game) = t.frame
<1> DEFINE saved == SavePreState(s)
           ticked == Tick(p, saved, s.frame)
           next == s.frame + 1
           t == SimulateFrame(p, s)
<1>1. \/ t = [saved EXCEPT !.failed = TRUE]
      \/ t = [ticked EXCEPT !.frame = next]
  BY DEF SimulateFrame
<1> HIDE DEF t
<1>2. Boundaries(s.history) /\ s.frame \in Nat /\ next \in Nat /\ s.frame <= next
  BY DEF Consistent, Session
<1>3. /\ saved \in Session /\ SameExchange(s, saved)
      /\ Boundaries(saved.history)
      /\ saved.frame = s.frame /\ saved.game = s.game
  BY <1>2, SavePreStateKeeps
<1> HIDE DEF saved
<1>4. s.frame = saved.frame /\ Len(saved.game) = saved.frame
  BY <1>3
<1>5. /\ ticked \in Session /\ SameExchange(saved, ticked)
      /\ Boundaries(ticked.history) /\ Len(ticked.game) = next
  BY <1>3, <1>4, TickKeeps
<1> HIDE DEF ticked, next
<1>6. CASE t = [saved EXCEPT !.failed = TRUE]
  <2>1. /\ t \in Session /\ SameExchange(s, t) /\ t.history = saved.history
        /\ t.frame = s.frame /\ t.game = s.game
    BY <1>3, <1>6 DEF Session, SameExchange
  <2> QED BY <1>2, <1>3, <2>1, SameExchangeKeeps DEF t
<1>7. CASE t = [ticked EXCEPT !.frame = next]
  <2>1. /\ t \in Session /\ SameExchange(ticked, t) /\ t.history = ticked.history
        /\ t.frame = next /\ t.game = ticked.game
    BY <1>2, <1>5, <1>7 DEF Session, SameExchange
  <2>2. SameExchange(s, t)
    BY <1>3, <1>5, <2>1 DEF SameExchange
  <2> QED BY <1>2, <1>5, <2>1, <2>2, SameExchangeKeeps DEF t
<1> QED BY <1>1, <1>6, <1>7

LEMMA AdvanceStep ==
    ASSUME IInv, NEW p \in Peer, Advance(p)
    PROVE  IInv' /\ \A q \in Peer : Advanced(session[q], session'[q])
<1> DEFINE s0 == session[p]
           o == session[Other(p)]
           s == Rollback(p, s0)
           fits(t) == /\ Consistent(t, o) /\ Grows(s0, t)
                      /\ s0.frame <= t.frame
                      /\ Len(t.game) = t.frame
           sound(m, t) == \/ m \in net
                          \/ m \in Message /\ m.to = Other(p) /\ Truthful(m, t)
<1>1. PICK links \in Sent(net, Packet(p, s0)) :
         IF Started(s0)
         THEN \/ Throttle(p, s, links)
              \/ Stall(p, s, links)
              \/ Simulate(p, s, links)
         ELSE net' = links /\ UNCHANGED session
  BY DEF Advance
<1>3. /\ s0 \in Session /\ o \in Session /\ Consistent(s0, o)
      /\ Len(s0.game) = s0.frame /\ session \in [Peer -> Session]
  BY OtherPeer DEF IInv
<1>4. Own(s0) /\ Boundaries(s0.history) /\ s0.frame \in Nat
  BY <1>3 DEF Consistent, Session
<1>5. \A t : fits(t) => \A m \in links : sound(m, t)
  <2>1. links \subseteq net \cup {Packet(p, s0)}
    BY <1>1, SentWithin
  <2>2. /\ Packet(p, s0) \in Message /\ Packet(p, s0).to = Other(p)
        /\ Truthful(Packet(p, s0), s0)
    BY <1>3, <1>4, PacketTruthful
  <2> HIDE DEF s0, o
  <2> QED BY <2>1, <2>2, GrownIsBelieved
<1>6. ASSUME NEW t, fits(t), session' = [session EXCEPT ![p] = t],
             \A m \in net' : sound(m, t)
      PROVE  IInv' /\ \A q \in Peer : Advanced(session[q], session'[q])
  BY <1>6, SessionStep
<1>7. /\ s \in Session /\ SameExchange(s0, s) /\ Boundaries(s.history)
      /\ s.frame = s0.frame /\ Len(s.game) = s0.frame
  BY <1>3, <1>4, RollbackKeeps
<1>8. CASE ~ Started(s0)
  <2>1. net' = links /\ session' = session
    BY <1>1, <1>8
  <2>2. session' = [session EXCEPT ![p] = s0]
    BY <1>3, <2>1
  <2>3. Grows(s0, s0) /\ s0.frame <= s0.frame
    BY <1>3, <1>4, HorizonType DEF Grows
  <2> HIDE DEF s0, o
  <2>4. fits(s0)
    BY <1>3, <2>3
  <2> HIDE DEF sound, fits
  <2> QED BY <1>5, <1>6, <2>1, <2>2, <2>4
<1> HIDE DEF s, s0, o
\* A gate only moves the throttle timer of the session after the rollback.
<1>9. ASSUME NEW u \in Session, SameExchange(s, u), u.history = s.history,
             u.frame = s.frame, u.game = s.game
      PROVE  fits(u)
  <2>1. SameExchange(s0, u) /\ Boundaries(u.history)
    BY <1>7, <1>9 DEF SameExchange
  <2>2. Consistent(u, o) /\ Grows(s0, u)
    BY <1>3, <1>9, <2>1, SameExchangeKeeps
  <2> QED BY <1>4, <1>7, <1>9, <2>2
<1>10. CASE Throttle(p, s, links)
  <2> DEFINE n == s.throttled + 1
             u == [s EXCEPT !.throttled = n]
  <2>1. session' = [session EXCEPT ![p] = u] /\ net' = links
    BY <1>10 DEF Throttle
  <2>2. n \in Nat
    BY <1>7 DEF Session
  <2> HIDE DEF n
  <2>3. /\ u \in Session /\ SameExchange(s, u) /\ u.history = s.history
        /\ u.frame = s.frame /\ u.game = s.game
    BY <1>7, <2>2, PastThrottleKeeps
  <2> HIDE DEF u
  <2>4. fits(u)
    BY <2>3, <1>9
  <2> HIDE DEF fits, sound
  <2> QED BY <1>5, <1>6, <2>1, <2>4
<1>11. CASE Stall(p, s, links)
  <2> DEFINE u == PastThrottle(s)
  <2>1. session' = [session EXCEPT ![p] = u] /\ net' = links
    BY <1>11 DEF Stall
  <2>2. /\ u \in Session /\ SameExchange(s, u) /\ u.history = s.history
        /\ u.frame = s.frame /\ u.game = s.game
    <3>1. 0 \in Nat
      OBVIOUS
    <3> QED BY <1>7, <3>1, PastThrottleKeeps
  <2> HIDE DEF u
  <2>3. fits(u)
    BY <2>2, <1>9
  <2> HIDE DEF fits, sound
  <2> QED BY <1>5, <1>6, <2>1, <2>3
<1>12. CASE Simulate(p, s, links)
  <2> DEFINE u == PastThrottle(s)
             f == s.frame + InputDelay[p]
  <2>1. /\ u \in Session /\ SameExchange(s, u) /\ u.history = s.history
        /\ u.frame = s.frame /\ u.game = s.game
    <3>1. 0 \in Nat
      OBVIOUS
    <3> QED BY <1>7, <3>1, PastThrottleKeeps
  <2>2. fits(u)
    BY <2>1, <1>9
  <2>3. PICK c \in Samples[p][f] :
           LET queued == QueueLocal(u, f, c)
           IN  IF queued.failed
               THEN session' = [session EXCEPT ![p] = queued] /\ net' = links
               ELSE /\ session' = [session EXCEPT ![p] = SimulateFrame(p, queued)]
                    /\ net' \in Sent(links, Packet(p, queued))
    BY <1>12 DEF Simulate
  <2>4. f \in Nat /\ c \in Cmd
    <3>1. s.frame \in Nat /\ s.frame < MaxFrame /\ MaxFrame \in Nat
          /\ InputDelay[p] \in Nat
      BY <1>7, <1>12, RingAssumption DEF Session, Simulate
    <3>2. f \in 0 .. (MaxFrame + InputDelay[p])
      BY <3>1
    <3> QED BY <2>3, <3>2, CmdAssumption
  <2> HIDE DEF u, f
  <2> DEFINE queued == QueueLocal(u, f, c)
             t == SimulateFrame(p, queued)
  <2>5. /\ Consistent(queued, o) /\ Grows(u, queued)
        /\ queued.frame = u.frame /\ queued.game = u.game
    BY <1>3, <2>1, <2>2, <2>4, QueueLocalKeeps
  <2>6. CASE queued.failed
    <3>1. session' = [session EXCEPT ![p] = queued] /\ net' = links
      BY <2>3, <2>6
    <3> HIDE DEF queued
    <3>2. queued \in Session
      BY <2>5 DEF Consistent
    <3>3. Grows(s0, queued)
      BY <1>3, <2>1, <2>2, <2>5, <3>2, GrowsTransitive
    <3>4. fits(queued)
      BY <1>4, <1>7, <2>1, <2>5, <2>6, <3>3
    <3> HIDE DEF fits, sound
    <3> QED BY <1>5, <1>6, <3>1, <3>4
  <2>7. CASE ~ queued.failed
    <3>1. session' = [session EXCEPT ![p] = t]
          /\ net' \in Sent(links, Packet(p, queued))
      BY <2>3, <2>7
    <3> HIDE DEF queued
    <3>2. queued \in Session /\ Own(queued) /\ Len(queued.game) = queued.frame
      BY <1>7, <2>1, <2>5 DEF Consistent
    <3>3. /\ Consistent(t, o) /\ Grows(queued, t) /\ queued.frame <= t.frame
          /\ Len(t.game) = t.frame
      BY <1>3, <2>5, <3>2, SimulateFrameKeeps
    <3> HIDE DEF t
    <3>4. t \in Session
      BY <3>3 DEF Consistent
    <3>5. Grows(s0, queued)
      BY <1>3, <2>1, <2>2, <2>5, <3>2, GrowsTransitive
    <3>6. Grows(s0, t)
      BY <1>3, <3>2, <3>3, <3>4, <3>5, GrowsTransitive
    <3>7. fits(t)
      BY <1>7, <2>1, <2>5, <3>3, <3>6
    <3>8. sound(Packet(p, queued), t)
      BY <3>2, <3>3, PacketTruthful, GrownIsBelieved
    <3>9. \A m \in net' : m \in links \/ m = Packet(p, queued)
      BY <3>1, SentWithin
    <3> HIDE DEF fits, sound
    <3> QED BY <1>5, <1>6, <3>1, <3>7, <3>8, <3>9
  <2> QED BY <2>6, <2>7
<1> QED BY <1>1, <1>8, <1>10, <1>11, <1>12

LEMMA IInv_Next == IInv /\ [Next]_vars => IInv' /\ [\A p \in Peer : Advanced(session[p], session'[p])]_vars
<1> SUFFICES ASSUME IInv, [Next]_vars
             PROVE  IInv' /\ [\A p \in Peer : Advanced(session[p], session'[p])]_vars
  OBVIOUS
<1>1. CASE UNCHANGED vars
  BY <1>1 DEF vars, IInv
<1>2. ASSUME NEW p \in Peer, Receive(p) \/ Advance(p)
      PROVE  IInv' /\ \A q \in Peer : Advanced(session[q], session'[q])
  BY <1>2, ReceiveStep, AdvanceStep
<1> QED BY <1>1, <1>2 DEF Next

-----------------------------------------------------------------------------
(***************************************************************************)
(* The results.                                                            *)
(***************************************************************************)
LEMMA IInv_Holes == IInv => HoleRecoverable
<1> SUFFICES ASSUME IInv, NEW p \in Peer, NEW i \in session[p].committed,
                    i \notin session[Other(p)].received
             PROVE  LET e == session[p].local[Slot(i.frame)]
                    IN  /\ e.frame = i.frame
                        /\ e.cmd = i.cmd
                        /\ ~LocalAcknowledged(session[p], e)
  BY DEF HoleRecoverable
<1> DEFINE s == session[p]
           o == session[Other(p)]
           e == s.local[Slot(i.frame)]
<1>1. s \in Session /\ Consistent(s, o) /\ Consistent(o, s)
  BY OtherPeer DEF IInv
<1>2. i.frame \in Nat /\ i = [frame |-> i.frame, cmd |-> i.cmd]
  BY <1>1 DEF Session, InputSet
<1> HIDE DEF s, o
<1>3. i.frame \notin Frames(o.received)
  <2>1. ASSUME NEW j \in o.received, j.frame = i.frame PROVE FALSE
    <3>1. j \in s.committed /\ i \in s.committed
      BY <1>1 DEF Consistent, Believed, s
    <3> QED BY <1>1, <2>1, <3>1 DEF Consistent, Own, CommittedOnce, o
  <2> QED BY <2>1 DEF Frames
<1>4. ~ (i.frame <= s.peerAcked)
  BY <1>1, <1>2, <1>3, HorizonType DEF Consistent, Believed
<1>5. Slot(i.frame) \in Slots
  BY <1>2, SlotType
<1>6. e.frame = i.frame
  BY <1>1, <1>4 DEF Consistent, Own, CommittedKept, s
<1>7. e.cmd = i.cmd
  <2>1. e.frame # None
    BY <1>2, <1>6, RingType
  <2>2. [frame |-> e.frame, cmd |-> e.cmd] \in s.committed
    BY <1>1, <1>5, <2>1 DEF Consistent, Own, RingWithin
  <2>3. i \in s.committed
    BY DEF s
  <2> HIDE DEF e
  <2>4. [frame |-> e.frame, cmd |-> e.cmd] = i
    BY <1>1, <1>6, <2>2, <2>3 DEF Consistent, Own, CommittedOnce
  <2> QED BY <2>4
<1>8. ~ e.acked
  BY <1>1, <1>3, <1>5, <1>6 DEF Consistent, Believed
<1> QED BY <1>4, <1>6, <1>7, <1>8 DEF LocalAcknowledged, s

\* The two g_net records and every datagram in flight stay well formed, for
\* every ring, window, delay, packet size and link.
THEOREM SessionTypeCorrect == Spec => []TypeOK
<1>1. IInv => TypeOK
  BY DEF IInv, TypeOK
<1> QED BY <1>1, IInv_Init, IInv_Next, PTL DEF Spec

\* ggpo_net_validate_input_packet_envelope never turns a correct peer away:
\* whatever the link loses or reorders, what a packet claims was committed
\* and is still in the ring, and it contradicts no stored input.
THEOREM NoFalseDisconnectAlways == Spec => []NoFalseDisconnect
<1>1. IInv => NoFalseDisconnect
  BY DEF IInv, Consistent, NoFalseDisconnect
<1> QED BY <1>1, IInv_Init, IInv_Next, PTL DEF Spec

\* No acknowledgement, cumulative or selective, ever claims an input the peer
\* has not stored: each committed input is with the peer or still in the ring
\* of ggpo_net_queue_local_input, unacknowledged, and will be resent.
THEOREM NoHoleIsPermanent == Spec => []HoleRecoverable
  BY IInv_Init, IInv_Next, IInv_Holes, PTL DEF Spec

\* The contiguous and acknowledged horizons and the frame never move back,
\* and the word committed to a frame is never replaced.
THEOREM HorizonsNeverRetreat == Spec => HorizonsAdvance
<1>1. (\A p \in Peer : Advanced(session[p], session'[p]))
        <=> \A p \in Peer :
              /\ session[p].contiguous <= session'[p].contiguous
              /\ session[p].peerAcked <= session'[p].peerAcked
              /\ session[p].frame <= session'[p].frame
              /\ \A i \in session'[p].committed, j \in session[p].committed :
                    i.frame = j.frame => i = j
  BY DEF Advanced
<1> QED BY <1>1, IInv_Init, IInv_Next, PTL DEF Spec, HorizonsAdvance

-----------------------------------------------------------------------------
(***************************************************************************)
(* What rollback keeps, on top of what was shown of the exchange: the      *)
(* frames a peer has from inputs alone are those both players wrote, for   *)
(* good; a rollback can always be made; and neither ring ever refuses a    *)
(* frame.                                                                  *)
(***************************************************************************)

(***************************************************************************)
(* The inductive invariant: one session of peer p.                         *)
(***************************************************************************)
\* The game's result after frame f rests on a guess known to be wrong.
Stale(s, f) == s.rollbackTo # None /\ s.rollbackTo <= f

\* The history is the last HistoryFrames boundaries, each in its slot.
RingFull(s) ==
    /\ \A f \in 0 .. s.frame :
          s.frame < f + HistoryFrames => s.history[Slot(f)].frame = f
    /\ \A k \in Slots : s.history[k].frame # None =>
          s.history[k].frame <= s.frame /\ Slot(s.history[k].frame) = k

\* A kept boundary is the game cut at its frame; if the frame was simulated,
\* it says which word stood for the peer's, and whether that was a guess that
\* no input received since has settled.
Recorded(p, s, h) ==
    /\ h.state = SubSeq(s.game, 1, h.frame)
    /\ h.frame < s.frame =>
          /\ h.remoteCmd = s.game[h.frame + 1][Other(p)]
          /\ ~h.predicted => h.frame \in Frames(s.received)
          /\ h.predicted => h.frame \notin Frames(s.received) \/ Stale(s, h.frame)

HistoryKept(p, s) ==
    /\ RingFull(s)
    /\ \A k \in Slots :
          s.history[k].frame # None => Recorded(p, s, s.history[k])

\* The game follows the inputs: p's own always, the peer's where p has them
\* and no rollback is due.
GameFollows(p, s) ==
    \A f \in 0 .. (s.frame - 1) :
        /\ [frame |-> f, cmd |-> s.game[f + 1][p]] \in s.committed
        /\ f \in Frames(s.received) /\ ~Stale(s, f) =>
              [frame |-> f, cmd |-> s.game[f + 1][Other(p)]] \in s.received

\* What was received is in the ring for as long as a rollback may need it.
ReceivedHeld(s) ==
    /\ ~Holds(s.remote, s.contiguous + 1)
    /\ \A f \in Frames(s.received) :
          s.frame <= f + RetentionFrames => Holds(s.remote, f)

\* How far the session runs ahead of what it has received, and what it commits
\* and receives ahead of what was acknowledged.
Bounded(p, s) ==
    /\ s.frame <= s.contiguous + 1 + MaxPrediction
    /\ s.rollbackTo # None =>
          s.rollbackTo < s.frame /\ s.frame <= s.rollbackTo + MaxPrediction
    /\ \A i \in s.committed :
          i.frame <= s.contiguous + MaxPrediction + InputDelay[p]
    /\ \A i \in s.received :
          i.frame <= s.peerAcked + MaxPrediction + InputDelay[Other(p)]

Timeline(p, s) ==
    /\ Len(s.game) = s.frame
    /\ HistoryKept(p, s)
    /\ GameFollows(p, s)
    /\ ReceivedHeld(s)
    /\ Bounded(p, s)

\* Every frame up to the highest one committed is, n frames ahead.
Writes(s, n) ==
    /\ ~s.failed
    /\ s.highestLocal = s.frame + n
    /\ 0 .. s.highestLocal \subseteq Frames(s.committed)

\* A packet carries no input far ahead of what it acknowledges.
Timely(m) ==
    \A i \in m.inputs :
        i.frame <= m.base + MaxPrediction + InputDelay[Other(m.to)]

TInv ==
    /\ IInv
    /\ \A p \in Peer : /\ Timeline(p, session[p])
                       /\ Writes(session[p], InputDelay[p] - 1)
    /\ \A m \in net : Timely(m)

-----------------------------------------------------------------------------
(***************************************************************************)
(* The constants, slots and runs again.                                    *)
(***************************************************************************)
LEMMA FrameType == ASSUME NEW s \in Session PROVE s.frame \in Nat
  BY DEF Session

LEMMA RoomType ==
    ASSUME NEW p \in Peer
    PROVE  /\ MaxPrediction \in Nat /\ MaxPrediction >= 1
           /\ InputDelay[p] \in Nat /\ InputDelay[Other(p)] \in Nat
           /\ 2 * MaxPrediction + InputDelay[p] + InputDelay[Other(p)]
                < HistoryFrames
           /\ MaxPrediction <= RetentionFrames
           /\ FutureFrames \in Nat
           /\ RetentionFrames + FutureFrames + 1 = HistoryFrames
<1>1. 2 * MaxPrediction + InputDelay[p] + InputDelay[Other(p)] < HistoryFrames
  BY HistoryAssumption, OtherPeer
<1>2. InputDelay[p] \in Nat /\ InputDelay[Other(p)] \in Nat
  BY OtherPeer, RingAssumption
<1> QED BY <1>1, <1>2, RingAssumption, HistoryAssumption DEF RetentionFrames

LEMMA SlotsApart ==
    ASSUME NEW f \in Int, NEW g \in Int, Slot(f) = Slot(g), f < g
    PROVE  f + HistoryFrames <= g
  BY RingType, CongruentApart DEF Slot

LEMMA SlotShift == ASSUME NEW f \in Int PROVE Slot(f + HistoryFrames) = Slot(f)
  BY RingType, ModShift DEF Slot

\* A run ends where a frame is missing, or is as long as the ring.
LEMMA RunEndStops ==
    ASSUME NEW c \in Int, NEW S
    PROVE  /\ RunEnd(S, c) <= c + HistoryFrames
           /\ RunEnd(S, c) = c + HistoryFrames \/ RunEnd(S, c) + 1 \notin S
<1> DEFINE R == {m \in c .. (c + HistoryFrames) : \A f \in (c + 1) .. m : f \in S}
           e == RunEnd(S, c)
<1>1. c \in R
  BY RingType
<1>2. R \subseteq Int /\ \A m \in R : m <= c + HistoryFrames
  BY RingType
<1>3. c + HistoryFrames \in Int
  BY RingType
<1>4. Max(R) \in R /\ \A m \in R : m <= Max(R)
  <2> HIDE DEF R
  <2> QED BY <1>1, <1>2, <1>3, MaxOfBounded
<1>5. e = Max(R)
  BY DEF RunEnd
<1>6. /\ e \in Int /\ c <= e /\ e <= c + HistoryFrames
      /\ \A f \in (c + 1) .. e : f \in S
      /\ e + 1 \notin R
  <2>1. e \in R /\ \A m \in R : m <= e
    BY <1>4, <1>5
  <2> HIDE DEF e
  <2>2. e \in Int
    BY <1>2, <2>1
  <2>3. e + 1 \notin R
    <3> HIDE DEF R
    <3> QED BY <2>1, <2>2
  <2> QED BY <2>1, <2>2, <2>3
<1> HIDE DEF e
<1>7. ASSUME e # c + HistoryFrames, e + 1 \in S PROVE FALSE
  <2>1. e + 1 \in c .. (c + HistoryFrames)
    BY <1>6, <1>7, RingType
  <2>2. \A f \in (c + 1) .. (e + 1) : f \in (c + 1) .. e \/ f = e + 1
    BY <1>6
  <2>3. e + 1 \in R
    BY <1>6, <1>7, <2>1, <2>2
  <2> QED BY <1>6, <2>3
<1> QED BY <1>6, <1>7 DEF e

\* The settled frames, as a bound.
LEMMA SettledIs ==
    ASSUME NEW s \in Session
    PROVE  LET stale == IF s.rollbackTo = None THEN s.frame ELSE s.rollbackTo
           IN  /\ Settled(s) \in Nat
               /\ Settled(s) <= s.contiguous + 1
               /\ Settled(s) <= stale
               /\ Settled(s) <= s.frame
               /\ \A n \in Int : n <= s.contiguous + 1 /\ n <= stale /\ n <= s.frame
                                   => n <= Settled(s)
<1> DEFINE stale == IF s.rollbackTo = None THEN s.frame ELSE s.rollbackTo
           T == {s.contiguous + 1, stale, s.frame}
<1>1. s.frame \in Nat /\ stale \in Nat /\ s.contiguous + 1 \in Nat
  BY RingType DEF Session
<1>2. Settled(s) = Min(T)
  BY DEF Settled
<1> HIDE DEF stale
<1>3. T \subseteq Int /\ T # {} /\ 0 \in Int /\ \A x \in T : 0 <= x
  BY <1>1
<1>4. Min(T) \in T /\ \A x \in T : Min(T) <= x
  <2> HIDE DEF T
  <2> QED BY <1>3, MinOfBounded
<1> QED BY <1>1, <1>2, <1>4 DEF stale

\* The fields that Timeline speaks of.
SameTimeline(s, t) ==
    /\ t.frame = s.frame /\ t.game = s.game /\ t.history = s.history
    /\ t.rollbackTo = s.rollbackTo /\ t.remote = s.remote
    /\ t.received = s.received /\ t.contiguous = s.contiguous
    /\ t.committed = s.committed

LEMMA SameTimelineKeeps ==
    ASSUME NEW p \in Peer, NEW s \in Session, NEW t \in Session,
           Timeline(p, s), SameTimeline(s, t), s.peerAcked <= t.peerAcked
    PROVE  Timeline(p, t) /\ Settled(t) = Settled(s)
<1>1. HistoryKept(p, t)
  BY DEF Timeline, SameTimeline, HistoryKept, RingFull, Recorded, Stale
<1>2. GameFollows(p, t) /\ ReceivedHeld(t) /\ Len(t.game) = t.frame
  BY DEF Timeline, SameTimeline, GameFollows, ReceivedHeld, Stale
<1>3. Bounded(p, t)
  <2>1. \A i \in t.received :
           i.frame <= t.peerAcked + MaxPrediction + InputDelay[Other(p)]
    <3>1. \A i \in t.received : i.frame \in Nat
      BY DEF Session, InputSet
    <3>2. \A i \in t.received :
             i.frame <= s.peerAcked + MaxPrediction + InputDelay[Other(p)]
      BY DEF Timeline, Bounded, SameTimeline
    <3> QED BY <3>1, <3>2, HorizonType, RoomType
  <2> QED BY <2>1 DEF Timeline, SameTimeline, Bounded
<1>4. Settled(t) = Settled(s)
  BY DEF Settled, SameTimeline
<1> QED BY <1>1, <1>2, <1>3, <1>4 DEF Timeline

\* An acknowledgement moves nothing but the acknowledged horizon.
LEMMA NotePeerAckTimeline ==
    ASSUME NEW p \in Peer, NEW s \in Session, NEW m \in Message
    PROVE  LET t == NotePeerAck(s, m)
           IN  /\ SameTimeline(s, t)
               /\ t.failed = s.failed /\ t.highestLocal = s.highestLocal
               /\ m.base <= t.peerAcked
<1> DEFINE local == [k \in Slots |->
                       [s.local[k] EXCEPT !.acked =
                          @ \/ (s.local[k].frame # None
                                /\ s.local[k].frame \in m.sacks)]]
           base == AckedBase(s, m)
           sacked == {f \in base .. (base + HistoryFrames) :
                        Holds(local, f) /\ local[Slot(f)].acked}
           run == IF base = None THEN None ELSE RunEnd(sacked, base)
           t == NotePeerAck(s, m)
<1>1. t = [s EXCEPT !.local = local, !.hasPeerAck = TRUE, !.peerAcked = run]
  BY DEF NotePeerAck
<1>2. /\ s.peerAcked \in Nat \cup {None} /\ m.base \in Nat \cup {None}
      /\ s.peerAcked \in Int /\ m.base \in Int
  BY RingType DEF Session, Message
<1>3. base \in Nat \cup {None} /\ base \in Int /\ m.base <= base
  BY <1>2, MaxOfTwo, RingType DEF AckedBase
<1> HIDE DEF local, base, t
<1>4. m.base <= run
  <2> HIDE DEF sacked
  <2>1. base # None => RunEnd(sacked, base) \in Int /\ base <= RunEnd(sacked, base)
    BY <1>3, RunEndProperties
  <2> QED BY <1>2, <1>3, <2>1, RingType
<1> HIDE DEF run
<1>5. /\ t.frame = s.frame /\ t.game = s.game /\ t.history = s.history
      /\ t.rollbackTo = s.rollbackTo /\ t.remote = s.remote
      /\ t.received = s.received /\ t.contiguous = s.contiguous
      /\ t.committed = s.committed /\ t.failed = s.failed
      /\ t.highestLocal = s.highestLocal /\ t.peerAcked = run
  BY <1>1 DEF Session
<1> QED BY <1>4, <1>5 DEF SameTimeline, t

LEMMA NoteRemoteFrameTimeline ==
    ASSUME NEW p \in Peer, NEW s \in Session, NEW f \in Nat
    PROVE  LET t == NoteRemoteFrame(s, f)
           IN  /\ SameTimeline(s, t)
               /\ t.failed = s.failed /\ t.highestLocal = s.highestLocal
               /\ t.peerAcked = s.peerAcked
<1> DEFINE top == Max({s.remoteFrame, f})
<1>1. NoteRemoteFrame(s, f) = s \/ NoteRemoteFrame(s, f) = [s EXCEPT !.remoteFrame = top]
  BY DEF NoteRemoteFrame
<1> HIDE DEF top
<1> QED BY <1>1 DEF Session, SameTimeline

-----------------------------------------------------------------------------
(***************************************************************************)
(* Remote inputs.  The inputs that are new to the ring are new to the      *)
(* session, and take the place of older frames.                            *)
(***************************************************************************)
\* Input i contradicts the guess its frame was simulated on.
Wrong(s, i) == Late(s, i) /\ s.history[Slot(i.frame)].remoteCmd # i.cmd

\* What storing the new inputs does to session s.
Noted(s, t, new) ==
    /\ new \subseteq InputSet
    /\ \A i \in new : /\ Admissible(s, i.frame)
                      /\ s.remote[Slot(i.frame)].frame < i.frame
                      /\ Holds(t.remote, i.frame)
    /\ \A k \in Slots :
          \/ t.remote[k] = s.remote[k]
          \/ \E i \in new : Slot(i.frame) = k /\ t.remote[k].frame = i.frame
    /\ t.received = s.received \cup new
    /\ t.contiguous = RunEnd({f \in s.contiguous .. (s.contiguous + HistoryFrames) :
                                Holds(t.remote, f)}, s.contiguous)
    /\ \/ t.rollbackTo = None /\ s.rollbackTo = None
       \/ t.rollbackTo = s.rollbackTo /\ s.rollbackTo # None
       \/ \E i \in new : Wrong(s, i) /\ t.rollbackTo = i.frame
    /\ s.rollbackTo # None => t.rollbackTo # None /\ t.rollbackTo <= s.rollbackTo
    /\ \A i \in new : Wrong(s, i) => t.rollbackTo # None /\ t.rollbackTo <= i.frame
    /\ \A k \in Slots :
          /\ t.history[k].frame = s.history[k].frame
          /\ t.history[k].state = s.history[k].state
          /\ t.history[k].remoteCmd = s.history[k].remoteCmd
          /\ t.history[k].predicted <=>
                /\ s.history[k].predicted
                /\ ~ \E i \in new : /\ Late(s, i) /\ ~Wrong(s, i)
                                    /\ i.frame = s.history[k].frame
    /\ t.frame = s.frame /\ t.game = s.game /\ t.committed = s.committed
    /\ t.peerAcked = s.peerAcked /\ t.highestLocal = s.highestLocal
    /\ t.failed = s.failed

\* The admission window is narrower than the ring.
LEMMA AdmittedOnce ==
    ASSUME NEW s \in Session, NEW f \in Nat, NEW g \in Nat,
           Admissible(s, f), Admissible(s, g), Slot(f) = Slot(g)
    PROVE  f = g
<1>1. /\ s.frame \in Nat /\ RetentionFrames \in Nat /\ FutureFrames \in Nat
      /\ RetentionFrames + FutureFrames + 1 = HistoryFrames /\ HistoryFrames \in Nat
  BY RingType, RingAssumption DEF Session, RetentionFrames
<1>2. f < g => f + HistoryFrames <= g
  BY SlotsApart
<1>3. g < f => g + HistoryFrames <= f
  BY SlotsApart
<1>4. /\ s.frame - RetentionFrames <= f /\ f <= s.frame + FutureFrames
      /\ s.frame - RetentionFrames <= g /\ g <= s.frame + FutureFrames
  BY DEF Admissible
<1> HIDE DEF RetentionFrames
<1> QED BY <1>1, <1>2, <1>3, <1>4

LEMMA InputsNoted ==
    ASSUME NEW s \in Session, NEW inputs, inputs \subseteq InputSet,
           \A i, j \in inputs : i.frame = j.frame => i = j
    PROVE  \E new \in SUBSET inputs : Noted(s, NoteRemoteInputs(s, inputs), new)
<1> DEFINE stored == {i \in inputs :
                        /\ Admissible(s, i.frame)
                        /\ MayReplace(s.remote[Slot(i.frame)], i.frame)}
           new == {i \in stored : ~Holds(s.remote, i.frame)}
           remote == [k \in Slots |->
                        IF \E i \in new : Slot(i.frame) = k
                        THEN LET i == CHOOSE i \in new : Slot(i.frame) = k
                             IN  [frame |-> i.frame, cmd |-> i.cmd,
                                  acked |-> FALSE]
                        ELSE s.remote[k]]
           late == {i \in new : Late(s, i)}
           wrong == {i \in late : s.history[Slot(i.frame)].remoteCmd # i.cmd}
           right == {i.frame : i \in late \ wrong}
           pending == {i.frame : i \in wrong} \cup ({s.rollbackTo} \ {None})
           known == {f \in s.contiguous .. (s.contiguous + HistoryFrames) :
                        Holds(remote, f)}
           run == RunEnd(known, s.contiguous)
           history == [k \in Slots |->
                         [s.history[k] EXCEPT !.predicted =
                            @ /\ s.history[k].frame \notin right]]
           rollbackTo == IF pending = {} THEN None ELSE Min(pending)
           received == s.received
                         \cup {[frame |-> i.frame, cmd |-> i.cmd] : i \in new}
           t == NoteRemoteInputs(s, inputs)
<1>1. t = [s EXCEPT !.remote = remote, !.contiguous = run,
                    !.history = history, !.rollbackTo = rollbackTo,
                    !.received = received]
  BY Zenon DEF NoteRemoteInputs
<1> HIDE DEF t
<1>2. /\ s.remote \in [Slots -> InputSlot] /\ s.history \in [Slots -> HistorySlot]
      /\ s.rollbackTo \in Nat \cup {None} /\ s.frame \in Nat
  BY DEF Session
<1>3. new \subseteq inputs /\ new \subseteq InputSet
  OBVIOUS
<1>4. ASSUME NEW i \in new
      PROVE  /\ i.frame \in Nat /\ i.cmd \in Cmd /\ Slot(i.frame) \in Slots
             /\ i = [frame |-> i.frame, cmd |-> i.cmd]
             /\ Admissible(s, i.frame)
             /\ s.remote[Slot(i.frame)].frame < i.frame
  <2>1. i \in InputSet /\ Admissible(s, i.frame)
        /\ MayReplace(s.remote[Slot(i.frame)], i.frame) /\ ~Holds(s.remote, i.frame)
    OBVIOUS
  <2>2. i.frame \in Nat /\ i.cmd \in Cmd /\ i = [frame |-> i.frame, cmd |-> i.cmd]
    BY <2>1 DEF InputSet
  <2>3. Slot(i.frame) \in Slots
    BY <2>2, SlotType
  <2>4. s.remote[Slot(i.frame)].frame \in Int
    BY <1>2, <2>3, RingType DEF InputSlot
  <2>5. s.remote[Slot(i.frame)].frame < i.frame
    BY <2>1, <2>2, <2>4 DEF MayReplace, Holds
  <2> QED BY <2>1, <2>2, <2>3, <2>5
<1>5. \A i \in new : i \in late => (Wrong(s, i) <=> i \in wrong)
  BY DEF Wrong
<1>6. \A i \in new : i \in late <=> Late(s, i)
  OBVIOUS
<1>7. \A i, j \in new : Slot(i.frame) = Slot(j.frame) => i = j
  <2> SUFFICES ASSUME NEW i \in new, NEW j \in new, Slot(i.frame) = Slot(j.frame)
               PROVE  i = j
    OBVIOUS
  <2>1. i \in inputs /\ j \in inputs
    BY <1>3
  <2> HIDE DEF new
  <2>2. i.frame = j.frame
    BY <1>4, AdmittedOnce
  <2> QED BY <2>1, <2>2
<1>8. received = s.received \cup new
  <2> HIDE DEF new
  <2>1. {[frame |-> i.frame, cmd |-> i.cmd] : i \in new} = new
    BY <1>4
  <2> QED BY <2>1
<1>9. /\ pending \subseteq Nat
      /\ \A i \in wrong : i \in new
  <2> HIDE DEF new
  <2>1. \A i \in wrong : i \in new /\ i.frame \in Nat
    BY <1>4
  <2> HIDE DEF wrong
  <2> QED BY <1>2, <2>1
<1>10. pending # {} => Min(pending) \in pending /\ \A f \in pending : Min(pending) <= f
  <2>1. pending \subseteq Int /\ 0 \in Int /\ \A f \in pending : 0 <= f
    BY <1>9
  <2> HIDE DEF pending
  <2> QED BY <2>1, MinOfBounded
<1>11. /\ \/ rollbackTo = None /\ s.rollbackTo = None
          \/ rollbackTo = s.rollbackTo /\ s.rollbackTo # None
          \/ \E i \in wrong : rollbackTo = i.frame
       /\ s.rollbackTo # None => rollbackTo # None /\ rollbackTo <= s.rollbackTo
       /\ \A i \in wrong : rollbackTo # None /\ rollbackTo <= i.frame
  <2>1. \A f \in pending : rollbackTo \in Nat /\ rollbackTo <= f
    BY <1>9, <1>10
  <2>2. rollbackTo # None => rollbackTo \in pending
    BY <1>10
  <2> HIDE DEF rollbackTo, wrong
  <2>3. s.rollbackTo # None => s.rollbackTo \in pending
    OBVIOUS
  <2>4. \A i \in wrong : i.frame \in pending
    OBVIOUS
  <2>5. \A f \in pending : (\E i \in wrong : f = i.frame)
                              \/ (f = s.rollbackTo /\ f # None)
    OBVIOUS
  <2> HIDE DEF pending
  <2>6. \A n \in Nat : n # None
    BY RingType
  <2> QED BY <2>1, <2>2, <2>3, <2>4, <2>5, <2>6
<1>12. \A k \in Slots :
          /\ history[k].frame = s.history[k].frame
          /\ history[k].state = s.history[k].state
          /\ history[k].remoteCmd = s.history[k].remoteCmd
          /\ history[k].predicted <=> s.history[k].predicted
                                      /\ s.history[k].frame \notin right
  <2> HIDE DEF right
  <2>1. ASSUME NEW k \in Slots
        PROVE  /\ history[k].frame = s.history[k].frame
               /\ history[k].state = s.history[k].state
               /\ history[k].remoteCmd = s.history[k].remoteCmd
    BY <1>2 DEF HistorySlot
  <2>2. ASSUME NEW k \in Slots
        PROVE  history[k].predicted <=> s.history[k].predicted
                                        /\ s.history[k].frame \notin right
    BY <1>2 DEF HistorySlot
  <2> HIDE DEF history
  <2> QED BY <2>1, <2>2
<1>13. \A f : f \in right <=> \E i \in new : /\ Late(s, i) /\ ~Wrong(s, i)
                                             /\ i.frame = f
  BY <1>5, <1>6
<1>14. \A i \in new : Wrong(s, i) <=> i \in wrong
  BY DEF Wrong
<1> HIDE DEF new, wrong, right, rollbackTo, history, received
<1>15. ASSUME NEW k \in Slots
       PROVE  \/ /\ remote[k] = s.remote[k]
                 /\ ~ \E i \in new : Slot(i.frame) = k
              \/ \E i \in new : Slot(i.frame) = k /\ remote[k].frame = i.frame
  <2>1. CASE \E i \in new : Slot(i.frame) = k
    <3> DEFINE i == CHOOSE i \in new : Slot(i.frame) = k
    <3>1. i \in new /\ Slot(i.frame) = k
      BY <2>1
    <3>2. remote[k] = [frame |-> i.frame, cmd |-> i.cmd, acked |-> FALSE]
      BY <2>1
    <3> HIDE DEF i
    <3> QED BY <3>1, <3>2
  <2>2. CASE ~ \E i \in new : Slot(i.frame) = k
    BY <2>2
  <2> QED BY <2>1, <2>2
<1> HIDE DEF remote
<1>16. ASSUME NEW i \in new PROVE Holds(remote, i.frame)
  <2>1. Slot(i.frame) \in Slots
    BY <1>4
  <2>2. PICK j \in new : Slot(j.frame) = Slot(i.frame)
                         /\ remote[Slot(i.frame)].frame = j.frame
    BY <1>15, <2>1
  <2>3. i = j
    BY <1>7, <2>2
  <2> QED BY <2>2, <2>3 DEF Holds
<1> HIDE DEF known
<1>17. /\ t.remote = remote /\ t.contiguous = run /\ t.history = history
       /\ t.rollbackTo = rollbackTo /\ t.received = received
       /\ t.frame = s.frame /\ t.game = s.game /\ t.committed = s.committed
       /\ t.peerAcked = s.peerAcked /\ t.highestLocal = s.highestLocal
       /\ t.failed = s.failed
  <2> HIDE DEF run
  <2> QED BY <1>1 DEF Session
<1>18. \A k \in Slots : \/ t.remote[k] = s.remote[k]
                        \/ \E i \in new : /\ Slot(i.frame) = k
                                          /\ t.remote[k].frame = i.frame
  BY <1>15, <1>17
<1>19. \A k \in Slots :
          /\ t.history[k].frame = s.history[k].frame
          /\ t.history[k].state = s.history[k].state
          /\ t.history[k].remoteCmd = s.history[k].remoteCmd
          /\ t.history[k].predicted <=>
                /\ s.history[k].predicted
                /\ ~ \E i \in new : /\ Late(s, i) /\ ~Wrong(s, i)
                                    /\ i.frame = s.history[k].frame
  BY <1>12, <1>13, <1>17
<1>20. \A i \in new : /\ Admissible(s, i.frame)
                      /\ s.remote[Slot(i.frame)].frame < i.frame
                      /\ Holds(t.remote, i.frame)
  BY <1>4, <1>16, <1>17
<1>21. t.contiguous = RunEnd({f \in s.contiguous .. (s.contiguous + HistoryFrames) :
                                Holds(t.remote, f)}, s.contiguous)
  BY <1>17 DEF known
<1>22. /\ \/ t.rollbackTo = None /\ s.rollbackTo = None
          \/ t.rollbackTo = s.rollbackTo /\ s.rollbackTo # None
          \/ \E i \in new : Wrong(s, i) /\ t.rollbackTo = i.frame
       /\ s.rollbackTo # None => t.rollbackTo # None /\ t.rollbackTo <= s.rollbackTo
       /\ \A i \in new : Wrong(s, i) => t.rollbackTo # None /\ t.rollbackTo <= i.frame
  BY <1>9, <1>11, <1>14, <1>17
<1>23. new \subseteq InputSet /\ new \in SUBSET inputs
  BY <1>3
<1>24. Noted(s, t, new)
  BY <1>8, <1>17, <1>18, <1>19, <1>20, <1>21, <1>22, <1>23, Zenon DEF Noted
<1> QED BY <1>23, <1>24 DEF t

LEMMA NotedTimeline ==
    ASSUME NEW p \in Peer, NEW s \in Session, NEW t \in Session, NEW new,
           Timeline(p, s), Noted(s, t, new),
           0 .. s.contiguous \subseteq Frames(s.received),
           s.contiguous <= t.contiguous,
           \A i \in new :
              i.frame <= s.peerAcked + MaxPrediction + InputDelay[Other(p)]
    PROVE  Timeline(p, t) /\ Settled(s) <= Settled(t)
<1>1. /\ s.frame \in Nat /\ s.contiguous \in Int /\ s.contiguous >= -1
      /\ t.contiguous \in Int /\ s.peerAcked \in Int
      /\ s.rollbackTo \in Nat \cup {None} /\ t.rollbackTo \in Nat \cup {None}
      /\ HistoryFrames \in Nat /\ RetentionFrames \in Nat /\ FutureFrames \in Nat
      /\ RetentionFrames + FutureFrames + 1 = HistoryFrames
      /\ MaxPrediction \in Nat /\ InputDelay[Other(p)] \in Nat /\ InputDelay[p] \in Nat
  <2>1. /\ s.frame \in Nat
        /\ s.rollbackTo \in Nat \cup {None} /\ t.rollbackTo \in Nat \cup {None}
    BY DEF Session
  <2>2. s.contiguous \in Int /\ s.contiguous >= -1 /\ t.contiguous \in Int
        /\ s.peerAcked \in Int
    BY HorizonType, RingType
  <2> QED BY <2>1, <2>2, RingType, RoomType
<1>2. /\ t.frame = s.frame /\ t.game = s.game /\ t.committed = s.committed
      /\ t.peerAcked = s.peerAcked /\ t.received = s.received \cup new
  BY DEF Noted
<1>3. ASSUME NEW i \in new
      PROVE  /\ i.frame \in Nat /\ i.cmd \in Cmd /\ Slot(i.frame) \in Slots
             /\ i = [frame |-> i.frame, cmd |-> i.cmd]
             /\ s.frame - RetentionFrames <= i.frame
             /\ i.frame <= s.frame + FutureFrames
             /\ s.remote[Slot(i.frame)].frame < i.frame
             /\ Holds(t.remote, i.frame)
  <2>1. i.frame \in Nat /\ i.cmd \in Cmd /\ i = [frame |-> i.frame, cmd |-> i.cmd]
    BY DEF Noted, InputSet
  <2> QED BY <2>1, SlotType DEF Noted, Admissible
<1>4. Frames(t.received) = Frames(s.received) \cup Frames(new)
  BY <1>2 DEF Frames
<1>5. \A f \in Frames(s.received) : f \in Nat
  BY DEF Session, InputSet, Frames
<1> HIDE DEF RetentionFrames
<1>6. ASSUME NEW i \in new
      PROVE  i.frame \notin Frames(s.received) /\ s.contiguous < i.frame
  <2>1. ASSUME i.frame \in Frames(s.received) PROVE FALSE
    <3>1. s.frame <= i.frame + RetentionFrames
      BY <1>1, <1>3
    <3>2. Holds(s.remote, i.frame)
      BY <2>1, <3>1 DEF Timeline, ReceivedHeld
    <3> QED BY <1>3, <3>2 DEF Holds
  <2>2. i.frame \notin 0 .. s.contiguous
    BY <2>1
  <2> QED BY <1>1, <1>3, <2>1, <2>2
<1>7. ASSUME NEW i \in new, i.frame < s.frame
      PROVE  /\ Late(s, i)
             /\ s.history[Slot(i.frame)].remoteCmd = s.game[i.frame + 1][Other(p)]
  <2> DEFINE h == s.history[Slot(i.frame)]
  <2>1. i.frame \in 0 .. s.frame /\ s.frame < i.frame + HistoryFrames
    BY <1>1, <1>3, <1>7
  <2>2. h.frame = i.frame
    BY <2>1 DEF Timeline, HistoryKept, RingFull
  <2>3. h.frame # None
    BY <1>3, <2>2, RingType
  <2>4. Recorded(p, s, h)
    BY <1>3, <2>3 DEF Timeline, HistoryKept
  <2> HIDE DEF h
  <2>5. h.remoteCmd = s.game[i.frame + 1][Other(p)] /\ h.predicted
    BY <1>6, <1>7, <2>2, <2>4 DEF Recorded
  <2> QED BY <1>7, <2>2, <2>5 DEF Late, h
<1>8. \A f \in Nat : Stale(s, f) => Stale(t, f)
  <2>1. s.rollbackTo # None => t.rollbackTo # None /\ t.rollbackTo <= s.rollbackTo
    BY DEF Noted
  <2> QED BY <1>1, <2>1, RingType DEF Stale
<1>9. \A i \in new : Wrong(s, i) => Stale(t, i.frame)
  BY DEF Noted, Stale
<1>10. HistoryKept(p, t)
  <2>1. \A k \in Slots : t.history[k].frame = s.history[k].frame
    BY DEF Noted
  <2>2. RingFull(t)
    <3>1. \A f \in 0 .. s.frame : Slot(f) \in Slots
      BY SlotType
    <3> QED BY <1>2, <2>1, <3>1 DEF Timeline, HistoryKept, RingFull
  <2>3. ASSUME NEW k \in Slots, t.history[k].frame # None
        PROVE  Recorded(p, t, t.history[k])
    <3> DEFINE h == s.history[k]
               g == t.history[k]
    <3>1. /\ g.frame = h.frame /\ g.state = h.state /\ g.remoteCmd = h.remoteCmd
          /\ g.predicted <=> /\ h.predicted
                             /\ ~ \E i \in new : /\ Late(s, i) /\ ~Wrong(s, i)
                                                 /\ i.frame = h.frame
      BY DEF Noted
    <3>2. Recorded(p, s, h) /\ h.frame \in Nat
      BY <2>1, <2>3 DEF Timeline, HistoryKept, Session, HistorySlot
    <3> HIDE DEF h, g
    <3>3. ASSUME h.frame < s.frame, ~g.predicted
          PROVE  h.frame \in Frames(t.received)
      BY <1>4, <3>1, <3>2, <3>3 DEF Recorded, Frames
    <3>4. ASSUME h.frame < s.frame, g.predicted
          PROVE  h.frame \notin Frames(t.received) \/ Stale(t, h.frame)
      <4>1. h.frame \notin Frames(s.received) \/ Stale(t, h.frame)
        BY <1>8, <3>1, <3>2, <3>4 DEF Recorded
      <4>2. ASSUME NEW i \in new, i.frame = h.frame PROVE Stale(t, h.frame)
        BY <1>7, <1>9, <3>1, <3>4, <4>2
      <4> QED BY <1>4, <4>1, <4>2 DEF Frames
    <3> QED BY <1>2, <3>1, <3>2, <3>3, <3>4 DEF Recorded, g
  <2> QED BY <2>2, <2>3 DEF HistoryKept
<1>11. GameFollows(p, t)
  <2> SUFFICES ASSUME NEW f \in 0 .. (s.frame - 1)
               PROVE  /\ [frame |-> f, cmd |-> s.game[f + 1][p]] \in s.committed
                      /\ f \in Frames(t.received) /\ ~Stale(t, f) =>
                            [frame |-> f, cmd |-> s.game[f + 1][Other(p)]]
                               \in t.received
    BY <1>2 DEF GameFollows
  <2>1. [frame |-> f, cmd |-> s.game[f + 1][p]] \in s.committed
    BY DEF Timeline, GameFollows
  <2>2. ASSUME f \in Frames(t.received), ~Stale(t, f)
        PROVE  [frame |-> f, cmd |-> s.game[f + 1][Other(p)]] \in t.received
    <3>1. CASE f \in Frames(s.received)
      <4>1. ~Stale(s, f)
        BY <1>8, <2>2
      <4> QED BY <1>2, <3>1, <4>1 DEF Timeline, GameFollows
    <3>2. CASE f \in Frames(new)
      <4>1. PICK i \in new : i.frame = f
        BY <3>2 DEF Frames
      <4>2. Late(s, i) /\ ~Wrong(s, i)
        BY <1>1, <1>7, <1>9, <2>2, <4>1
      <4>3. s.game[f + 1][Other(p)] = i.cmd
        BY <1>1, <1>7, <4>1, <4>2 DEF Wrong
      <4> QED BY <1>2, <1>3, <4>1, <4>3
    <3> QED BY <1>4, <2>2, <3>1, <3>2
  <2> QED BY <2>1, <2>2
<1>12. ~Holds(t.remote, t.contiguous + 1)
  <2> DEFINE c == s.contiguous
             S == {f \in c .. (c + HistoryFrames) : Holds(t.remote, f)}
             e == RunEnd(S, c)
  <2>1. t.contiguous = e
    BY DEF Noted
  <2>2. /\ e \in Int /\ c <= e /\ e <= c + HistoryFrames
        /\ \A f \in (c + 1) .. e : f \in S
        /\ e = c + HistoryFrames \/ e + 1 \notin S
    <3> HIDE DEF S
    <3> QED BY <1>1, RunEndProperties, RunEndStops
  <2> HIDE DEF e
  <2>3. CASE e = c + HistoryFrames
    <3>1. c + 1 \in (c + 1) .. e
      <4>1. c \in Int /\ HistoryFrames \in Nat /\ HistoryFrames # 0
        BY <1>1, RingType
      <4> HIDE DEF c
      <4> QED BY <2>3, <4>1
    <3>2. Holds(t.remote, c + 1)
      BY <2>2, <3>1
    <3>3. Slot(e + 1) = Slot(c + 1)
      <4>1. e + 1 = (c + 1) + HistoryFrames /\ c + 1 \in Int
        BY <1>1, <2>3
      <4> QED BY <4>1, SlotShift
    <3>4. e + 1 # c + 1
      BY <1>1, <2>3, RingType
    <3> QED BY <2>1, <3>2, <3>3, <3>4 DEF Holds
  <2>4. CASE e # c + HistoryFrames
    <3>1. e + 1 \in c .. (c + HistoryFrames) /\ e + 1 \notin S
      BY <1>1, <2>2, <2>4
    <3> QED BY <2>1, <3>1
  <2> QED BY <2>3, <2>4
<1>13. ReceivedHeld(t)
  <2>1. ASSUME NEW f \in Frames(t.received), s.frame <= f + RetentionFrames
        PROVE  Holds(t.remote, f)
    <3>1. CASE f \in Frames(new)
      BY <1>3, <3>1 DEF Frames
    <3>2. CASE f \in Frames(s.received)
      <4>1. Holds(s.remote, f) /\ f \in Nat /\ Slot(f) \in Slots
        BY <1>5, <2>1, <3>2, SlotType DEF Timeline, ReceivedHeld
      <4>2. CASE t.remote[Slot(f)] = s.remote[Slot(f)]
        BY <4>1, <4>2 DEF Holds
      <4>3. ASSUME NEW i \in new, Slot(i.frame) = Slot(f) PROVE FALSE
        <5>1. f < i.frame
          BY <1>3, <4>1, <4>3 DEF Holds
        <5>2. f + HistoryFrames <= i.frame
          BY <1>3, <4>1, <4>3, <5>1, SlotsApart
        <5> QED BY <1>1, <1>3, <2>1, <4>1, <5>2
      <4> QED BY <4>1, <4>2, <4>3 DEF Noted
    <3> QED BY <1>4, <3>1, <3>2
  <2> QED BY <1>2, <1>12, <2>1 DEF ReceivedHeld
<1>14. t.rollbackTo = s.rollbackTo
       \/ \E i \in new : /\ t.rollbackTo = i.frame /\ i.frame < s.frame
                         /\ s.contiguous < i.frame
  BY <1>6 DEF Noted, Wrong, Late
<1>15. Bounded(p, t)
  <2>1. /\ s.frame <= s.contiguous + 1 + MaxPrediction
        /\ s.rollbackTo # None =>
             s.rollbackTo < s.frame /\ s.frame <= s.rollbackTo + MaxPrediction
        /\ \A i \in s.committed :
              i.frame <= s.contiguous + MaxPrediction + InputDelay[p]
        /\ \A i \in s.received :
              i.frame <= s.peerAcked + MaxPrediction + InputDelay[Other(p)]
    BY DEF Timeline, Bounded
  <2>2. t.rollbackTo # None =>
          t.rollbackTo < s.frame /\ s.frame <= t.rollbackTo + MaxPrediction
    BY <1>1, <1>3, <1>14, <2>1
  <2>3. \A i \in s.committed :
           i.frame <= t.contiguous + MaxPrediction + InputDelay[p]
    <3>1. \A i \in s.committed : i.frame \in Nat
      BY DEF Session, InputSet
    <3> QED BY <1>1, <2>1, <3>1
  <2>4. s.frame <= t.contiguous + 1 + MaxPrediction
    BY <1>1, <2>1
  <2> QED BY <1>2, <2>1, <2>2, <2>3, <2>4 DEF Bounded
<1>16. Settled(s) <= Settled(t)
  <2>1. /\ Settled(s) \in Nat /\ Settled(s) <= s.contiguous + 1
        /\ Settled(s) <= s.frame
        /\ s.rollbackTo # None => Settled(s) <= s.rollbackTo
    BY SettledIs
  <2> DEFINE n == Settled(s)
  <2> HIDE DEF n
  <2>2. n <= t.contiguous + 1
    BY <1>1, <2>1 DEF n
  <2>3. t.rollbackTo # None => n <= t.rollbackTo
    BY <1>1, <1>3, <1>14, <2>1 DEF n
  <2>4. n \in Int /\ n <= t.frame
    BY <1>2, <2>1 DEF n
  <2> QED BY <2>2, <2>3, <2>4, SettledIs DEF n
<1>17. Len(t.game) = t.frame
  BY <1>2 DEF Timeline
<1> QED BY <1>10, <1>11, <1>13, <1>15, <1>16, <1>17 DEF Timeline

-----------------------------------------------------------------------------
(***************************************************************************)
(* The words a frame is simulated on.                                      *)
(***************************************************************************)
\* A committed frame is in the local ring while no later one can have its slot.
LEMMA CommittedHeld ==
    ASSUME NEW s \in Session, Own(s), NEW f \in Frames(s.committed),
           s.highestLocal < f + HistoryFrames
    PROVE  /\ f \in Nat /\ Holds(s.local, f)
           /\ [frame |-> f, cmd |-> s.local[Slot(f)].cmd] \in s.committed
<1>1. PICK i \in s.committed : i.frame = f
  BY DEF Frames
<1>2. f \in Nat
  BY <1>1 DEF Session, InputSet
<1> DEFINE e == s.local[Slot(f)]
<1>3. Slot(f) \in Slots /\ e \in InputSlot /\ f <= e.frame
  BY <1>1, <1>2, SlotType DEF Own, CommittedKept, Session
<1>4. e.frame \in Int /\ e.frame # None
  BY <1>2, <1>3, RingType DEF InputSlot
<1>5. Slot(e.frame) = Slot(f) /\ [frame |-> e.frame, cmd |-> e.cmd] \in s.committed
  BY <1>3, <1>4 DEF Own, RingWithin
<1> HIDE DEF e
<1>6. e.frame <= s.highestLocal
  BY <1>5 DEF Own, CommittedKept
<1>7. ~ (f < e.frame)
  <2>1. ASSUME f < e.frame PROVE FALSE
    <3>1. f + HistoryFrames <= e.frame
      BY <1>2, <1>4, <1>5, <2>1, SlotsApart
    <3> QED BY <1>2, <1>4, <1>6, <3>1, HorizonType, RingType
  <2> QED BY <2>1
<1>8. e.frame = f
  BY <1>2, <1>3, <1>4, <1>7
<1> QED BY <1>2, <1>5, <1>8 DEF Holds, e

\* A frame whose input is in the remote ring is simulated on that input.
LEMMA PredictHeld ==
    ASSUME NEW s \in Session, RingWithin(s.remote, s.received), NEW f \in Nat,
           Holds(s.remote, f)
    PROVE  [frame |-> f, cmd |-> PredictRemote(s, f)] \in s.received
<1> DEFINE first == Max({0, f - RetentionFrames})
           known == {g \in first .. f : Holds(s.remote, g)}
<1>1. first \in Int /\ first <= f
  <2>1. 0 \in Int /\ f - RetentionFrames \in Int /\ f - RetentionFrames <= f
    BY RingType
  <2>2. first = 0 \/ first = f - RetentionFrames
    BY <2>1, MaxOfTwo
  <2> HIDE DEF first
  <2> QED BY <2>1, <2>2
<1> HIDE DEF first
<1>2. f \in known /\ known \subseteq Int /\ f \in Int /\ \A g \in known : g <= f
  BY <1>1
<1>3. known # {} /\ Max(known) = f
  <2> HIDE DEF known
  <2>1. Max(known) \in known /\ \A g \in known : g <= Max(known)
    BY <1>2, MaxOfBounded
  <2> DEFINE m == Max(known)
  <2>2. m \in Int /\ m <= f /\ f <= m
    BY <1>2, <2>1
  <2> HIDE DEF m
  <2>3. m = f
    BY <1>2, <2>2
  <2> QED BY <1>2, <2>3 DEF m
<1>4. PredictRemote(s, f) = s.remote[Slot(f)].cmd
  BY <1>3 DEF PredictRemote, first
<1>5. Slot(f) \in Slots /\ s.remote[Slot(f)].frame = f /\ f # None
  BY SlotType, RingType DEF Holds
<1> QED BY <1>4, <1>5 DEF RingWithin

\* What the words of frame f are worth, to a session that has committed f.
LEMMA FrameWords ==
    ASSUME NEW p \in Peer, NEW s \in Session, Own(s), NEW f \in Frames(s.committed),
           s.highestLocal < f + HistoryFrames
    PROVE  /\ f \in Nat
           /\ FrameInputs(p, s, f) \in [Peer -> Cmd]
           /\ FrameInputs(p, s, f)[Other(p)] = PredictRemote(s, f)
           /\ [frame |-> f, cmd |-> FrameInputs(p, s, f)[p]] \in s.committed
           /\ Holds(s.remote, f) =>
                [frame |-> f, cmd |-> FrameInputs(p, s, f)[Other(p)]] \in s.received
<1>1. /\ f \in Nat /\ Holds(s.local, f)
      /\ [frame |-> f, cmd |-> s.local[Slot(f)].cmd] \in s.committed
  BY CommittedHeld
<1>2. FrameInputs(p, s, f)[Other(p)] = PredictRemote(s, f)
      /\ FrameInputs(p, s, f)[p] = s.local[Slot(f)].cmd
  BY <1>1, OtherPeer DEF FrameInputs
<1> QED BY <1>1, <1>2, FrameInputsType, PredictHeld DEF Own

\* Cutting two games at a frame up to which they are the same.
LEMMA SameCut ==
    ASSUME NEW S, NEW a \in Seq(S), NEW b \in Seq(S), NEW n \in Nat,
           n <= Len(a), n <= Len(b), \A i \in 1 .. n : a[i] = b[i]
    PROVE  SubSeq(a, 1, n) = SubSeq(b, 1, n)
<1>1. Len(a) \in Nat /\ Len(b) \in Nat
  BY LenProperties
<1>2. \A i \in 1 .. n : a[i] \in S /\ b[i] \in S
  BY <1>1, ElementOfSeq
<1>3. 1 \in Int /\ n \in Int /\ n - 1 + 1 = n /\ \A i \in 1 .. n : 1 + i - 1 = i
  OBVIOUS
<1>4. /\ SubSeq(a, 1, n) \in Seq(S) /\ SubSeq(b, 1, n) \in Seq(S)
      /\ Len(SubSeq(a, 1, n)) = n /\ Len(SubSeq(b, 1, n)) = n
      /\ \A i \in 1 .. n : SubSeq(a, 1, n)[i] = a[i] /\ SubSeq(b, 1, n)[i] = b[i]
  BY <1>2, <1>3, SubSeqProperties
<1> QED BY <1>4, SeqEqual

-----------------------------------------------------------------------------
(***************************************************************************)
(* The rollback.  It finds its boundary, and leaves the settled frames.    *)
(***************************************************************************)
\* No step unsettles a frame or changes its result.
Final(s, t) ==
    /\ Settled(s) <= Settled(t)
    /\ \A i \in 1 .. Settled(s) : s.game[i] = t.game[i]

\* What one step does to a session: at most one frame, and what was committed
\* stays.
Stepped(s, t) ==
    /\ Final(s, t)
    /\ t.frame \in {s.frame, s.frame + 1}
    /\ s.committed \subseteq t.committed

\* Boundary h after the replay from frame start, whose game is game.
LEMMA ReplayRecorded ==
    ASSUME NEW p \in Peer, NEW s \in Session, Own(s), Timeline(p, s),
           NEW t \in Session, NEW start \in Nat, s.rollbackTo = start,
           start < s.frame,
           t.frame = s.frame, t.received = s.received, t.rollbackTo = None,
           NEW game \in Seq([Peer -> Cmd]), t.game = game, Len(game) = s.frame,
           \A i \in 1 .. start : game[i] = s.game[i],
           \A f \in start .. (s.frame - 1) :
              game[f + 1][Other(p)] = PredictRemote(s, f),
           NEW k \in Slots, s.history[k].frame # None,
           t.history[k] = IF s.history[k].frame \in start .. s.frame
                          THEN Replayed(s, game, s.history[k])
                          ELSE s.history[k]
    PROVE  /\ t.history[k].frame = s.history[k].frame
           /\ Recorded(p, t, t.history[k])
<1> DEFINE h == s.history[k]
           g == t.history[k]
<1>1. /\ h \in HistorySlot /\ h.frame \in Nat /\ h.frame <= s.frame
      /\ Recorded(p, s, h) /\ s.frame \in Nat
      /\ s.game \in Seq([Peer -> Cmd]) /\ Len(s.game) = s.frame
  BY DEF Session, HistorySlot, Timeline, HistoryKept, RingFull
<1>2. MaxPrediction <= RetentionFrames /\ MaxPrediction \in Nat
      /\ RetentionFrames \in Nat
  BY RoomType, RingType
<1>3. \A f \in Frames(s.received) : start <= f => Holds(s.remote, f)
  <2> SUFFICES ASSUME NEW f \in Frames(s.received), start <= f
               PROVE  Holds(s.remote, f)
    OBVIOUS
  <2>1. s.frame <= start + MaxPrediction
    BY RingType DEF Timeline, Bounded
  <2>2. f \in Nat
    BY DEF Frames, Session, InputSet
  <2>3. s.frame <= f + RetentionFrames
    BY <1>1, <1>2, <2>1, <2>2
  <2> QED BY <2>3 DEF Timeline, ReceivedHeld
<1> HIDE DEF h, g
<1>4. CASE h.frame \in start .. s.frame
  <2>1. g = [h EXCEPT
               !.state = SubSeq(game, 1, h.frame),
               !.remoteCmd = IF h.frame = s.frame THEN Neutral
                             ELSE PredictRemote(s, h.frame),
               !.predicted = h.frame < s.frame /\ ~Holds(s.remote, h.frame)]
    BY <1>4 DEF Replayed, h, g
  <2>2. /\ g.frame = h.frame /\ g.state = SubSeq(game, 1, h.frame)
        /\ h.frame # s.frame => g.remoteCmd = PredictRemote(s, h.frame)
        /\ g.predicted <=> h.frame < s.frame /\ ~Holds(s.remote, h.frame)
    BY <1>1, <2>1 DEF HistorySlot
  <2>3. ASSUME h.frame < s.frame
        PROVE  /\ g.remoteCmd = game[h.frame + 1][Other(p)]
               /\ ~g.predicted => h.frame \in Frames(s.received)
               /\ g.predicted => h.frame \notin Frames(s.received)
    <3>1. h.frame \in start .. (s.frame - 1) /\ h.frame # s.frame /\ start <= h.frame
      BY <1>1, <1>4, <2>3
    <3>2. Holds(s.remote, h.frame) => h.frame \in Frames(s.received)
      <4>1. Holds(s.remote, h.frame)
              => [frame |-> h.frame, cmd |-> PredictRemote(s, h.frame)] \in s.received
        BY <1>1, PredictHeld DEF Own
      <4> QED BY <4>1 DEF Frames
    <3> QED BY <1>3, <2>2, <2>3, <3>1, <3>2
  <2> QED BY <2>2, <2>3 DEF Recorded, g, h
<1>5. CASE h.frame \notin start .. s.frame
  <2>1. g = h
    BY <1>5 DEF h, g
  <2>2. h.frame < start
    BY <1>1, <1>5
  <2>3. SubSeq(game, 1, h.frame) = SubSeq(s.game, 1, h.frame)
    <3>1. /\ h.frame <= Len(game) /\ h.frame <= Len(s.game)
          /\ \A i \in 1 .. h.frame : game[i] = s.game[i]
      BY <1>1, <2>2
    <3> QED BY <1>1, <3>1, SameCut
  <2>4. game[h.frame + 1] = s.game[h.frame + 1]
    <3>1. h.frame + 1 \in 1 .. start
      BY <1>1, <2>2
    <3> QED BY <3>1
  <2>5. ~Stale(s, h.frame)
    BY <1>1, <2>2 DEF Stale
  <2>6. Recorded(p, t, h)
    BY <1>1, <2>3, <2>4, <2>5 DEF Recorded
  <2> QED BY <2>1, <2>6 DEF g, h
<1> QED BY <1>4, <1>5

LEMMA RollbackTimeline ==
    ASSUME NEW p \in Peer, NEW s \in Session, Own(s), Timeline(p, s),
           Boundaries(s.history), Writes(s, InputDelay[p] - 1)
    PROVE  LET t == Rollback(p, s)
           IN  /\ Timeline(p, t) /\ Final(s, t)
               /\ t.rollbackTo = None /\ t.failed = s.failed
<1> DEFINE start == s.rollbackTo
           boundary == s.history[Slot(start)]
           tail == [i \in 1 .. (s.frame - start) |-> FrameInputs(p, s, start + i - 1)]
           game == boundary.state \o tail
           history == [k \in Slots |->
                         IF s.history[k].frame \in start .. s.frame
                         THEN Replayed(s, game, s.history[k])
                         ELSE s.history[k]]
           t == Rollback(p, s)
<1>1. /\ s.frame \in Nat /\ start \in Nat \cup {None}
      /\ s.history \in [Slots -> HistorySlot] /\ s.game \in Seq([Peer -> Cmd])
      /\ Len(s.game) = s.frame
      /\ MaxPrediction \in Nat /\ InputDelay[p] \in Nat /\ HistoryFrames \in Nat
      /\ InputDelay[Other(p)] \in Nat
      /\ 2 * MaxPrediction + InputDelay[p] + InputDelay[Other(p)] < HistoryFrames
  BY RoomType, RingType DEF Session, Timeline
<1>2. CASE start = None
  <2>1. t = s
    BY <1>2 DEF Rollback
  <2>2. Settled(s) <= Settled(s)
    BY SettledIs
  <2> HIDE DEF t
  <2> QED BY <1>2, <2>1, <2>2 DEF Final, t
<1>3. CASE start # None
  <2>1. /\ start \in Nat /\ start < s.frame /\ s.frame <= start + MaxPrediction
        /\ Slot(start) \in Slots
    BY <1>1, <1>3, SlotType DEF Timeline, Bounded
  <2>0. /\ start \in Nat /\ s.frame \in Nat /\ start < s.frame
        /\ s.frame <= start + MaxPrediction /\ MaxPrediction \in Nat
    BY <1>1, <2>1
  <2>inRing. start \in 0 .. s.frame /\ s.frame < start + HistoryFrames
    <3>1. /\ HistoryFrames \in Nat /\ MaxPrediction <= HistoryFrames - 1
      BY <1>1
    <3> HIDE DEF start
    <3> QED BY <2>0, <3>1
  <2>2. boundary.frame = start
    BY <2>inRing DEF Timeline, HistoryKept, RingFull
  <2>3. t = [s EXCEPT !.rollbackTo = None, !.game = game, !.history = history]
    <3>1. ~ \/ start >= s.frame
            \/ s.frame - start >= HistoryFrames
            \/ boundary.frame # start
      <4>1. ~(start >= s.frame) /\ ~(s.frame - start >= HistoryFrames)
        <5>1. HistoryFrames \in Nat
          BY <1>1
        <5> HIDE DEF start
        <5> QED BY <2>0, <2>inRing, <5>1
      <4> QED BY <4>1, <2>2
    <3> QED BY <1>3, <3>1, Zenon DEF Rollback
  <2>4. /\ t \in Session /\ SameExchange(s, t) /\ t.frame = s.frame
        /\ Len(t.game) = s.frame
    BY <1>1, RollbackKeeps
  <2>5. boundary \in HistorySlot /\ Recorded(p, s, boundary)
        /\ Len(boundary.state) = start
    <3>1. boundary.frame # None
      BY <2>1, <2>2, RingType
    <3> QED BY <1>1, <2>1, <2>2, <3>1
            DEF Timeline, HistoryKept, Boundaries
  <2> HIDE DEF t
  <2> DEFINE state == boundary.state
  <2>6. state \in Seq([Peer -> Cmd]) /\ state = SubSeq(s.game, 1, start)
        /\ Len(state) = start
    BY <2>2, <2>5 DEF HistorySlot, Recorded
  <2>7. \A f \in start .. (s.frame - 1) : f \in Frames(s.committed)
                                          /\ s.highestLocal < f + HistoryFrames
    <3> SUFFICES ASSUME NEW f \in start .. (s.frame - 1)
                 PROVE  f \in Frames(s.committed)
                        /\ s.highestLocal < f + HistoryFrames
      OBVIOUS
    <3>1. s.highestLocal = s.frame + (InputDelay[p] - 1)
          /\ 0 .. s.highestLocal \subseteq Frames(s.committed)
      BY DEF Writes
    <3>2. InputDelay[p] \in Nat /\ HistoryFrames \in Nat
          /\ MaxPrediction + InputDelay[p] < HistoryFrames
      BY <1>1
    <3> HIDE DEF start
    <3>3. f \in Nat /\ f < s.frame /\ start <= f
      BY <2>0
    <3>4. f \in 0 .. s.highestLocal /\ s.highestLocal < f + HistoryFrames
      BY <2>0, <3>1, <3>2, <3>3
    <3> QED BY <3>1, <3>4
  <2>8. \A f \in start .. (s.frame - 1) :
           /\ FrameInputs(p, s, f) \in [Peer -> Cmd]
           /\ FrameInputs(p, s, f)[Other(p)] = PredictRemote(s, f)
           /\ [frame |-> f, cmd |-> FrameInputs(p, s, f)[p]] \in s.committed
           /\ Holds(s.remote, f) =>
                [frame |-> f, cmd |-> FrameInputs(p, s, f)[Other(p)]] \in s.received
    BY <2>7, FrameWords
  <2>9. tail \in Seq([Peer -> Cmd]) /\ Len(tail) = s.frame - start
        /\ \A f \in start .. (s.frame - 1) : tail[f - start + 1] = FrameInputs(p, s, f)
    <3> DEFINE n == s.frame - start
    <3>1. \A i \in 1 .. n : FrameInputs(p, s, start + i - 1) \in [Peer -> Cmd]
      <4>1. \A i \in 1 .. n : start + i - 1 \in start .. (s.frame - 1)
        BY <2>0
      <4> QED BY <2>8, <4>1
    <3>2. n \in Nat
      BY <2>0
    <3>3. \A f \in start .. (s.frame - 1) : f - start + 1 \in 1 .. n
                                            /\ start + (f - start + 1) - 1 = f
      BY <2>0
    <3>4. \A f \in start .. (s.frame - 1) : tail[f - start + 1] = FrameInputs(p, s, f)
      BY <3>3
    <3>5. tail \in [1 .. n -> [Peer -> Cmd]]
      BY <3>1
    <3> HIDE DEF tail
    <3> QED BY <3>2, <3>4, <3>5
  <2> HIDE DEF state, tail
  <2>10. /\ game \in Seq([Peer -> Cmd]) /\ Len(game) = s.frame
         /\ \A i \in 1 .. start : game[i] = s.game[i]
         /\ \A f \in start .. (s.frame - 1) : game[f + 1] = FrameInputs(p, s, f)
    <3>1. /\ game \in Seq([Peer -> Cmd])
          /\ Len(game) = Len(state) + Len(tail)
          /\ \A i \in 1 .. (Len(state) + Len(tail)) :
                game[i] = IF i <= Len(state) THEN state[i] ELSE tail[i - Len(state)]
      <4>1. game = state \o tail
        BY DEF state
      <4> HIDE DEF game
      <4> QED BY <2>6, <2>9, <4>1, ConcatProperties, Zenon
    <3> HIDE DEF game
    <3>2. start + (s.frame - start) = s.frame
      BY <2>0
    <3>3. Len(game) = s.frame
      BY <2>6, <2>9, <3>1, <3>2
    <3>4. \A i \in 1 .. start : state[i] = s.game[i]
      <4>1. \A i \in 1 .. start : s.game[i] \in [Peer -> Cmd]
        BY <1>1, <2>1, ElementOfSeq
      <4>2. start - 1 + 1 = start /\ 1 \in Int /\ start \in Int
            /\ \A i \in 1 .. start : 1 + i - 1 = i
        BY <2>1
      <4> QED BY <2>6, <4>1, <4>2, SubSeqProperties
    <3>5. ASSUME NEW i \in 1 .. start PROVE game[i] = s.game[i]
      <4>1. i \in 1 .. s.frame /\ i <= start
        BY <2>0
      <4> QED BY <2>6, <2>9, <3>1, <3>2, <3>4, <4>1
    <3>6. ASSUME NEW f \in start .. (s.frame - 1)
          PROVE  game[f + 1] = FrameInputs(p, s, f)
      <4>1. f + 1 \in 1 .. s.frame /\ ~ (f + 1 <= start)
            /\ f + 1 - start = f - start + 1
        BY <2>0
      <4>2. Len(state) = start /\ Len(state) + Len(tail) = s.frame
        BY <2>6, <2>9, <3>2
      <4>3. game[f + 1] = tail[f + 1 - start]
        <5> DEFINE i == f + 1
        <5>1. i \in 1 .. (Len(state) + Len(tail)) /\ ~ (i <= Len(state))
          BY <4>1, <4>2
        <5> HIDE DEF i
        <5>2. game[i] = tail[i - Len(state)]
          BY <3>1, <5>1
        <5> QED BY <4>2, <5>2 DEF i
      <4> QED BY <2>9, <4>1, <4>3
    <3> QED BY <3>1, <3>3, <3>5, <3>6
  <2> HIDE DEF game
  <2>11. /\ t.rollbackTo = None /\ t.game = game /\ t.history = history
         /\ t.frame = s.frame /\ t.remote = s.remote /\ t.received = s.received
         /\ t.contiguous = s.contiguous /\ t.committed = s.committed
         /\ t.peerAcked = s.peerAcked /\ t.failed = s.failed
    <3> HIDE DEF history
    <3> QED BY <2>3 DEF Session
  <2>12. ASSUME NEW k \in Slots
         PROVE  t.history[k] = IF s.history[k].frame \in start .. s.frame
                               THEN Replayed(s, game, s.history[k])
                               ELSE s.history[k]
    BY <2>11
  <2> HIDE DEF history
  <2>13. ASSUME NEW k \in Slots, s.history[k].frame # None
         PROVE  /\ t.history[k].frame = s.history[k].frame
                /\ Recorded(p, t, t.history[k])
    <3>1. \A f \in start .. (s.frame - 1) :
             game[f + 1][Other(p)] = PredictRemote(s, f)
      BY <2>8, <2>10
    <3> QED BY <2>1, <2>4, <2>10, <2>11, <2>12, <2>13, <3>1, ReplayRecorded
  <2>14. \A k \in Slots : t.history[k].frame = s.history[k].frame
    <3>1. \A k \in Slots : s.history[k].frame = None =>
             s.history[k].frame \notin start .. s.frame
      BY <1>1, <2>1, RingType
    <3> QED BY <2>12, <2>13, <3>1
  <2>15. HistoryKept(p, t)
    <3>1. RingFull(t)
      <4>1. \A f \in 0 .. s.frame : Slot(f) \in Slots
        BY SlotType
      <4> QED BY <2>11, <2>14, <4>1 DEF Timeline, HistoryKept, RingFull
    <3> QED BY <2>13, <2>14, <3>1 DEF HistoryKept
  <2>16. GameFollows(p, t)
    <3> SUFFICES ASSUME NEW f \in 0 .. (s.frame - 1)
                 PROVE  /\ [frame |-> f, cmd |-> game[f + 1][p]] \in s.committed
                        /\ f \in Frames(s.received) =>
                              [frame |-> f, cmd |-> game[f + 1][Other(p)]]
                                 \in s.received
      BY <2>11 DEF GameFollows
    <3>1. CASE f < start
      <4>1. f + 1 \in 1 .. start
        BY <2>1, <3>1
      <4>2. ~Stale(s, f)
        BY <2>1, <3>1 DEF Stale
      <4>3. game[f + 1] = s.game[f + 1]
        BY <2>10, <4>1
      <4>4. GameFollows(p, s)
        BY DEF Timeline
      <4> QED BY <4>2, <4>3, <4>4 DEF GameFollows
    <3>2. CASE start <= f
      <4>1. f \in start .. (s.frame - 1) /\ game[f + 1] = FrameInputs(p, s, f)
        BY <2>1, <2>10, <3>2
      <4>2. s.frame <= f + RetentionFrames
        <5>1. /\ s.frame \in Nat /\ start \in Nat /\ f \in Nat
              /\ s.frame <= start + MaxPrediction
          BY <1>1, <2>1
        <5>2. /\ MaxPrediction \in Nat /\ RetentionFrames \in Nat
              /\ MaxPrediction <= RetentionFrames
          BY RoomType, RingType
        <5> HIDE DEF start
        <5> QED BY <3>2, <5>1, <5>2
      <4>3. f \in Frames(s.received) => Holds(s.remote, f)
        BY <4>2 DEF Timeline, ReceivedHeld
      <4> QED BY <2>8, <4>1, <4>3
    <3> QED BY <2>1, <3>1, <3>2
  <2>17. ReceivedHeld(t)
    BY <2>11 DEF Timeline, ReceivedHeld
  <2>18. Bounded(p, t)
    BY <2>11 DEF Timeline, Bounded
  <2>19. Timeline(p, t)
    BY <2>10, <2>11, <2>15, <2>16, <2>17, <2>18 DEF Timeline
  <2>20. Settled(s) \in Nat /\ Settled(s) <= s.contiguous + 1
         /\ Settled(s) <= s.frame /\ Settled(s) <= start
    BY <1>3, SettledIs
  <2> DEFINE n == Settled(s)
  <2> HIDE DEF n
  <2>21. n <= Settled(t)
    <3>1. n \in Int /\ n <= t.contiguous + 1 /\ n <= t.frame
      BY <2>11, <2>20 DEF n
    <3> QED BY <2>4, <2>11, <3>1, SettledIs
  <2>22. \A i \in 1 .. n : s.game[i] = t.game[i]
    <3>1. \A i \in 1 .. n : i \in 1 .. start
      BY <2>1, <2>20 DEF n
    <3> QED BY <2>10, <2>11, <3>1
  <2>23. Final(s, t)
    BY <2>21, <2>22 DEF Final, n
  <2> QED BY <2>11, <2>19, <2>23 DEF t
<1> QED BY <1>2, <1>3

-----------------------------------------------------------------------------
(***************************************************************************)
(* Local input and simulation, once the gates have let the frame pass.     *)
(***************************************************************************)
\* The prediction limit: only MaxPrediction frames past what was received.
LEMMA GateBounds ==
    ASSUME NEW p \in Peer, NEW s \in Session, Timeline(p, s), ~PredictionStalled(s)
    PROVE  s.frame <= s.contiguous + MaxPrediction
<1> DEFINE first == Max({0, s.frame - MaxPrediction})
           missing == {f \in first .. s.frame : ~Holds(s.remote, f)}
           c == s.contiguous + 1
<1>1. /\ s.frame \in Nat /\ MaxPrediction \in Nat /\ MaxPrediction >= 1
      /\ c \in Nat /\ c \in Int /\ s.contiguous \in Int
      /\ s.frame <= c + MaxPrediction /\ ~Holds(s.remote, c)
  <2>1. s.frame \in Nat
    BY FrameType
  <2>2. MaxPrediction \in Nat /\ MaxPrediction >= 1
    BY RoomType
  <2>3. s.contiguous \in Int /\ c \in Nat
    BY HorizonType, RingType
  <2>4. s.frame <= c + MaxPrediction
    BY DEF Timeline, Bounded
  <2>5. ~Holds(s.remote, c)
    BY DEF Timeline, ReceivedHeld
  <2> HIDE DEF c
  <2> QED BY <2>1, <2>2, <2>3, <2>4, <2>5
<1>2. SUFFICES ASSUME s.frame = c + MaxPrediction PROVE FALSE
  BY <1>1
<1>3. first = c
  <2>1. 0 \in Int /\ s.frame - MaxPrediction \in Int
    BY <1>1
  <2>2. first = IF 0 >= s.frame - MaxPrediction THEN 0 ELSE s.frame - MaxPrediction
    BY <2>1, MaxOfTwo
  <2> HIDE DEF first
  <2> QED BY <1>1, <1>2, <2>2
<1> HIDE DEF first, c
<1>4. c \in missing /\ missing \subseteq Int /\ \A f \in missing : c <= f
  BY <1>1, <1>2, <1>3
<1>5. Min(missing) = c
  <2> HIDE DEF missing
  <2>1. Min(missing) \in missing /\ \A f \in missing : Min(missing) <= f
    BY <1>1, <1>4, MinOfBounded
  <2> DEFINE m == Min(missing)
  <2>2. m \in Int /\ m <= c /\ c <= m
    BY <1>4, <2>1
  <2> HIDE DEF m
  <2>3. m = c
    BY <1>1, <2>2
  <2> QED BY <2>3 DEF m
<1>6. missing # {} /\ s.frame - Min(missing) >= MaxPrediction
  BY <1>1, <1>2, <1>4, <1>5
<1> QED BY <1>6 DEF PredictionStalled, missing, first

\* Nothing a ring behind the gate could drop is still needed.
LEMMA RingRoom ==
    ASSUME NEW p \in Peer, NEW s \in Session, Timeline(p, s),
           0 .. s.contiguous \subseteq Frames(s.received),
           s.frame <= s.contiguous + MaxPrediction,
           NEW f \in Nat, f + HistoryFrames <= s.frame + 1 + InputDelay[p]
    PROVE  /\ f <= s.peerAcked
           /\ f + HistoryFrames <= s.frame + 1 => f <= s.contiguous /\ f < s.frame
<1>1. /\ MaxPrediction \in Nat /\ MaxPrediction >= 1
      /\ InputDelay[p] \in Nat /\ InputDelay[Other(p)] \in Nat
      /\ HistoryFrames \in Nat
      /\ 2 * MaxPrediction + InputDelay[p] + InputDelay[Other(p)] < HistoryFrames
      /\ s.frame \in Nat /\ s.contiguous \in Int /\ s.contiguous >= -1
      /\ s.peerAcked \in Int /\ s.peerAcked >= -1
  <2>1. s.frame \in Nat
    BY DEF Session
  <2>2. s.contiguous \in Int /\ s.contiguous >= -1
        /\ s.peerAcked \in Int /\ s.peerAcked >= -1
    BY HorizonType, RingType
  <2> QED BY <2>1, <2>2, RoomType, RingType
<1>2. s.contiguous >= 0
         => s.contiguous <= s.peerAcked + MaxPrediction + InputDelay[Other(p)]
  <2> SUFFICES ASSUME s.contiguous >= 0
               PROVE  s.contiguous <= s.peerAcked + MaxPrediction + InputDelay[Other(p)]
    OBVIOUS
  <2>1. s.contiguous \in Frames(s.received)
    BY <1>1
  <2> QED BY <2>1 DEF Frames, Timeline, Bounded
<1>3. s.contiguous >= 0
  BY <1>1
<1> QED BY <1>1, <1>2, <1>3

LEMMA QueueLocalTimeline ==
    ASSUME NEW p \in Peer, NEW s \in Session, Own(s), Timeline(p, s),
           Writes(s, InputDelay[p] - 1), s.frame <= s.contiguous + MaxPrediction,
           NEW c \in Cmd
    PROVE  LET t == QueueLocal(s, s.frame + InputDelay[p], c)
           IN  /\ Timeline(p, t) /\ Final(s, t)
               /\ Writes(t, InputDelay[p])
               /\ s.committed \subseteq t.committed
               /\ t.rollbackTo = s.rollbackTo /\ t.contiguous = s.contiguous
<1> DEFINE f == s.frame + InputDelay[p]
           old == s.local[Slot(f)]
           local == Put(s.local, f, c)
           top == Max({s.highestLocal, f})
           i == [frame |-> f, cmd |-> c]
           committed == s.committed \cup {i}
           t == QueueLocal(s, f, c)
<1>1. /\ s.frame \in Nat /\ InputDelay[p] \in Nat /\ f \in Nat /\ f \in Int
      /\ HistoryFrames \in Nat /\ s.highestLocal = s.frame + (InputDelay[p] - 1)
      /\ s.highestLocal \in Int /\ s.highestLocal = f - 1
      /\ s.peerAcked \in Int /\ s.peerAcked >= -1
      /\ ~s.failed /\ 0 .. s.highestLocal \subseteq Frames(s.committed)
  <2>1. s.frame \in Nat /\ InputDelay[p] \in Nat /\ HistoryFrames \in Nat
    BY RoomType, RingType DEF Session
  <2>2. s.highestLocal = s.frame + (InputDelay[p] - 1) /\ s.highestLocal \in Int
        /\ s.peerAcked \in Int /\ s.peerAcked >= -1
    BY HorizonType, RingType DEF Writes
  <2> QED BY <2>1, <2>2 DEF Writes
<1>2. /\ old \in InputSlot /\ old.frame \in Int /\ old.frame >= -1
      /\ old.frame # None => /\ Slot(old.frame) = Slot(f)
                             /\ old.frame <= s.highestLocal
  <2>1. Slot(f) \in Slots
    BY <1>1, SlotType
  <2>2. old \in InputSlot
    BY <2>1 DEF Session
  <2>3. old.frame # None => /\ Slot(old.frame) = Slot(f)
                            /\ [frame |-> old.frame, cmd |-> old.cmd] \in s.committed
    BY <2>1 DEF Own, RingWithin
  <2> HIDE DEF old
  <2>4. old.frame # None => old.frame <= s.highestLocal
    BY <2>3 DEF Own, CommittedKept
  <2> QED BY <2>2, <2>3, <2>4, RingType DEF InputSlot
<1> HIDE DEF old
<1>3. old.frame # f /\ old.frame <= f /\ old.frame <= s.peerAcked
  <2>1. CASE old.frame = None
    BY <1>1, <2>1, RingType
  <2>2. CASE old.frame # None
    <3>1. old.frame < f /\ old.frame \in Nat
      BY <1>1, <1>2, <2>2, RingType
    <3>2. old.frame + HistoryFrames <= f
      BY <1>1, <1>2, <2>2, <3>1, SlotsApart
    <3>3. old.frame + HistoryFrames <= s.frame + 1 + InputDelay[p]
      BY <1>1, <3>1, <3>2
    <3>4. old.frame <= s.peerAcked
      BY <3>1, <3>3, RingRoom DEF Own
    <3> QED BY <1>1, <3>1, <3>4
  <2> QED BY <2>1, <2>2
<1>4. t = [s EXCEPT !.local = local, !.highestLocal = top, !.committed = committed]
  BY <1>3 DEF QueueLocal, MayReplace, LocalRetirable, old
<1>5. top = f
  <2>1. top = IF s.highestLocal >= f THEN s.highestLocal ELSE f
    BY <1>1, MaxOfTwo
  <2> HIDE DEF top
  <2> QED BY <1>1, <2>1
<1> HIDE DEF t, local, top
<1>6. /\ t.frame = s.frame /\ t.game = s.game /\ t.history = s.history
      /\ t.rollbackTo = s.rollbackTo /\ t.remote = s.remote
      /\ t.received = s.received /\ t.contiguous = s.contiguous
      /\ t.peerAcked = s.peerAcked /\ t.failed = s.failed
      /\ t.committed = committed /\ t.highestLocal = f
  <2> HIDE DEF committed, f
  <2> QED BY <1>4, <1>5 DEF Session
<1>7. i.frame = f /\ s.committed \subseteq committed
  OBVIOUS
<1> HIDE DEF i
<1>8. Frames(committed) = Frames(s.committed) \cup {f}
  BY <1>7 DEF Frames
<1>9. HistoryKept(p, t) /\ ReceivedHeld(t)
  BY <1>6 DEF Timeline, HistoryKept, RingFull, Recorded, Stale, ReceivedHeld
<1>10. GameFollows(p, t)
  BY <1>6, <1>7 DEF Timeline, GameFollows, Stale
<1>11. Bounded(p, t)
  <2>1. f <= s.contiguous + MaxPrediction + InputDelay[p]
    BY <1>1, HorizonType, RoomType
  <2>2. \A j \in committed : j = i \/ j \in s.committed
    OBVIOUS
  <2> HIDE DEF committed
  <2>3. \A j \in committed : j.frame <= s.contiguous + MaxPrediction + InputDelay[p]
    BY <1>7, <2>1, <2>2 DEF Timeline, Bounded
  <2> QED BY <1>6, <2>3 DEF Timeline, Bounded
<1>12. Timeline(p, t)
  BY <1>6, <1>9, <1>10, <1>11 DEF Timeline
<1>13. Writes(t, InputDelay[p])
  <2>1. 0 .. f \subseteq Frames(committed)
    <3> HIDE DEF f, committed
    <3>1. \A g \in 0 .. f : g \in 0 .. s.highestLocal \/ g = f
      BY <1>1
    <3> QED BY <1>1, <1>8, <3>1
  <2> QED BY <1>1, <1>6, <2>1 DEF Writes
<1>14. Settled(t) = Settled(s)
  BY <1>6 DEF Settled
<1>15. Final(s, t)
  BY <1>6, <1>14, SettledIs DEF Final
<1> QED BY <1>6, <1>7, <1>12, <1>13, <1>15 DEF t

\* The boundary a new one takes the place of is settled.
LEMMA BoundaryFree ==
    ASSUME NEW p \in Peer, NEW s \in Session, Timeline(p, s),
           0 .. s.contiguous \subseteq Frames(s.received),
           s.frame <= s.contiguous + MaxPrediction, s.rollbackTo = None,
           NEW state
    PROVE  FrameBoundary(s, s.frame + 1, state)
             = [s EXCEPT !.history[Slot(s.frame + 1)] =
                  [frame |-> s.frame + 1, state |-> state, remoteCmd |-> Neutral,
                   predicted |-> FALSE]]
<1> DEFINE n == s.frame + 1
           h == s.history[Slot(n)]
           settled == {f \in 0 .. Min({MutualInputHorizon(s), s.frame - 1}) :
                         /\ s.history[Slot(f)].frame = f
                         /\ ~s.history[Slot(f)].predicted}
<1>1. /\ s.frame \in Nat /\ n \in Nat /\ Slot(n) \in Slots /\ HistoryFrames \in Nat
      /\ s.contiguous \in Int /\ s.peerAcked \in Int
      /\ InputDelay[p] \in Nat
  <2>1. s.frame \in Nat
    BY DEF Session
  <2>2. n \in Nat /\ n \in Int
    BY <2>1
  <2> HIDE DEF n
  <2> QED BY <2>1, <2>2, SlotType, HorizonType, RingType, RoomType
<1>2. /\ h.frame \in Nat \cup {None}
      /\ h.frame # None => /\ h.frame <= s.frame /\ Slot(h.frame) = Slot(n)
                           /\ Recorded(p, s, h)
  BY <1>1 DEF Session, HistorySlot, Timeline, HistoryKept, RingFull
<1>3. ASSUME h.frame # None 
      PROVE  h.frame <= ChecksumHorizon(s) /\ ChecksumHorizon(s) \in Int
  <2> DEFINE g == h.frame
             low == Min({MutualInputHorizon(s), s.frame - 1})
  <2>1. g \in Nat /\ g <= s.frame /\ Slot(g) = Slot(n)
    BY <1>2, <1>3
  <2>2. s.history[Slot(g)] = h
    BY <2>1
  <2>3. Recorded(p, s, h)
    BY <1>2, <1>3
  <2> HIDE DEF h, g
  <2>4. g + HistoryFrames <= s.frame + 1
    BY <1>1, <2>1, SlotsApart
  <2>5. g <= s.peerAcked /\ g <= s.contiguous /\ g < s.frame
    BY <1>1, <2>1, <2>4, RingRoom
  <2>6. low \in Int /\ g <= low
    <3>1. MutualInputHorizon(s) \in Int /\ g <= MutualInputHorizon(s)
      BY <1>1, <2>5, MinOfTwo DEF MutualInputHorizon
    <3> DEFINE m == MutualInputHorizon(s)
    <3> HIDE DEF m
    <3>2. s.frame - 1 \in Int /\ g <= s.frame - 1
      BY <1>1, <2>1, <2>5
    <3>3. low = m \/ low = s.frame - 1
      BY <3>1, <3>2, MinOfTwo DEF m
    <3> HIDE DEF low
    <3> QED BY <3>1, <3>2, <3>3 DEF m
  <2>7. ~h.predicted
    <3>1. g \in Frames(s.received)
      BY <1>1, <2>1, <2>5
    <3> QED BY <2>3, <2>5, <3>1 DEF Recorded, Stale, g
  <2> HIDE DEF low
  <2>8. /\ g \in settled /\ settled \subseteq Int
        /\ \A f \in settled : f <= low
    BY <2>1, <2>2, <2>6, <2>7 DEF low, g
  <2>9. g <= Max(settled) /\ Max(settled) \in Int
    <3> HIDE DEF settled
    <3> QED BY <2>6, <2>8, MaxOfBounded
  <2>10. settled # {}
    BY <2>8
  <2> QED BY <2>9, <2>10 DEF ChecksumHorizon, g
<1> DEFINE u == [s EXCEPT !.history[Slot(n)] =
                   [frame |-> n, state |-> state, remoteCmd |-> Neutral,
                    predicted |-> FALSE]]
<1>4. ~ (h.frame > n \/ (h.frame \notin {None, n} /\ h.frame > ChecksumHorizon(s)))
  <2>1. CASE h.frame = None
    BY <1>1, <2>1, RingType
  <2>2. CASE h.frame # None
    <3>1. h.frame \in Nat /\ h.frame <= s.frame
          /\ h.frame <= ChecksumHorizon(s) /\ ChecksumHorizon(s) \in Int
      BY <1>2, <1>3, <2>2
    <3> QED BY <1>1, <3>1
  <2> QED BY <2>1, <2>2
<1> QED BY <1>4 DEF FrameBoundary

LEMMA SimulateFrameTimeline ==
    ASSUME NEW p \in Peer, NEW s \in Session, Own(s), Timeline(p, s),
           Writes(s, InputDelay[p]), s.rollbackTo = None,
           s.frame <= s.contiguous + MaxPrediction
    PROVE  LET t == SimulateFrame(p, s)
           IN  /\ Timeline(p, t) /\ Final(s, t)
               /\ Writes(t, InputDelay[p] - 1)
               /\ t.frame = s.frame + 1 /\ t.committed = s.committed
<1> DEFINE f == s.frame
           n == f + 1
           word == FrameInputs(p, s, f)
           game == Append(s.game, word)
           fresh == [frame |-> n, state |-> game, remoteCmd |-> Neutral,
                     predicted |-> FALSE]
           b == FrameBoundary(s, n, game)
           ticked == Tick(p, s, f)
           t == SimulateFrame(p, s)
<1>1. /\ f \in Nat /\ n \in Nat /\ Slot(f) \in Slots /\ Slot(n) \in Slots
      /\ HistoryFrames \in Nat /\ HistoryFrames >= 3
      /\ InputDelay[p] \in Nat /\ InputDelay[p] < HistoryFrames
      /\ s.contiguous \in Int
      /\ s.history \in [Slots -> HistorySlot]
      /\ s.game \in Seq([Peer -> Cmd]) /\ Len(s.game) = f
  <2>1. /\ f \in Nat /\ n \in Nat /\ s.history \in [Slots -> HistorySlot]
        /\ s.game \in Seq([Peer -> Cmd]) /\ Len(s.game) = f
    BY DEF Session, Timeline
  <2> HIDE DEF f, n
  <2>2. HistoryFrames \in Nat /\ HistoryFrames >= 3
        /\ InputDelay[p] \in Nat /\ InputDelay[p] < HistoryFrames
    BY RoomType, RingType
  <2> QED BY <2>1, <2>2, SlotType, HorizonType
<1>2. Slot(f) # Slot(n)
  <2> HIDE DEF f
  <2> QED BY <1>1, SlotsApart
<1>3. s.history[Slot(f)].frame = f
  <2>1. f \in 0 .. s.frame /\ s.frame < f + HistoryFrames
    BY <1>1
  <2> QED BY <2>1 DEF Timeline, HistoryKept, RingFull
<1>4. SavePreState(s) = s
  BY <1>3 DEF SavePreState
<1>5. /\ word \in [Peer -> Cmd] /\ word[Other(p)] = PredictRemote(s, f)
      /\ [frame |-> f, cmd |-> word[p]] \in s.committed
      /\ Holds(s.remote, f) => [frame |-> f, cmd |-> word[Other(p)]] \in s.received
  <2>1. s.highestLocal = f + InputDelay[p]
        /\ 0 .. s.highestLocal \subseteq Frames(s.committed)
    BY DEF Writes
  <2>2. f \in 0 .. s.highestLocal /\ s.highestLocal < f + HistoryFrames
    <3> HIDE DEF f
    <3> QED BY <1>1, <2>1
  <2> QED BY <2>1, <2>2, FrameWords
<1>6. b = [s EXCEPT !.history[Slot(n)] = fresh]
  <2>1. 0 .. s.contiguous \subseteq Frames(s.received)
    BY DEF Own
  <2> HIDE DEF word, game
  <2> QED BY <2>1, BoundaryFree
<1> HIDE DEF word
<1>7. /\ game \in Seq([Peer -> Cmd]) /\ Len(game) = n
      /\ game[n] = word /\ \A i \in 1 .. f : game[i] = s.game[i]
  <2> HIDE DEF f
  <2> QED BY <1>1, <1>5, AppendProperties DEF n
<1>8. fresh \in HistorySlot /\ fresh.frame = n /\ fresh.state = game
  BY <1>1, <1>7, CmdAssumption DEF HistorySlot
<1> HIDE DEF game, fresh
<1> DEFINE guess == ~Holds(s.remote, f)
           other == word[Other(p)]
           e == [s.history[Slot(f)] EXCEPT !.remoteCmd = other, !.predicted = guess]
           history == [[s.history EXCEPT ![Slot(n)] = fresh] EXCEPT ![Slot(f)] = e]
<1>9. /\ history[Slot(n)] = fresh /\ history[Slot(f)] = e
      /\ \A k \in Slots : k # Slot(n) /\ k # Slot(f) => history[k] = s.history[k]
  BY <1>1, <1>2
<1>10. /\ e.frame = f /\ e.state = s.history[Slot(f)].state
       /\ e.remoteCmd = other /\ (e.predicted <=> guess)
  BY <1>1, <1>3 DEF HistorySlot
<1>11. t = [s EXCEPT !.history = history, !.game = game, !.frame = n]
  <2> DEFINE k == Slot(f)
             kept == [s.history EXCEPT ![Slot(n)] = fresh]
             last == [kept[k] EXCEPT !.remoteCmd = other, !.predicted = guess]
             both == [kept EXCEPT ![k] = last]
  <2>1. ticked = [b EXCEPT !.game = game, !.history[k].remoteCmd = other,
                           !.history[k].predicted = guess]
    BY DEF Tick, game, word
  <2>2. /\ b = [s EXCEPT !.history = kept] /\ k \in Slots
        /\ kept \in [Slots -> HistorySlot] /\ kept[k] = s.history[k]
    BY <1>1, <1>2, <1>6, <1>8 DEF Session
  <2>3. ticked = [s EXCEPT !.game = game, !.history = history]
    <3>1. both = history
      BY <2>2
    <3> HIDE DEF guess, other, b, kept, k, ticked, history
    <3>2. b \in Session /\ b.history = kept
      BY <2>2 DEF Session
    <3>3. ticked = [b EXCEPT !.game = game, !.history = both]
      BY <2>1, <2>2, <3>2 DEF Session
    <3> HIDE DEF both
    <3> QED BY <2>2, <3>1, <3>3 DEF Session
  <2>4. ~ticked.failed
    <3> HIDE DEF history, ticked
    <3>1. ticked.failed = s.failed
      BY <2>3 DEF Session
    <3> QED BY <3>1 DEF Writes
  <2>5. t = [ticked EXCEPT !.frame = n]
    BY <1>4, <2>4 DEF SimulateFrame
  <2> HIDE DEF ticked, history, t
  <2> QED BY <2>3, <2>5 DEF Session
<1> HIDE DEF e, history, t
<1>12. /\ t.frame = n /\ t.game = game /\ t.history = history
       /\ t.rollbackTo = None /\ t.remote = s.remote /\ t.received = s.received
       /\ t.contiguous = s.contiguous /\ t.committed = s.committed
       /\ t.peerAcked = s.peerAcked /\ t.failed = s.failed
       /\ t.highestLocal = s.highestLocal
  BY <1>11 DEF Session
<1>13. \A k \in Slots : s.history[k].frame # None =>
          /\ s.history[k].frame \in Nat /\ s.history[k].frame <= f
          /\ Slot(s.history[k].frame) = k
          /\ Recorded(p, s, s.history[k])
  BY <1>1 DEF Timeline, HistoryKept, RingFull, HistorySlot
<1>14. RingFull(t)
  <2>1. ASSUME NEW g \in 0 .. n, n < g + HistoryFrames
        PROVE  history[Slot(g)].frame = g
    <3>1. CASE g = n
      BY <1>8, <1>9, <3>1
    <3>2. CASE g = f
      BY <1>9, <1>10, <3>2
    <3>3. CASE g < f
      <4>1. g \in Nat /\ g < n /\ f < g + HistoryFrames /\ g \in 0 .. f
            /\ ~ (g + HistoryFrames <= n) /\ ~ (g + HistoryFrames <= f)
        <5> HIDE DEF f
        <5> QED BY <1>1, <2>1, <3>3 DEF n
      <4>2. Slot(g) # Slot(n) /\ Slot(g) # Slot(f) /\ Slot(g) \in Slots
        <5> HIDE DEF f, n
        <5> QED BY <1>1, <3>3, <4>1, SlotsApart, SlotType
      <4>3. s.history[Slot(g)].frame = g
        BY <4>1 DEF Timeline, HistoryKept, RingFull
      <4> QED BY <1>9, <4>2, <4>3
    <3> HIDE DEF f
    <3> QED BY <1>1, <2>1, <3>1, <3>2, <3>3 DEF n
  <2>2. ASSUME NEW k \in Slots, history[k].frame # None
        PROVE  history[k].frame <= n /\ Slot(history[k].frame) = k
    <3>1. CASE k = Slot(n)
      BY <1>1, <1>8, <1>9, <3>1
    <3>2. CASE k = Slot(f)
      BY <1>1, <1>9, <1>10, <3>2
    <3>3. CASE k # Slot(n) /\ k # Slot(f)
      BY <1>1, <1>9, <1>13, <2>2, <3>3
    <3> QED BY <3>1, <3>2, <3>3
  <2> QED BY <1>12, <2>1, <2>2 DEF RingFull
\* The old game is the new one up to frame f.
<1>15. \A g \in 0 .. f : SubSeq(s.game, 1, g) = SubSeq(game, 1, g)
  <2> SUFFICES ASSUME NEW g \in 0 .. f PROVE SubSeq(s.game, 1, g) = SubSeq(game, 1, g)
    OBVIOUS
  <2> HIDE DEF f
  <2>1. /\ g \in Nat /\ g <= Len(s.game) /\ g <= Len(game)
        /\ \A i \in 1 .. g : s.game[i] = game[i]
    BY <1>1, <1>7 DEF n
  <2> QED BY <1>1, <1>7, <2>1, SameCut
<1>16. Holds(s.remote, f) <=> f \in Frames(s.received)
  <2>1. f \in Frames(s.received) => Holds(s.remote, f)
    <3>1. s.frame <= f + RetentionFrames
      BY <1>1, RingType
    <3> QED BY <3>1 DEF Timeline, ReceivedHeld
  <2>2. Holds(s.remote, f) => f \in Frames(s.received)
    BY <1>5 DEF Frames
  <2> QED BY <2>1, <2>2
<1>17. ASSUME NEW k \in Slots, history[k].frame # None
       PROVE  Recorded(p, t, history[k])
  <2>1. CASE k = Slot(n)
    <3>1. SubSeq(game, 1, n) = game
      BY <1>7, SubSeqFull
    <3>2. ~ (n < n)
      BY <1>1
    <3> QED BY <1>8, <1>9, <1>12, <2>1, <3>1, <3>2 DEF Recorded
  <2>2. CASE k = Slot(f)
    <3>1. Recorded(p, s, s.history[k]) /\ s.history[k].state = SubSeq(s.game, 1, f)
      <4>1. s.history[k].frame # None
        BY <1>1, <1>3, <2>2, RingType
      <4> QED BY <1>3, <1>13, <2>2, <4>1 DEF Recorded
    <3>2. history[k].frame = f /\ history[k].state = SubSeq(game, 1, f)
      BY <1>1, <1>9, <1>10, <1>15, <2>2, <3>1
    <3>3. /\ history[k].remoteCmd = game[f + 1][Other(p)]
          /\ history[k].predicted <=> f \notin Frames(s.received)
      BY <1>7, <1>9, <1>10, <1>16, <2>2
    <3> QED BY <1>12, <3>2, <3>3 DEF Recorded
  <2>3. CASE k # Slot(n) /\ k # Slot(f)
    <3> DEFINE h == s.history[k]
    <3>1. history[k] = h
      BY <1>9, <2>3
    <3>2. h.frame \in Nat /\ h.frame <= f /\ h.frame # f /\ Recorded(p, s, h)
      BY <1>13, <2>3, <1>17, <3>1
    <3> HIDE DEF h
    <3>3. /\ h.frame \in 0 .. f /\ h.frame < f /\ h.frame + 1 \in 1 .. f
      BY <1>1, <3>2
    <3>4. h.state = SubSeq(game, 1, h.frame)
          /\ game[h.frame + 1] = s.game[h.frame + 1]
      BY <1>7, <1>15, <3>2, <3>3 DEF Recorded
    <3>5. /\ h.remoteCmd = s.game[h.frame + 1][Other(p)]
          /\ ~h.predicted => h.frame \in Frames(s.received)
          /\ h.predicted => h.frame \notin Frames(s.received)
      BY <3>2, <3>3 DEF Recorded, Stale
    <3> QED BY <1>12, <3>1, <3>4, <3>5 DEF Recorded
  <2> QED BY <2>1, <2>2, <2>3
<1>18. GameFollows(p, t)
  <2> SUFFICES ASSUME NEW g \in 0 .. f
               PROVE  /\ [frame |-> g, cmd |-> game[g + 1][p]] \in s.committed
                      /\ g \in Frames(s.received) =>
                            [frame |-> g, cmd |-> game[g + 1][Other(p)]]
                               \in s.received
    <3>1. n - 1 = f
      BY <1>1
    <3> QED BY <1>12, <3>1 DEF GameFollows
  <2>1. CASE g = f
    BY <1>5, <1>7, <1>16, <2>1
  <2>2. CASE g # f
    <3>1. g \in 0 .. (s.frame - 1) /\ g + 1 \in 1 .. f
      BY <1>1, <2>2
    <3>2. game[g + 1] = s.game[g + 1]
      BY <1>7, <3>1
    <3> QED BY <3>1, <3>2 DEF Timeline, GameFollows, Stale
  <2> QED BY <2>1, <2>2
<1>19. ReceivedHeld(t)
  <2>1. \A g \in Frames(s.received) : n <= g + RetentionFrames => Holds(s.remote, g)
    <3>1. \A g \in Frames(s.received) : g \in Nat
      BY DEF Session, InputSet, Frames
    <3>2. \A g \in Frames(s.received) : n <= g + RetentionFrames
                                           => s.frame <= g + RetentionFrames
      BY <1>1, <3>1, RingType
    <3> QED BY <3>2 DEF Timeline, ReceivedHeld
  <2> QED BY <1>12, <2>1 DEF Timeline, ReceivedHeld
<1>20. Bounded(p, t)
  <2>1. n <= s.contiguous + 1 + MaxPrediction
    <3>1. f \in Nat /\ f <= s.contiguous + MaxPrediction /\ s.contiguous \in Int
          /\ MaxPrediction \in Nat
      BY <1>1, RoomType
    <3> HIDE DEF f
    <3> QED BY <3>1 DEF n
  <2> QED BY <1>12, <2>1 DEF Timeline, Bounded
<1>21. Timeline(p, t)
  BY <1>7, <1>12, <1>14, <1>17, <1>18, <1>19, <1>20 DEF Timeline, HistoryKept
<1>22. Writes(t, InputDelay[p] - 1)
  <2>1. n + (InputDelay[p] - 1) = f + InputDelay[p]
    <3>1. f \in Nat /\ InputDelay[p] \in Nat
      BY <1>1
    <3> HIDE DEF f
    <3> QED BY <3>1 DEF n
  <2> QED BY <1>12, <2>1 DEF Writes
<1>23. Final(s, t)
  <2> DEFINE m == Settled(s)
  <2>1. m \in Nat /\ m <= s.contiguous + 1 /\ m <= f
    BY SettledIs
  <2> HIDE DEF m
  <2>2. m <= Settled(t)
    <3>1. t \in Session
      <4>1. history \in [Slots -> HistorySlot]
        <5>1. e \in HistorySlot
          BY <1>1, <1>5, OtherPeer DEF e, HistorySlot
        <5> DEFINE kept == [s.history EXCEPT ![Slot(n)] = fresh]
        <5>2. kept \in [Slots -> HistorySlot]
          BY <1>1, <1>8
        <5>3. history = [kept EXCEPT ![Slot(f)] = e]
          BY DEF history
        <5> HIDE DEF kept
        <5> QED BY <5>1, <5>2, <5>3
      <4>2. ASSUME NEW h \in [Slots -> HistorySlot], NEW g \in Seq([Peer -> Cmd]), NEW x \in Nat
            PROVE  [s EXCEPT !.history = h, !.game = g, !.frame = x] \in Session
        BY DEF Session
      <4> HIDE DEF n
      <4> QED BY <1>1, <1>7, <1>11, <4>1, <4>2
    <3>2. m \in Int /\ m <= t.contiguous + 1 /\ m <= t.frame
      BY <1>1, <1>12, <2>1
    <3> QED BY <1>12, <3>1, <3>2, SettledIs
  <2>3. \A i \in 1 .. m : s.game[i] = game[i]
    BY <1>1, <1>7, <2>1
  <2> QED BY <1>12, <2>2, <2>3 DEF Final, m
<1> QED BY <1>12, <1>21, <1>22, <1>23 DEF t

-----------------------------------------------------------------------------
(***************************************************************************)
(* The start, and the steps of the two sessions.                           *)
(***************************************************************************)
LEMMA FinalTransitive ==
    ASSUME NEW s \in Session, NEW t \in Session, NEW u \in Session,
           Final(s, t), Final(t, u)
    PROVE  Final(s, u)
<1>1. Settled(s) \in Nat /\ Settled(t) \in Nat /\ Settled(u) \in Nat
  BY SettledIs
<1>2. Settled(s) <= Settled(t) /\ Settled(t) <= Settled(u)
  BY DEF Final
<1>3. \A i \in 1 .. Settled(s) : i \in 1 .. Settled(t)
  BY <1>1, <1>2
<1> QED BY <1>1, <1>2, <1>3 DEF Final

LEMMA SameTimelineFinal ==
    ASSUME NEW s \in Session, NEW t, SameTimeline(s, t)
    PROVE  Final(s, t)
<1>1. Settled(t) = Settled(s) /\ Settled(s) \in Nat
  BY SettledIs DEF Settled, SameTimeline
<1> QED BY <1>1 DEF Final, SameTimeline

LEMMA PastThrottleTimeline ==
    ASSUME NEW s \in Session, NEW n \in Nat
    PROVE  \A t \in {[s EXCEPT !.throttled = n], PastThrottle(s)} :
             /\ SameTimeline(s, t) /\ t.failed = s.failed
             /\ t.highestLocal = s.highestLocal /\ t.peerAcked = s.peerAcked
<1> DEFINE m == IF TooFarAhead(s) THEN s.throttled ELSE 0
<1>1. PastThrottle(s) = [s EXCEPT !.throttled = m]
  BY DEF PastThrottle
<1> HIDE DEF m
<1> QED BY <1>1 DEF Session, SameTimeline

LEMMA PacketTimely ==
    ASSUME NEW p \in Peer, NEW s \in Session, Own(s), Bounded(p, s)
    PROVE  Timely(Packet(p, s))
<1> DEFINE m == Packet(p, s)
<1>1. m.to = Other(p) /\ m.inputs \subseteq s.committed
  BY PacketTruthful DEF Truthful
<1>2. m.base = s.contiguous
  BY DEF Packet
<1> HIDE DEF m
<1>3. Other(m.to) = p
  BY <1>1, OtherPeer
<1> QED BY <1>1, <1>2, <1>3 DEF Bounded, Timely, m

LEMMA HandlePacketTimeline ==
    ASSUME NEW p \in Peer, NEW s \in Session, NEW o \in Session,
           Consistent(s, o), Consistent(o, s), Timeline(p, s),
           NEW m \in Message, m.to = p, Truthful(m, o), Timely(m)
    PROVE  LET t == HandlePacket(s, m)
           IN  /\ Timeline(p, t) /\ Final(s, t)
               /\ t.failed = s.failed /\ t.highestLocal = s.highestLocal
               /\ t.frame = s.frame /\ t.committed = s.committed
<1> DEFINE a == NotePeerAck(s, m)
           b == NoteRemoteFrame(a, m.frame)
           t == HandlePacket(s, m)
<1>1. t = NoteRemoteInputs(b, m.inputs)
  BY EnvelopeHolds DEF HandlePacket
<1> HIDE DEF t
<1>2. /\ m.frame \in Nat /\ m.inputs \subseteq o.committed
      /\ m.inputs \subseteq InputSet
  BY DEF Message, Truthful
<1>3. Consistent(a, o) /\ a \in Session
  BY NotePeerAckKeeps DEF Consistent
<1>4. /\ SameTimeline(s, a) /\ a.failed = s.failed
      /\ a.highestLocal = s.highestLocal /\ m.base <= a.peerAcked
      /\ s.peerAcked <= a.peerAcked
  BY NotePeerAckTimeline, NotePeerAckKeeps DEF Grows
<1> HIDE DEF a
<1>5. Consistent(b, o) /\ b \in Session
  BY <1>2, <1>3, NoteRemoteFrameKeeps DEF Consistent
<1>6. /\ SameTimeline(a, b) /\ b.failed = a.failed
      /\ b.highestLocal = a.highestLocal /\ b.peerAcked = a.peerAcked
  BY <1>2, <1>3, NoteRemoteFrameTimeline
<1> HIDE DEF b
<1>7. SameTimeline(s, b)
  BY <1>4, <1>6 DEF SameTimeline
<1>8. Timeline(p, b) /\ Final(s, b)
  BY <1>4, <1>5, <1>6, <1>7, SameTimelineKeeps, SameTimelineFinal
<1>9. Consistent(t, o) /\ t \in Session /\ b.contiguous <= t.contiguous
  BY <1>1, <1>2, <1>5, NoteRemoteInputsKeeps DEF Consistent, Grows
<1>10. PICK new \in SUBSET m.inputs : Noted(b, t, new)
  <2>1. \A i, j \in m.inputs : i.frame = j.frame => i = j
    BY <1>2 DEF Consistent, Own, CommittedOnce
  <2> QED BY <1>1, <1>2, <1>5, <2>1, InputsNoted
<1>11. \A i \in new :
          i.frame <= b.peerAcked + MaxPrediction + InputDelay[Other(p)]
  <2>1. \A i \in new : i.frame \in Nat
    BY <1>2 DEF InputSet
  <2>2. \A i \in new : i.frame <= m.base + MaxPrediction + InputDelay[Other(p)]
    BY DEF Timely
  <2>3. m.base \in Int
    BY RingType DEF Message
  <2> QED BY <1>3, <1>4, <1>6, <2>1, <2>2, <2>3, HorizonType, RoomType
<1>12. Timeline(p, t) /\ Settled(b) <= Settled(t)
  <2>1. 0 .. b.contiguous \subseteq Frames(b.received)
    BY <1>5 DEF Consistent, Own
  <2> QED BY <1>5, <1>8, <1>9, <1>10, <1>11, <2>1, NotedTimeline
<1>13. /\ t.game = b.game /\ t.failed = b.failed /\ t.frame = b.frame
       /\ t.highestLocal = b.highestLocal /\ t.committed = b.committed
  BY <1>10 DEF Noted
<1>14. Final(b, t)
  BY <1>12, <1>13 DEF Final
<1>15. Final(s, t)
  BY <1>5, <1>8, <1>9, <1>14, FinalTransitive
<1> QED BY <1>4, <1>6, <1>7, <1>12, <1>13, <1>15 DEF SameTimeline, t

LEMMA InitialTimeline ==
    ASSUME NEW p \in Peer
    PROVE  /\ Timeline(p, InitialSession(p))
           /\ Writes(InitialSession(p), InputDelay[p] - 1)
<1> DEFINE s == InitialSession(p)
           D == InputDelay[p]
           seeded == 0 .. (D - 1)
           committed == {[frame |-> f, cmd |-> Neutral] : f \in seeded}
           history == [k \in Slots |->
                         IF k = 0 THEN [NoHistory EXCEPT !.frame = 0]
                         ELSE NoHistory]
<1>1. /\ s.frame = 0 /\ s.highestLocal = D - 1 /\ s.peerAcked = None
      /\ s.contiguous = None /\ s.rollbackTo = None /\ s.game = <<>>
      /\ s.history = history /\ ~s.failed
      /\ s.committed = committed /\ s.received = {}
      /\ s.remote = [k \in Slots |-> NoInput]
  BY DEF InitialSession
<1> HIDE DEF s
<1>2. D \in Nat /\ MaxPrediction \in Nat /\ HistoryFrames \in Nat /\ MaxPrediction >= 1
      /\ 0 \in Slots /\ Slot(0) = 0 /\ None = -1
  <2>1. 0 \in Slots
    BY RingType
  <2> QED BY <2>1, SlotOfSmall, RingType, RoomType
<1>3. /\ [NoHistory EXCEPT !.frame = 0].frame = 0
      /\ [NoHistory EXCEPT !.frame = 0].state = <<>>
      /\ NoHistory.frame = None
  BY DEF NoHistory
<1>4. \A k \in Slots : history[k].frame # None =>
         k = 0 /\ history[k].frame = 0 /\ history[k].state = <<>>
  BY <1>3
<1>5. history[0].frame = 0
  BY <1>2, <1>3
<1> HIDE DEF history
<1>6. Frames(committed) = seeded
  <2>1. \A f \in seeded : /\ [frame |-> f, cmd |-> Neutral] \in committed
                          /\ [frame |-> f, cmd |-> Neutral].frame = f
    OBVIOUS
  <2>2. \A i \in committed : i.frame \in seeded
    OBVIOUS
  <2> HIDE DEF committed, seeded
  <2> QED BY <2>1, <2>2 DEF Frames
<1>7. \A i \in committed : i.frame \in Nat /\ i.frame <= D - 1
  BY <1>2
<1> HIDE DEF committed, D
<1>8. HistoryKept(p, s)
  <2>1. RingFull(s)
    BY <1>1, <1>2, <1>4, <1>5 DEF RingFull
  <2>2. SubSeq(<<>>, 1, 0) = <<>>
    BY SubSeqEmpty
  <2>3. ASSUME NEW k \in Slots, history[k].frame # None
        PROVE  Recorded(p, s, history[k])
    <3>1. /\ history[k].frame = 0 /\ history[k].state = <<>>
          /\ SubSeq(s.game, 1, 0) = <<>> /\ ~ (0 < s.frame)
      BY <1>1, <1>4, <2>2, <2>3
    <3> QED BY <3>1 DEF Recorded
  <2> QED BY <1>1, <2>1, <2>3 DEF HistoryKept
<1>9. GameFollows(p, s)
  BY <1>1 DEF GameFollows
<1>10. ReceivedHeld(s)
  <2>1. Frames(s.received) = {}
    BY <1>1 DEF Frames
  <2>2. ~Holds(s.remote, s.contiguous + 1)
    BY <1>1, <1>2 DEF Holds, NoInput
  <2> QED BY <2>1, <2>2 DEF ReceivedHeld
<1>11. Bounded(p, s)
  <2>1. \A i \in committed : i.frame <= None + MaxPrediction + D
    BY <1>2, <1>7
  <2> QED BY <1>1, <1>2, <2>1 DEF Bounded, D
<1>12. Len(s.game) = s.frame
  BY <1>1
<1>13. Writes(s, InputDelay[p] - 1)
  <2>1. D - 1 = 0 + (D - 1)
    BY <1>2
  <2> QED BY <1>1, <1>6, <2>1 DEF Writes, D
<1> QED BY <1>8, <1>9, <1>10, <1>11, <1>12, <1>13 DEF Timeline, s

LEMMA TInv_Init == Init => TInv
<1> SUFFICES ASSUME Init PROVE TInv
  OBVIOUS
<1>1. \A p \in Peer : session[p] = InitialSession(p)
  BY DEF Init
<1>2. net = {}
  BY DEF Init
<1> QED BY <1>1, <1>2, IInv_Init, InitialTimeline DEF TInv

\* One session moves, or none.
OneStep ==
    /\ \A p \in Peer : Stepped(session[p], session'[p])
    /\ \E p \in Peer : \A q \in Peer : q # p => session'[q] = session[q]

\* A step that takes p's session to t.
LEMMA TimelineStep ==
    ASSUME TInv, IInv', NEW p \in Peer, NEW t,
           Timeline(p, t), Writes(t, InputDelay[p] - 1),
           Stepped(session[p], t),
           session' = [session EXCEPT ![p] = t],
           \A m \in net' : m \in net \/ Timely(m)
    PROVE  TInv' /\ OneStep
<1>1. session \in [Peer -> Session]
  BY DEF TInv, IInv
<1>2. session'[p] = t /\ \A q \in Peer : q # p => session'[q] = session[q]
  BY <1>1
<1>3. \A q \in Peer : /\ Timeline(q, session'[q])
                      /\ Writes(session'[q], InputDelay[q] - 1)
  BY <1>2 DEF TInv
<1>4. \A m \in net' : Timely(m)
  BY DEF TInv
<1>5. ASSUME NEW q \in Peer PROVE Stepped(session[q], session'[q])
  <2>1. CASE q = p
    BY <1>2, <2>1
  <2>2. CASE q # p
    <3>1. session[q] \in Session /\ SameTimeline(session[q], session[q])
      BY <1>1 DEF SameTimeline
    <3> QED BY <1>2, <2>2, <3>1, SameTimelineFinal DEF Stepped
  <2> QED BY <2>1, <2>2
<1> QED BY <1>2, <1>3, <1>4, <1>5 DEF TInv, OneStep

LEMMA ReceiveTimeline ==
    ASSUME TInv, IInv', NEW p \in Peer, Receive(p)
    PROVE  TInv' /\ OneStep
<1> DEFINE s == session[p]
           o == session[Other(p)]
<1>1. PICK m \in net : /\ m.to = p
                       /\ session' = [session EXCEPT ![p] = HandlePacket(@, m)]
                       /\ net' = net \ {m}
  BY DEF Receive
<1> DEFINE t == HandlePacket(s, m)
<1>2. /\ s \in Session /\ o \in Session /\ Consistent(s, o) /\ Consistent(o, s)
      /\ Timeline(p, s) /\ Writes(s, InputDelay[p] - 1)
  BY OtherPeer DEF TInv, IInv
<1>3. m \in Message /\ Truthful(m, o) /\ Timely(m)
  BY <1>1 DEF TInv, IInv
<1>4. session' = [session EXCEPT ![p] = t]
  BY <1>1
<1> HIDE DEF s, o
<1>5. /\ Timeline(p, t) /\ Final(s, t)
      /\ t.failed = s.failed /\ t.highestLocal = s.highestLocal
      /\ t.frame = s.frame /\ t.committed = s.committed
  BY <1>1, <1>2, <1>3, HandlePacketTimeline
<1> HIDE DEF t
<1>6. Writes(t, InputDelay[p] - 1) /\ Stepped(s, t)
  BY <1>2, <1>5 DEF Writes, Stepped
<1> QED BY <1>1, <1>4, <1>5, <1>6, TimelineStep DEF s

LEMMA AdvanceTimeline ==
    ASSUME TInv, IInv', NEW p \in Peer, Advance(p)
    PROVE  TInv' /\ OneStep
<1> DEFINE s0 == session[p]
           o == session[Other(p)]
           s == Rollback(p, s0)
           D == InputDelay[p]
           fits(t) == Timeline(p, t) /\ Writes(t, D - 1) /\ Stepped(s0, t)
<1>1. PICK links \in Sent(net, Packet(p, s0)) :
         IF Started(s0)
         THEN \/ Throttle(p, s, links)
              \/ Stall(p, s, links)
              \/ Simulate(p, s, links)
         ELSE net' = links /\ UNCHANGED session
  BY DEF Advance
<1>2. /\ s0 \in Session /\ o \in Session /\ Consistent(s0, o)
      /\ Own(s0) /\ Boundaries(s0.history) /\ Len(s0.game) = s0.frame
      /\ session \in [Peer -> Session]
      /\ Timeline(p, s0) /\ Writes(s0, D - 1)
  BY OtherPeer DEF TInv, IInv, Consistent
<1>3. \A m \in links : m \in net \/ Timely(m)
  <2>1. links \subseteq net \cup {Packet(p, s0)}
    BY <1>1, SentWithin
  <2>2. Timely(Packet(p, s0))
    BY <1>2, PacketTimely DEF Timeline
  <2> QED BY <2>1, <2>2
<1>4. ASSUME NEW t, fits(t), session' = [session EXCEPT ![p] = t],
             \A m \in net' : m \in net \/ Timely(m)
      PROVE  TInv' /\ OneStep
  BY <1>4, TimelineStep
<1>5. /\ s \in Session /\ SameExchange(s0, s) /\ Boundaries(s.history)
      /\ s.frame = s0.frame /\ Len(s.game) = s0.frame
  BY <1>2, RollbackKeeps
<1>6. /\ Timeline(p, s) /\ Final(s0, s)
      /\ s.rollbackTo = None /\ s.failed = s0.failed
  BY <1>2, RollbackTimeline
<1>7. CASE ~Started(s0)
  <2>1. session' = [session EXCEPT ![p] = s0] /\ net' = links
    BY <1>1, <1>2, <1>7
  <2>2. SameTimeline(s0, s0)
    BY DEF SameTimeline
  <2> HIDE DEF s0
  <2>3. fits(s0)
    BY <1>2, <2>2, SameTimelineFinal DEF Stepped
  <2> HIDE DEF fits
  <2> QED BY <1>3, <1>4, <2>1, <2>3
<1> HIDE DEF s, s0, o
<1>8. Consistent(s, o) /\ Own(s) /\ Writes(s, D - 1)
  BY <1>2, <1>5, <1>6, SameExchangeKeeps DEF Consistent, Writes, SameExchange
\* A gate only moves the throttle timer of the session after the rollback.
<1>9. ASSUME NEW u \in Session, SameTimeline(s, u), u.failed = s.failed,
             u.highestLocal = s.highestLocal, u.peerAcked = s.peerAcked
      PROVE  fits(u)
  <2>1. Timeline(p, u)
    BY <1>5, <1>6, <1>9, HorizonType, SameTimelineKeeps
  <2>2. Writes(u, D - 1)
    BY <1>8, <1>9 DEF SameTimeline, Writes
  <2>3. Final(s0, u)
    BY <1>2, <1>5, <1>6, <1>9, SameTimelineFinal, FinalTransitive
  <2>4. Stepped(s0, u)
    BY <1>5, <1>9, <2>3 DEF Stepped, SameTimeline, SameExchange
  <2> QED BY <2>1, <2>2, <2>4
<1>10. CASE Throttle(p, s, links)
  <2> DEFINE n == s.throttled + 1
             u == [s EXCEPT !.throttled = n]
  <2>1. session' = [session EXCEPT ![p] = u] /\ net' = links
    BY <1>10 DEF Throttle
  <2>2. n \in Nat
    BY <1>5 DEF Session
  <2> HIDE DEF n
  <2>3. /\ u \in Session /\ SameTimeline(s, u) /\ u.failed = s.failed
        /\ u.highestLocal = s.highestLocal /\ u.peerAcked = s.peerAcked
    BY <1>5, <2>2, PastThrottleKeeps, PastThrottleTimeline
  <2> HIDE DEF u
  <2>4. fits(u)
    BY <2>3, <1>9
  <2> HIDE DEF fits
  <2> QED BY <1>3, <1>4, <2>1, <2>4
<1>11. CASE Stall(p, s, links)
  <2> DEFINE u == PastThrottle(s)
  <2>1. session' = [session EXCEPT ![p] = u] /\ net' = links
    BY <1>11 DEF Stall
  <2>2. 0 \in Nat
    OBVIOUS
  <2>3. /\ u \in Session /\ SameTimeline(s, u) /\ u.failed = s.failed
        /\ u.highestLocal = s.highestLocal /\ u.peerAcked = s.peerAcked
    BY <1>5, <2>2, PastThrottleKeeps, PastThrottleTimeline
  <2> HIDE DEF u
  <2>4. fits(u)
    BY <2>3, <1>9
  <2> HIDE DEF fits
  <2> QED BY <1>3, <1>4, <2>1, <2>4
<1>12. CASE Simulate(p, s, links)
  <2> DEFINE u == PastThrottle(s)
             f == s.frame + D
  <2>1. 0 \in Nat
    OBVIOUS
  <2>2. /\ u \in Session /\ SameTimeline(s, u) /\ u.failed = s.failed
        /\ u.highestLocal = s.highestLocal /\ u.peerAcked = s.peerAcked
        /\ SameExchange(s, u) /\ u.history = s.history /\ u.frame = s.frame
    BY <1>5, <2>1, PastThrottleKeeps, PastThrottleTimeline
  <2>3. PICK c \in Samples[p][f] :
           LET queued == QueueLocal(u, f, c)
           IN  IF queued.failed
               THEN session' = [session EXCEPT ![p] = queued] /\ net' = links
               ELSE /\ session' = [session EXCEPT ![p] = SimulateFrame(p, queued)]
                    /\ net' \in Sent(links, Packet(p, queued))
    BY <1>12 DEF Simulate
  <2>4. f \in Nat /\ c \in Cmd
    <3>1. s.frame \in Nat /\ s.frame < MaxFrame /\ MaxFrame \in Nat
          /\ InputDelay[p] \in Nat
      BY <1>5, <1>12, RingAssumption DEF Session, Simulate
    <3>2. f \in 0 .. (MaxFrame + InputDelay[p])
      BY <3>1
    <3> QED BY <2>3, <3>2, CmdAssumption
  <2>5. u.frame <= u.contiguous + MaxPrediction
    BY <1>5, <1>6, <1>12, <2>2, GateBounds DEF Simulate, SameTimeline
  <2>6. f = u.frame + D
    BY <2>2
  <2> HIDE DEF u, f
  <2> DEFINE queued == QueueLocal(u, f, c)
             t == SimulateFrame(p, queued)
  <2>7. Timeline(p, u) /\ Writes(u, D - 1) /\ Final(s0, u) /\ u.rollbackTo = None
    BY <1>6, <1>9, <2>2 DEF SameTimeline, Stepped
  <2>8. Consistent(u, o) /\ Own(u)
    BY <1>5, <1>2, <1>8, <2>2, SameExchangeKeeps DEF Consistent
  <2>9. Consistent(queued, o) /\ queued \in Session /\ Own(queued)
        /\ queued.frame = u.frame
    BY <1>2, <2>2, <2>4, <2>8, QueueLocalKeeps DEF Consistent
  <2>10. /\ Timeline(p, queued) /\ Final(u, queued) /\ Writes(queued, D)
         /\ u.committed \subseteq queued.committed
         /\ queued.rollbackTo = None /\ queued.contiguous = u.contiguous
    BY <2>2, <2>4, <2>5, <2>6, <2>7, <2>8, QueueLocalTimeline
  <2>11. session' = [session EXCEPT ![p] = t] /\ net' \in Sent(links, Packet(p, queued))
    BY <2>3, <2>10 DEF Writes
  <2> HIDE DEF queued
  <2>12. /\ Timeline(p, t) /\ Final(queued, t) /\ Writes(t, D - 1)
         /\ t.frame = queued.frame + 1 /\ t.committed = queued.committed
    BY <2>5, <2>9, <2>10, SimulateFrameTimeline
  <2>13. t \in Session
    <3>1. Len(queued.game) = queued.frame
      BY <2>10 DEF Timeline
    <3> QED BY <1>2, <2>9, <3>1, SimulateFrameKeeps DEF Consistent
  <2> HIDE DEF t
  <2>14. Final(s0, t)
    <3>1. Final(s0, queued)
      BY <1>2, <2>2, <2>7, <2>9, <2>10, FinalTransitive
    <3> QED BY <1>2, <2>9, <2>12, <2>13, <3>1, FinalTransitive
  <2>15. \A m \in net' : m \in net \/ Timely(m)
    <3>1. Timely(Packet(p, queued))
      BY <2>9, <2>10, PacketTimely DEF Timeline
    <3>2. net' \subseteq links \cup {Packet(p, queued)}
      BY <2>11, SentWithin
    <3> QED BY <1>3, <3>1, <3>2
  <2>16. Stepped(s0, t)
    <3>1. t.frame = s0.frame + 1
      BY <1>5, <2>2, <2>9, <2>12
    <3>2. s0.committed \subseteq t.committed
      BY <1>5, <2>2, <2>10, <2>12 DEF SameExchange
    <3> QED BY <2>14, <3>1, <3>2 DEF Stepped
  <2>17. fits(t)
    BY <2>12, <2>16
  <2> HIDE DEF fits
  <2> QED BY <1>4, <2>11, <2>15, <2>17
<1> QED BY <1>1, <1>7, <1>10, <1>11, <1>12

LEMMA TInv_Next ==
    TInv /\ [Next]_vars
      => TInv' /\ OneStep
<1> SUFFICES ASSUME TInv, [Next]_vars
             PROVE  TInv' /\ OneStep
  OBVIOUS
<1>1. IInv'
  BY IInv_Next DEF TInv
<1>2. CASE UNCHANGED vars
  <2>1. TInv'
    BY <1>1, <1>2 DEF vars, TInv
  <2>2. ASSUME NEW p \in Peer
        PROVE  session'[p] = session[p] /\ Stepped(session[p], session'[p])
    <3>1. session[p] \in Session /\ session' = session
      BY <1>2 DEF vars, TInv, IInv
    <3>2. SameTimeline(session[p], session'[p])
      BY <3>1 DEF SameTimeline
    <3> QED BY <3>1, <3>2, SameTimelineFinal DEF Stepped
  <2> QED BY <2>1, <2>2, PeerAssumption DEF OneStep
<1>3. ASSUME NEW p \in Peer, Receive(p) \/ Advance(p)
      PROVE  TInv' /\ OneStep
  BY <1>1, <1>3, ReceiveTimeline, AdvanceTimeline
<1> QED BY <1>2, <1>3 DEF Next

-----------------------------------------------------------------------------
(***************************************************************************)
(* The results.                                                            *)
(***************************************************************************)
\* The states behind PredictionBounded and BoundariesOnTimeline.
LEMMA TInv_Rollback == TInv => RollbackPossible
<1> SUFFICES ASSUME TInv, NEW p \in Peer
             PROVE  LET s == session[p]
                    IN  /\ s.frame <= s.contiguous + 1 + MaxPrediction
                        /\ \A f \in (s.contiguous + 1) .. s.frame :
                              f >= 0 /\ s.frame > 0 => s.history[Slot(f)].frame = f
                        /\ Len(s.game) = s.frame
                        /\ \A k \in Slots : s.history[k].frame # None
                              => s.history[k].state
                                   = SubSeq(s.game, 1, s.history[k].frame)
  BY Zenon DEF RollbackPossible, PredictionBounded, BoundariesOnTimeline
<1> DEFINE s == session[p]
<1>1. s \in Session /\ Timeline(p, s)
  BY DEF TInv, IInv
<1> HIDE DEF s
<1>2. /\ s.frame \in Nat /\ s.contiguous \in Int /\ s.contiguous >= -1
      /\ MaxPrediction \in Nat /\ MaxPrediction >= 1 /\ HistoryFrames \in Nat
      /\ 2 * MaxPrediction < HistoryFrames
  <2>1. s.frame \in Nat
    BY <1>1 DEF Session
  <2>2. s.contiguous \in Int /\ s.contiguous >= -1
    BY <1>1, HorizonType, RingType
  <2> QED BY <2>1, <2>2, RoomType, RingType
<1>3. s.frame <= s.contiguous + 1 + MaxPrediction
  BY <1>1 DEF Timeline, Bounded
<1>4. ASSUME NEW f \in (s.contiguous + 1) .. s.frame
      PROVE  s.history[Slot(f)].frame = f
  <2>1. f \in 0 .. s.frame /\ s.frame < f + HistoryFrames
    BY <1>2, <1>3
  <2> QED BY <1>1, <2>1 DEF Timeline, HistoryKept, RingFull
<1>5. \A k \in Slots : s.history[k].frame # None
         => s.history[k].state = SubSeq(s.game, 1, s.history[k].frame)
  BY <1>1 DEF Timeline, HistoryKept, Recorded
<1> QED BY <1>1, <1>3, <1>4, <1>5 DEF Timeline, s

\* ggpo_net_advance never fails on a full ring: whatever slot a local input
\* or a boundary takes the place of is acknowledged and settled.
THEOREM RingNeverBlocksAlways == Spec => []RingNeverBlocks
<1>1. TInv => RingNeverBlocks
  BY DEF TInv, Writes, RingNeverBlocks
<1> QED BY <1>1, TInv_Init, TInv_Next, PTL DEF Spec

\* ggpo_net_apply_rollback_if_needed always finds the boundary it needs, and
\* that boundary is the game cut at its frame.
THEOREM RollbackAlwaysPossible == Spec => []RollbackPossible
  BY TInv_Rollback, TInv_Init, TInv_Next, PTL DEF Spec

\* A frame ggpo_net publishes a checksum of is settled, and no late input,
\* rollback or replay ever unsettles a settled frame or changes its result.
THEOREM PublishedIsFinal == Spec => PublishedFramesAreFinal
<1>1. ASSUME TInv, NEW p \in Peer
      PROVE  ChecksumHorizon(session[p]) < Settled(session[p])
  <2> DEFINE s == session[p]
  <2>1. s \in Session
    BY <1>1 DEF TInv, IInv
  <2> HIDE DEF s
  <2> DEFINE settled == {f \in 0 .. Min({MutualInputHorizon(s), s.frame - 1}) :
                           /\ s.history[Slot(f)].frame = f
                           /\ ~s.history[Slot(f)].predicted}
             low == Min({MutualInputHorizon(s), s.frame - 1})
  <2>2. Settled(s) \in Nat
    BY <2>1, SettledIs
  <2>3. low \in Int /\ low <= s.contiguous /\ low <= s.frame - 1
    <3> DEFINE h == MutualInputHorizon(s)
    <3>1. h \in Int /\ h <= s.contiguous
      BY <2>1, HorizonType, MinOfTwo DEF MutualInputHorizon
    <3> HIDE DEF h
    <3>2. s.frame - 1 \in Int /\ s.contiguous \in Int
      BY <2>1, HorizonType DEF Session
    <3>3. low = IF h <= s.frame - 1 THEN h ELSE s.frame - 1
      BY <3>1, <3>2, MinOfTwo DEF h
    <3> HIDE DEF low
    <3> QED BY <3>1, <3>2, <3>3
  <2>4. settled \subseteq Int /\ \A f \in settled : f <= low
    <3> HIDE DEF low
    <3> QED BY <2>3 DEF low
  <2>5. CASE s.rollbackTo # None \/ settled = {}
    <3>1. ChecksumHorizon(s) = None
      BY <2>5 DEF ChecksumHorizon
    <3> QED BY <2>2, <3>1, RingType DEF s
  <2>6. CASE s.rollbackTo = None /\ settled # {}
    <3>1. ChecksumHorizon(s) = Max(settled)
      BY <2>6 DEF ChecksumHorizon
    <3> HIDE DEF settled, low
    <3>2. Max(settled) \in settled
      BY <2>3, <2>4, <2>6, MaxOfBounded
    <3> DEFINE f == Max(settled)
               n == f + 1
    <3>3. f \in Int /\ f <= low
      BY <2>4, <3>2
    <3> HIDE DEF f
    <3>4. n \in Int /\ n <= s.contiguous + 1 /\ n <= s.frame
      BY <2>1, <2>3, <3>3, HorizonType DEF Session
    <3> HIDE DEF n
    <3>5. n <= Settled(s)
      BY <2>1, <2>6, <3>4, SettledIs
    <3>6. f < Settled(s)
      BY <2>2, <3>3, <3>5 DEF n
    <3> QED BY <3>1, <3>6 DEF f, s
  <2> QED BY <2>5, <2>6
<1>2. TInv => \A p \in Peer : ChecksumHorizon(session[p]) < Settled(session[p])
  BY <1>1
<1>3. OneStep => \A p \in Peer :
         /\ Settled(session[p]) <= Settled(session'[p])
         /\ \A i \in 1 .. Settled(session[p]) :
               session[p].game[i] = session'[p].game[i]
  BY DEF OneStep, Stepped, Final
<1>4. (\A p \in Peer : ChecksumHorizon(session[p]) < Settled(session[p]))'
      /\ (\A p \in Peer :
            /\ Settled(session[p]) <= Settled(session'[p])
            /\ \A i \in 1 .. Settled(session[p]) :
                  session[p].game[i] = session'[p].game[i])
      => \A p \in Peer :
           LET s == session[p]
               t == session'[p]
           IN  /\ ChecksumHorizon(t) < Settled(t)
               /\ Settled(s) <= Settled(t)
               /\ \A i \in 1 .. Settled(s) : s.game[i] = t.game[i]
  OBVIOUS
<1> QED BY <1>2, <1>3, <1>4, TInv_Init, TInv_Next, PTL
        DEF Spec, PublishedFramesAreFinal

-----------------------------------------------------------------------------
(***************************************************************************)
(* The exchange implements LockstepLog: p's log is the words p committed,  *)
(* in frame order, and p's timeline the settled frames of p's game.        *)
(***************************************************************************)
WordAt(s, f) == (CHOOSE i \in s.committed : i.frame = f).cmd

Words(s) == [i \in 1 .. Cardinality(s.committed) |-> WordAt(s, i - 1)]

\* A session as the refinement needs it.
Logged(p, s) ==
    /\ s \in Session
    /\ Own(s)
    /\ Timeline(p, s)
    /\ Writes(s, InputDelay[p] - 1)

\* The log has a word for every frame up to the highest committed.
LEMMA LogIsCommitted ==
    ASSUME NEW p \in Peer, NEW s, Logged(p, s)
    PROVE  /\ Cardinality(s.committed) = s.highestLocal + 1
           /\ s.highestLocal + 1 \in Nat
           /\ Words(s) \in Seq(Cmd) /\ Len(Words(s)) = s.highestLocal + 1
           /\ \A f \in 0 .. s.highestLocal :
                /\ [frame |-> f, cmd |-> Words(s)[f + 1]] \in s.committed
                /\ \A c : [frame |-> f, cmd |-> c] \in s.committed
                            => c = Words(s)[f + 1]
<1> DEFINE n == s.highestLocal + 1
           C == s.committed
           F == [i \in 1 .. n |-> [frame |-> i - 1, cmd |-> WordAt(s, i - 1)]]
<1>1. n \in Nat /\ C \subseteq InputSet /\ s.highestLocal \in Int
  BY HorizonType, RingType DEF Logged, Session
<1>2. \A i \in C : i.frame \in 0 .. s.highestLocal
  BY <1>1 DEF Logged, Own, CommittedKept, InputSet
<1>3. \A i, j \in C : i.frame = j.frame => i = j
  BY DEF Logged, Own, CommittedOnce
<1>4. ASSUME NEW f \in 0 .. s.highestLocal
      PROVE  /\ [frame |-> f, cmd |-> WordAt(s, f)] \in C
             /\ WordAt(s, f) \in Cmd
             /\ \A c : [frame |-> f, cmd |-> c] \in C => c = WordAt(s, f)
  <2> DEFINE i == CHOOSE i \in C : i.frame = f
  <2>1. \E j \in C : j.frame = f
    BY DEF Logged, Writes, Frames
  <2>2. i \in C /\ i.frame = f
    BY <2>1
  <2>3. i.cmd = WordAt(s, f)
    BY DEF WordAt
  <2> HIDE DEF i
  <2>4. i = [frame |-> f, cmd |-> WordAt(s, f)] /\ WordAt(s, f) \in Cmd
    BY <1>1, <2>2, <2>3 DEF InputSet
  <2>5. ASSUME NEW c, [frame |-> f, cmd |-> c] \in C PROVE c = WordAt(s, f)
    <3> DEFINE j == [frame |-> f, cmd |-> c]
    <3>1. j \in C /\ j.frame = f /\ j.cmd = c
      BY <2>5
    <3> HIDE DEF j
    <3>2. j = i
      BY <1>3, <2>2, <3>1
    <3> QED BY <2>3, <3>1, <3>2
  <2> QED BY <2>2, <2>4, <2>5
<1>5. F \in Bijection(1 .. n, C)
  <2>1. \A i \in 1 .. n : i - 1 \in 0 .. s.highestLocal
    BY <1>1
  <2>2. F \in [1 .. n -> C]
    BY <1>4, <2>1
  <2>3. \A i, j \in 1 .. n : F[i] = F[j] => i = j
    <3>1. \A i \in 1 .. n : F[i].frame = i - 1
      OBVIOUS
    <3> HIDE DEF F
    <3>2. \A i, j \in 1 .. n : i - 1 = j - 1 => i = j
      BY <1>1
    <3> HIDE DEF n
    <3> QED BY <3>1, <3>2
  <2>4. ASSUME NEW j \in C PROVE \E i \in 1 .. n : F[i] = j
    <3> DEFINE i == j.frame + 1
    <3>1. j.frame \in 0 .. s.highestLocal /\ i \in 1 .. n /\ i - 1 = j.frame
      BY <1>1, <1>2
    <3>2. F[i] = [frame |-> j.frame, cmd |-> WordAt(s, j.frame)]
      BY <3>1
    <3>3. F[i] \in C /\ F[i].frame = j.frame
      BY <1>4, <3>1, <3>2
    <3> HIDE DEF F, i
    <3>4. F[i] = j
      BY <1>3, <3>3
    <3> QED BY <3>1, <3>4
  <2> HIDE DEF F, C, n
  <2> QED BY <2>2, <2>3, <2>4, Fun_IsBij
<1>6. Cardinality(C) = n
  <2>1. 1 \in Int /\ n \in Int
    BY <1>1
  <2> HIDE DEF n, F, C
  <2>2. /\ IsFiniteSet(1 .. n)
        /\ Cardinality(1 .. n) = IF 1 > n THEN 0 ELSE n - 1 + 1
    BY <2>1, FS_Interval
  <2>3. ExistsBijection(1 .. n, C)
    BY <1>5 DEF ExistsBijection
  <2>4. Cardinality(C) = Cardinality(1 .. n)
    BY <2>2, <2>3, FS_Bijection
  <2>5. n \in Nat
    BY <1>1 DEF n
  <2> QED BY <2>2, <2>4, <2>5
<1>7. Words(s) = [i \in 1 .. n |-> WordAt(s, i - 1)]
  BY <1>6 DEF Words
<1>8. \A i \in 1 .. n : i - 1 \in 0 .. s.highestLocal
  BY <1>1
<1>9. Words(s) \in Seq(Cmd) /\ Len(Words(s)) = n
  <2>1. Words(s) \in [1 .. n -> Cmd]
    BY <1>4, <1>7, <1>8
  <2> HIDE DEF n
  <2>2. n \in Nat
    BY <1>1 DEF n
  <2> QED BY <2>1, <2>2
<1>10. ASSUME NEW f \in 0 .. s.highestLocal PROVE Words(s)[f + 1] = WordAt(s, f)
  <2>1. f + 1 \in 1 .. n /\ f + 1 - 1 = f
    BY <1>1
  <2> QED BY <1>7, <2>1
<1> QED BY <1>1, <1>4, <1>6, <1>9, <1>10

\* The settled frames are in both logs, as both players wrote them.
LEMMA SettledIsWritten ==
    ASSUME NEW p \in Peer, NEW s, Logged(p, s), NEW o, Logged(Other(p), o),
           s.received \subseteq o.committed
    PROVE  /\ Settled(s) \in Nat
           /\ Settled(s) <= Len(s.game) /\ s.game \in Seq([Peer -> Cmd])
           /\ Settled(s) <= Len(Words(s)) /\ Settled(s) <= Len(Words(o))
           /\ \A i \in 1 .. Settled(s) : /\ s.game[i][p] = Words(s)[i]
                                         /\ s.game[i][Other(p)] = Words(o)[i]
<1> DEFINE n == Settled(s)
           q == Other(p)
<1>1. q \in Peer /\ s \in Session /\ o \in Session
  BY OtherPeer DEF Logged
<1>2. /\ n \in Nat /\ n <= s.contiguous + 1 /\ n <= s.frame
      /\ s.rollbackTo # None => n <= s.rollbackTo
  BY <1>1, SettledIs
<1> HIDE DEF n, q
<1>3. /\ s.frame \in Nat /\ s.contiguous \in Int /\ s.contiguous >= -1
      /\ s.rollbackTo \in Nat \cup {None}
      /\ s.highestLocal = s.frame + (InputDelay[p] - 1)
      /\ s.highestLocal \in Int /\ o.highestLocal \in Int /\ o.highestLocal >= -1
      /\ InputDelay[p] \in Nat
  <2>1. s.frame \in Nat /\ s.rollbackTo \in Nat \cup {None}
    BY <1>1 DEF Session
  <2>2. s.contiguous \in Int /\ s.contiguous >= -1 /\ s.highestLocal \in Int
        /\ o.highestLocal \in Int /\ o.highestLocal >= -1
    BY <1>1, HorizonType, RingType
  <2>3. s.highestLocal = s.frame + (InputDelay[p] - 1)
    BY DEF Logged, Writes
  <2> QED BY <2>1, <2>2, <2>3, RoomType
<1>4. s.game \in Seq([Peer -> Cmd]) /\ Len(s.game) = s.frame
  BY <1>1 DEF Session, Logged, Timeline
<1>5. \A f \in 0 .. s.contiguous : f \in Frames(s.received) /\ f <= o.highestLocal
  <2> SUFFICES ASSUME NEW f \in 0 .. s.contiguous
               PROVE  f \in Frames(s.received) /\ f <= o.highestLocal
    OBVIOUS
  <2>1. f \in Frames(s.received)
    BY DEF Logged, Own
  <2>2. PICK i \in s.received : i.frame = f
    BY <2>1 DEF Frames
  <2>3. i \in o.committed
    BY <2>2
  <2> QED BY <2>1, <2>2, <2>3 DEF Logged, Own, CommittedKept
<1>6. s.contiguous <= o.highestLocal
  <2>1. CASE s.contiguous = -1
    BY <1>3, <2>1
  <2>2. CASE s.contiguous # -1
    <3>1. s.contiguous \in 0 .. s.contiguous
      BY <1>3, <2>2
    <3> QED BY <1>5, <3>1
  <2> QED BY <2>1, <2>2
<1>7. n <= Len(Words(s)) /\ n <= Len(Words(o))
  <2>1. Len(Words(s)) = s.highestLocal + 1 /\ Len(Words(o)) = o.highestLocal + 1
    BY <1>1, LogIsCommitted DEF q
  <2>2. n <= s.highestLocal + 1
    BY <1>2, <1>3
  <2>3. n <= o.highestLocal + 1
    BY <1>2, <1>3, <1>6
  <2> QED BY <2>1, <2>2, <2>3
<1>8. ASSUME NEW i \in 1 .. n
      PROVE  s.game[i][p] = Words(s)[i] /\ s.game[i][q] = Words(o)[i]
  <2> DEFINE f == i - 1
  <2>1. /\ f \in 0 .. (s.frame - 1) /\ f \in 0 .. s.contiguous
        /\ f \in 0 .. s.highestLocal /\ f + 1 = i /\ f \in Nat
        /\ s.rollbackTo # None => ~ (s.rollbackTo <= f)
    BY <1>2, <1>3
  <2> HIDE DEF f
  <2>2. f \in Frames(s.received) /\ f \in 0 .. o.highestLocal
    BY <1>3, <1>5, <2>1
  <2>3. ~Stale(s, f)
    BY <2>1 DEF Stale
  <2>4. /\ [frame |-> f, cmd |-> s.game[i][p]] \in s.committed
        /\ [frame |-> f, cmd |-> s.game[i][q]] \in o.committed
    BY <2>1, <2>2, <2>3 DEF Logged, Timeline, GameFollows, q
  <2>5. s.game[i][p] = Words(s)[i]
    BY <2>1, <2>4, LogIsCommitted
  <2>6. s.game[i][q] = Words(o)[i]
    BY <1>1, <2>1, <2>2, <2>4, LogIsCommitted DEF q
  <2> QED BY <2>5, <2>6
<1> QED BY <1>2, <1>4, <1>7, <1>8 DEF n, q

\* A step appends at most one word to the log.
LEMMA LogGrows ==
    ASSUME NEW p \in Peer, NEW s, Logged(p, s), NEW t, Logged(p, t), Stepped(s, t)
    PROVE  Words(t) = Words(s) \/ \E c \in Cmd : Words(t) = Append(Words(s), c)
<1> DEFINE h == s.highestLocal
           ws == Words(s)
           wt == Words(t)
<1>1. /\ h \in Int /\ h + 1 \in Nat
      /\ t.highestLocal = h \/ t.highestLocal = h + 1
  <2>1. s.frame \in Nat /\ t.frame \in {s.frame, s.frame + 1}
        /\ h = s.frame + (InputDelay[p] - 1)
        /\ t.highestLocal = t.frame + (InputDelay[p] - 1)
    BY DEF Logged, Session, Writes, Stepped
  <2> HIDE DEF h
  <2> QED BY <2>1, RoomType
<1>2. /\ ws \in Seq(Cmd) /\ Len(ws) = h + 1
      /\ wt \in Seq(Cmd) /\ Len(wt) = t.highestLocal + 1
  BY LogIsCommitted
<1>3. ASSUME NEW i \in 1 .. Len(ws) PROVE wt[i] = ws[i]
  <2> DEFINE f == i - 1
  <2>1. f \in 0 .. h /\ f \in 0 .. t.highestLocal /\ f + 1 = i
    <3> HIDE DEF h, ws
    <3> QED BY <1>1, <1>2
  <2> HIDE DEF f
  <2>2. [frame |-> f, cmd |-> ws[i]] \in t.committed
    BY <2>1, LogIsCommitted DEF Stepped
  <2> QED BY <2>1, <2>2, LogIsCommitted
<1> HIDE DEF h, ws, wt
<1>4. CASE t.highestLocal = h
  <2>1. wt = ws
    BY <1>1, <1>2, <1>3, <1>4, SeqEqual
  <2> QED BY <2>1 DEF ws, wt
<1>5. CASE t.highestLocal = h + 1
  <2> DEFINE n == h + 2
             c == wt[n]
             new == Append(ws, c)
  <2>1. n \in 1 .. Len(wt) /\ Len(wt) = n /\ Len(ws) = n - 1 /\ n \in Nat
    BY <1>1, <1>2, <1>5
  <2>2. c \in Cmd
    BY <1>2, <2>1, ElementOfSeq
  <2> HIDE DEF n, c
  <2>3. /\ new \in Seq(Cmd) /\ Len(new) = n
        /\ \A i \in 1 .. Len(ws) : new[i] = ws[i]
        /\ new[n] = c
    BY <1>2, <2>1, <2>2, AppendProperties
  <2> HIDE DEF new
  <2>4. \A i \in 1 .. n : wt[i] = new[i]
    <3>1. \A i \in 1 .. n : i \in 1 .. Len(ws) \/ i = n
      BY <2>1
    <3> QED BY <1>3, <2>3, <3>1 DEF c
  <2>5. wt = new
    BY <1>2, <2>1, <2>3, <2>4, SeqEqual
  <2> QED BY <2>2, <2>5 DEF new, ws, wt
<1> QED BY <1>1, <1>4, <1>5

\* The timeline of session s, and of t after it: n frames of t's game.
LEMMA TimelineGrows ==
    ASSUME NEW S, NEW a \in Seq(S), NEW b \in Seq(S),
           NEW m \in Nat, NEW n \in Nat, m <= n, m <= Len(a), n <= Len(b),
           \A i \in 1 .. m : a[i] = b[i],
           NEW w, \A i \in 1 .. n : w[i] = b[i]
    PROVE  /\ Len(SubSeq(a, 1, m)) = m
           /\ SubSeq(b, 1, n) = SubSeq(a, 1, m) \o [i \in 1 .. (n - m) |-> w[m + i]]
<1> DEFINE old == SubSeq(a, 1, m)
           all == SubSeq(b, 1, n)
           new == [i \in 1 .. (n - m) |-> w[m + i]]
<1>1. Len(a) \in Nat /\ Len(b) \in Nat /\ 1 \in Int /\ m \in Int /\ n \in Int
      /\ m - 1 + 1 = m /\ n - 1 + 1 = n
  BY LenProperties
<1>2. (\A i \in 1 .. m : a[i] \in S) /\ \A i \in 1 .. n : b[i] \in S
  BY <1>1, ElementOfSeq
<1>3. /\ old \in Seq(S) /\ Len(old) = m /\ \A i \in 1 .. m : old[i] = a[i]
      /\ all \in Seq(S) /\ Len(all) = n /\ \A i \in 1 .. n : all[i] = b[i]
  <2>1. /\ \A i \in 1 .. m : 1 + i - 1 = i
        /\ \A i \in 1 .. n : 1 + i - 1 = i
    OBVIOUS
  <2> QED BY <1>1, <1>2, <2>1, SubSeqProperties
<1>4. new \in Seq(S) /\ Len(new) = n - m
      /\ \A i \in (m + 1) .. n : new[i - m] = b[i]
  <2> DEFINE k == n - m
  <2>1. k \in Nat /\ \A i \in 1 .. k : m + i \in 1 .. n
    BY <1>1
  <2>2. \A i \in (m + 1) .. n : i - m \in 1 .. k /\ m + (i - m) = i
                                /\ i \in 1 .. n
    BY <1>1
  <2>3. new = [i \in 1 .. k |-> w[m + i]]
    OBVIOUS
  <2> HIDE DEF new, k
  <2>4. \A i \in 1 .. k : w[m + i] \in S
    BY <1>2, <2>1
  <2>5. new \in [1 .. k -> S]
    BY <2>3, <2>4
  <2>6. new \in Seq(S) /\ Len(new) = k
    BY <2>1, <2>5
  <2>7. \A i \in (m + 1) .. n : new[i - m] = b[i]
    BY <2>2, <2>3
  <2> QED BY <2>6, <2>7 DEF k
<1> HIDE DEF old, all, new
<1> DEFINE both == old \o new
<1>5. /\ both \in Seq(S) /\ Len(both) = Len(old) + Len(new)
      /\ \A i \in 1 .. (Len(old) + Len(new)) :
            both[i] = IF i <= Len(old) THEN old[i] ELSE new[i - Len(old)]
  BY <1>3, <1>4, ConcatProperties
<1> HIDE DEF both
<1>6. Len(old) + Len(new) = n
  BY <1>3, <1>4
<1>7. \A i \in 1 .. n : both[i] = IF i <= m THEN old[i] ELSE new[i - m]
  BY <1>3, <1>5, <1>6
<1>8. \A i \in 1 .. n : all[i] = both[i]
  <2> TAKE i \in 1 .. n
  <2>1. CASE i <= m
    <3>1. i \in 1 .. m
      BY <2>1
    <3> QED BY <1>3, <1>7, <2>1, <3>1
  <2>2. CASE ~ (i <= m)
    <3>1. i \in (m + 1) .. n
      BY <2>2
    <3> QED BY <1>3, <1>4, <1>7, <2>2, <3>1
  <2> QED BY <2>1, <2>2
<1>9. all = both
  BY <1>3, <1>5, <1>6, <1>8, SeqEqual
<1> QED BY <1>3, <1>9 DEF old, all, new, both

\* The exchange starts where the log does.
LEMMA InitialLog ==
    ASSUME Init
    PROVE  Log!LogInit
<1>1. session = [p \in Peer |-> InitialSession(p)]
  BY DEF Init
<1>2. ASSUME NEW p \in Peer
      PROVE  /\ Words(session[p]) = [i \in 1 .. InputDelay[p] |-> Neutral]
             /\ SubSeq(session[p].game, 1, Settled(session[p])) = <<>>
  <2> DEFINE s == session[p]
             n == InputDelay[p]
  <2>1. TInv
    BY TInv_Init
  <2>2. /\ s = InitialSession(p)
        /\ s.game = <<>> /\ s.highestLocal = n - 1 /\ s.frame = 0
        /\ s.committed = {[frame |-> f, cmd |-> Neutral] : f \in 0 .. (n - 1)}
    BY <1>1 DEF InitialSession
  <2>3. n \in Nat
    BY RoomType
  <2>4. Logged(p, s) /\ s \in Session
    BY <2>1 DEF TInv, IInv, Consistent, Logged
  <2> HIDE DEF s, n
  <2>5. /\ Len(Words(s)) = n /\ Cardinality(s.committed) = n
        /\ \A f \in 0 .. (n - 1) : [frame |-> f, cmd |-> Words(s)[f + 1]] \in s.committed
    <3>1. n - 1 + 1 = n
      BY <2>3
    <3> QED BY <2>2, <2>4, <3>1, LogIsCommitted
  <2>6. ASSUME NEW i \in 1 .. n PROVE WordAt(s, i - 1) = Neutral
    <3> DEFINE f == i - 1
    <3>1. f \in 0 .. (n - 1) /\ f + 1 = i
      BY <2>3
    <3> HIDE DEF f
    <3>2. [frame |-> f, cmd |-> Words(s)[f + 1]] \in s.committed
      BY <2>5, <3>1
    <3>3. Words(s)[f + 1] = Neutral
      BY <2>2, <3>2
    <3>4. Words(s)[i] = WordAt(s, i - 1)
      BY <2>5 DEF Words
    <3> QED BY <3>1, <3>3, <3>4
  <2>7. Words(s) = [i \in 1 .. n |-> Neutral]
    BY <2>5, <2>6 DEF Words
  <2>8. Settled(s) \in Nat /\ Settled(s) <= 0
    BY <2>2, <2>4, SettledIs
  <2>9. SubSeq(s.game, 1, Settled(s)) = <<>>
    <3>1. Settled(s) = 0
      BY <2>8
    <3> QED BY <2>2, <3>1, SubSeqEmpty
  <2> QED BY <2>7, <2>9 DEF s, n
<1> QED BY <1>2 DEF Log!LogInit, Words, WordAt, Committed

\* A step of the exchange is a step of the log's player, or nothing.
LEMMA ExchangeStep ==
    ASSUME TInv, TInv', OneStep
    PROVE  [Log!LogNext]_Log!logVars
<1>1. PICK p \in Peer : \A q \in Peer : q # p => session'[q] = session[q]
  BY DEF OneStep
<1> DEFINE o == Other(p)
           s == session[p]
           t == session'[p]
           L == [q \in Peer |-> Words(session[q])]
           M == [q \in Peer |-> Words(session'[q])]
           Past(u) == SubSeq(u.game, 1, Settled(u))
           m == Settled(s)
           n == Settled(t)
<1>2. /\ \A q \in Peer : Logged(q, session[q]) /\ Logged(q, session'[q])
      /\ t.received \subseteq session'[o].committed
      /\ s.game \in Seq([Peer -> Cmd])
      /\ m \in Nat /\ m <= Len(s.game)
  <2>1. ASSUME NEW q \in Peer
        PROVE  Logged(q, session[q]) /\ Logged(q, session'[q])
    BY DEF TInv, IInv, Consistent, Logged
  <2>2. t.received \subseteq session'[o].committed
    BY DEF TInv, IInv, Consistent, Believed
  <2>3. s \in Session /\ Len(s.game) = s.frame /\ s.game \in Seq([Peer -> Cmd])
    BY DEF TInv, IInv, Consistent, Session
  <2> QED BY <2>1, <2>2, <2>3, SettledIs
<1>3. o \in Peer /\ Stepped(s, t)
  BY OtherPeer DEF OneStep
<1>4. \A q \in Peer : q = p \/ q = o
  BY OtherPeer, PeerAssumption
<1>5. M = L \/ \E c \in Cmd : M = [L EXCEPT ![p] = Append(@, c)]
  <2>1. Words(t) = Words(s) \/ \E c \in Cmd : Words(t) = Append(Words(s), c)
    BY <1>2, <1>3, LogGrows
  <2>2. \A q \in Peer : q # p => Words(session'[q]) = Words(session[q])
    BY <1>1
  <2>3. CASE Words(t) = Words(s)
    <3>1. \A q \in Peer : Words(session'[q]) = Words(session[q])
      BY <2>2, <2>3
    <3> QED BY <3>1
  <2>4. CASE \E c \in Cmd : Words(t) = Append(Words(s), c)
    <3>1. PICK c \in Cmd : Words(t) = Append(Words(s), c)
      BY <2>4
    <3>2. M = [L EXCEPT ![p] = Append(@, c)]
      BY <2>2, <3>1
    <3> QED BY <3>2
  <2> QED BY <2>1, <2>3, <2>4
<1>6. /\ n \in Nat /\ n <= Len(t.game) /\ t.game \in Seq([Peer -> Cmd])
      /\ \A q \in Peer : n <= Len(M[q])
      /\ \A i \in 1 .. n : t.game[i] = [q \in Peer |-> M[q][i]]
  <2>1. /\ n \in Nat /\ n <= Len(t.game) /\ t.game \in Seq([Peer -> Cmd])
        /\ n <= Len(Words(t)) /\ n <= Len(Words(session'[o]))
        /\ \A i \in 1 .. n : /\ t.game[i][p] = Words(t)[i]
                             /\ t.game[i][o] = Words(session'[o])[i]
    BY <1>2, <1>3, SettledIsWritten
  <2>2. M[p] = Words(t) /\ M[o] = Words(session'[o])
    BY <1>3
  <2>3. \A i \in 1 .. n : t.game[i] \in [Peer -> Cmd]
    <3>1. \A i \in 1 .. n : i \in 1 .. Len(t.game)
      BY <2>1, LenProperties
    <3> HIDE DEF t, n
    <3> QED BY <2>1, <3>1, ElementOfSeq
  <2> HIDE DEF M, n, t, o
  <2>4. ASSUME NEW i \in 1 .. n PROVE t.game[i] = [q \in Peer |-> M[q][i]]
    <3>1. \A q \in Peer : t.game[i][q] = M[q][i]
      BY <1>4, <2>1, <2>2
    <3>2. t.game[i] = [q \in Peer |-> t.game[i][q]]
      BY <2>3
    <3> QED BY <3>1, <3>2
  <2>5. \A q \in Peer : n <= Len(M[q])
    BY <1>4, <2>1, <2>2
  <2> QED BY <2>1, <2>4, <2>5
<1>7. /\ m <= n /\ Len(Past(s)) = m
      /\ Past(t) = Past(s) \o [i \in 1 .. (n - m) |-> [q \in Peer |-> M[q][m + i]]]
  <2> DEFINE w == [i \in 1 .. n |-> [q \in Peer |-> M[q][i]]]
             a == s.game
             b == t.game
  <2>1. m <= n /\ \A i \in 1 .. m : a[i] = b[i]
    BY <1>3 DEF Stepped, Final
  <2>2. \A i \in 1 .. n : w[i] = b[i]
    BY <1>6
  <2>3. \A i \in 1 .. (n - m) : w[m + i] = [q \in Peer |-> M[q][m + i]]
    <3>1. \A i \in 1 .. (n - m) : m + i \in 1 .. n
      <4> HIDE DEF m, n
      <4> QED BY <1>2, <1>6
    <3> HIDE DEF M, n, m
    <3> QED BY <3>1
  <2>4. /\ Len(SubSeq(a, 1, m)) = m
        /\ SubSeq(b, 1, n) = SubSeq(a, 1, m) \o [i \in 1 .. (n - m) |-> w[m + i]]
    <3>1. /\ m \in Nat /\ n \in Nat /\ m <= Len(a) /\ n <= Len(b)
          /\ a \in Seq([Peer -> Cmd]) /\ b \in Seq([Peer -> Cmd])
      BY <1>2, <1>6
    <3> HIDE DEF m, n, a, b, w
    <3> QED BY <2>1, <2>2, <3>1, TimelineGrows
  <2>5. [i \in 1 .. (n - m) |-> w[m + i]]
          = [i \in 1 .. (n - m) |-> [q \in Peer |-> M[q][m + i]]]
    <3> HIDE DEF w, M, m, n
    <3> QED BY <2>3
  <2>6. Past(s) = SubSeq(a, 1, m) /\ Past(t) = SubSeq(b, 1, n)
    OBVIOUS
  <2> DEFINE K == 1 .. (n - m)
             x == [i \in K |-> w[m + i]]
             y == [i \in K |-> [q \in Peer |-> M[q][m + i]]]
  <2>7. x = y
    BY <2>5
  <2>8. SubSeq(b, 1, n) = SubSeq(a, 1, m) \o x
    BY <2>4
  <2> HIDE DEF x
  <2>9. Past(t) = Past(s) \o y
    BY <2>6, <2>7, <2>8
  <2>10. Len(Past(s)) = m
    BY <2>4, <2>6
  <2> QED BY <2>1, <2>9, <2>10
<1> DEFINE T == [q \in Peer |-> Past(session[q])]
           U == [q \in Peer |-> Past(session'[q])]
<1>8. U = [T EXCEPT ![p] =
             @ \o [i \in 1 .. (n - Len(@)) |-> [q \in Peer |-> M[q][Len(@) + i]]]]
  <2>1. T[p] = Past(s) /\ U[p] = Past(t)
    OBVIOUS
  <2>2. \A q \in Peer : q # p => U[q] = T[q]
    BY <1>1
  <2>3. T = [q \in Peer |-> T[q]] /\ U = [q \in Peer |-> U[q]]
    OBVIOUS
  <2> HIDE DEF T, U, M, n, m, Past, s, t
  <2> QED BY <1>7, <2>1, <2>2, <2>3
<1>9. /\ n \in Len(T[p]) .. Len(M[p])
      /\ \A q \in Peer : n <= Len(M[q])
  <2>1. Len(M[p]) \in Nat
    BY <1>2, LogIsCommitted, LenProperties
  <2>2. T[p] = Past(s)
    OBVIOUS
  <2> HIDE DEF T, M, n, m, Past, s
  <2> QED BY <1>2, <1>6, <1>7, <2>1, <2>2
<1>10. Log!Settle(p)
  <2> HIDE DEF n
  <2> QED BY <1>8, <1>9 DEF Log!Settle, Log!JointInput, Words, WordAt, Committed
<1>11. Log!CommitInput(p) \/ M = L
  BY <1>5 DEF Log!CommitInput, Words, WordAt, Committed
<1> QED BY <1>10, <1>11 DEF Log!LogNext, Log!LogStep, Log!logVars, Words, WordAt, Committed

\* The rollback session implements the lockstep log, for every history,
\* delay and prediction window: what the two games hold of settled frames is
\* one timeline of the committed inputs, grown in order and never rewritten.
THEOREM ExchangeImplementsLockstep == Spec => ImplementsLockstep
<1>1. Init => Log!LogInit
  BY InitialLog
<1>2. TInv /\ TInv' /\ OneStep => [Log!LogNext]_Log!logVars
  BY ExchangeStep
<1>3. TInv /\ [Next]_vars => TInv' /\ OneStep
  BY TInv_Next
<1> QED BY <1>1, <1>2, <1>3, TInv_Init, PTL DEF Spec, ImplementsLockstep, Log!LogSpec
=============================================================================
