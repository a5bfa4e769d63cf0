------------------------- MODULE ChecksumStreamProofs -------------------------
(***************************************************************************)
(* The checksum stream tells a real desynchronisation from everything the  *)
(* link and the guesses of prediction bring about, for every ring, packet  *)
(* size, prediction limit, delay and link.                                 *)
(***************************************************************************)
EXTENDS ChecksumStream, BoundLemmas

(***************************************************************************)
(* The inductive invariant: one session of peer p.                         *)
(***************************************************************************)
HistorySlot ==
    [frame : Nat \cup {None}, guess : {"none", "right", "wrong"},
     sum : Checksum, published : BOOLEAN]
RemoteSlot == [frame : Nat \cup {None}, sum : Checksum, verified : BOOLEAN]

Session ==
    [frame : Nat, contiguous : Nat \cup {None}, peerAcked : Nat \cup {None},
     history : [Slots -> HistorySlot], remote : [Slots -> RemoteSlot],
     remoteNext : Nat, peerNext : Nat,
     waited : Nat, blocked : Nat \cup {None},
     desync : Nat \cup {None}, disconnected : BOOLEAN, timedOut : BOOLEAN,
     failed : BOOLEAN]

\* Frame f was computed from a guess known here to be wrong, or after one.
Wrong(s, f) ==
    \E k \in Slots : s.history[k].guess = "wrong" /\ s.history[k].frame <= f

\* Frame f will never be computed again: it rests on inputs alone.
Firm(s, f) == f \in 0 .. (s.frame - 1) /\ f <= s.contiguous /\ ~Wrong(s, f)

\* The history is the last HistoryFrames boundaries, each in its slot.
RingFull(s) ==
    /\ \A f \in 0 .. s.frame :
          s.frame < f + HistoryFrames => s.history[Slot(f)].frame = f
    /\ \A k \in Slots : s.history[k].frame # None =>
          s.history[k].frame <= s.frame /\ Slot(s.history[k].frame) = k

\* A kept frame carries its true checksum unless a wrong guess went into it,
\* and is published only once it is firm.
Recorded(p, s, h) ==
    /\ h.guess = "wrong" => h.frame \in 0 .. (s.frame - 1)
    /\ h.frame \in 0 .. (s.frame - 1) =>
          /\ h.guess = "none" => h.frame <= s.contiguous
          /\ h.sum = IF Wrong(s, h.frame) THEN Guessed ELSE Result(p, h.frame)
    /\ h.published => Firm(s, h.frame) /\ h.guess = "none"

\* A checksum from the peer is the peer's own of its frame; a verified one is
\* equal to that of the same, firm frame here.
Compares(p, s, r) ==
    /\ r.frame # None => r.sum = Result(Other(p), r.frame)
    /\ r.verified => r.frame # None /\ Firm(s, r.frame) /\ r.frame < divergence

Consistent(p, s) ==
    /\ s \in Session
    /\ RingFull(s)
    /\ \A k \in Slots : Recorded(p, s, s.history[k])
    /\ \A k \in Slots : Compares(p, s, s.remote[k])
    /\ \A f \in 0 .. (s.remoteNext - 1) : Firm(s, f) /\ f < divergence
    /\ s.frame < s.remoteNext + HistoryFrames
    /\ ~s.disconnected
    /\ s.desync # None =>
          /\ divergence <= s.desync /\ s.remoteNext <= s.desync
          /\ Settled(s, s.desync) /\ Holds(s.remote, s.desync)

(***************************************************************************)
(* The two sessions, and what is on the way between them.                  *)
(***************************************************************************)
\* Frame f went out with its checksum, and is kept until the peer has verified
\* it.
Issued(s, f) ==
    /\ f \in 0 .. (s.frame - 1)
    /\ s.peerNext <= f => Holds(s.history, f) /\ s.history[Slot(f)].published

\* What session s knows of its peer's session t.
Heard(s, t) ==
    /\ t.peerNext <= s.remoteNext
    /\ \A f \in 0 .. (s.remoteNext - 1) : Issued(t, f)
    /\ \A k \in Slots : s.remote[k].frame # None => Issued(t, s.remote[k].frame)

\* Packet m says of its sender p, in session s, only what is so.
Genuine(p, s, m) ==
    /\ m.queued \in Nat /\ m.base \in Nat \cup {None}
    /\ m.checksumNext \in Nat /\ m.checksumNext <= s.remoteNext
    /\ \A c \in m.sums : Issued(s, c.frame) /\ c.sum = Result(p, c.frame)

Truthful(m) ==
    m.to \in Peer /\ Genuine(Other(m.to), peer[Other(m.to)], m)

StreamInv ==
    /\ divergence \in Nat
    /\ DOMAIN peer = Peer
    /\ \A p \in Peer : Consistent(p, peer[p]) /\ Heard(peer[p], peer[Other(p)])
    /\ \A m \in net : Truthful(m)

-----------------------------------------------------------------------------
(***************************************************************************)
(* The constants, slots, and the bounds of sets of frames.                 *)
(***************************************************************************)
LEMMA RingType ==
    /\ HistoryFrames \in Nat \ {0} /\ PacketChecksums \in Nat \ {0}
    /\ InputDelay \in Nat \ {0} /\ StallTimeout \in Nat
    /\ Slots = 0 .. (HistoryFrames - 1) /\ None = -1
  BY StreamAssumption DEF Slots, None

LEMMA SlotType == ASSUME NEW f \in Int PROVE Slot(f) \in Slots
<1>1. HistoryFrames \in Nat \ {0}
  BY RingType
<1> QED BY <1>1, ModParts DEF Slot, Slots

LEMMA SlotsApart ==
    ASSUME NEW f \in Int, NEW g \in Int, Slot(f) = Slot(g), f < g
    PROVE  f + HistoryFrames <= g
  BY RingType, CongruentApart DEF Slot

LEMMA SlotShift ==
    ASSUME NEW f \in Int PROVE Slot(f) = Slot(f - HistoryFrames)
<1>1. f - HistoryFrames \in Int /\ (f - HistoryFrames) + HistoryFrames = f
  BY RingType
<1>2. HistoryFrames \in Nat \ {0}
  BY RingType
<1> QED BY <1>1, <1>2, ModShift DEF Slot

LEMMA OtherPeer ==
    ASSUME NEW p \in Peer
    PROVE  /\ Other(p) \in Peer /\ Other(p) # p
           /\ \A q \in Peer : q = p \/ q = Other(p)
           /\ Other(Other(p)) = p
<1>1. PICK a, b \in Peer : a # b /\ Peer = {a, b}
  BY StreamAssumption
<1>2. \A x \in Peer : /\ Other(x) \in Peer /\ Other(x) # x
                      /\ \A q \in Peer : q = x \/ q = Other(x)
  BY <1>1 DEF Other
<1> QED BY <1>2

\* A run holds every frame up to its end, which a missing frame bounds.
LEMMA RunEndProperties ==
    ASSUME NEW c \in Int, NEW S
    PROVE  /\ RunEnd(S, c) \in Int
           /\ c <= RunEnd(S, c)
           /\ \A f \in (c + 1) .. RunEnd(S, c) : f \in S
<1> DEFINE R == {m \in c .. (c + HistoryFrames) : \A f \in (c + 1) .. m : f \in S}
<1>1. c \in R
  BY RingType
<1>2. R \subseteq Int /\ \A m \in R : m <= c + HistoryFrames
  BY RingType
<1>3. c + HistoryFrames \in Int
  BY RingType
<1>4. Max(R) \in R
  <2> HIDE DEF R
  <2> QED BY <1>1, <1>2, <1>3, MaxOfBounded
<1> QED BY <1>4 DEF RunEnd

\* What both sides hold the inputs of.
LEMMA MutualType ==
    ASSUME NEW s \in Session
    PROVE  /\ MutualInputHorizon(s) \in Int
           /\ MutualInputHorizon(s) <= s.contiguous
<1>1. s.contiguous \in Int /\ s.peerAcked \in Int
  BY RingType DEF Session
<1> QED BY <1>1, MinOfTwo DEF MutualInputHorizon

\* The checksum horizon is a settled frame, and no rollback is due, or there
\* is none.
LEMMA HorizonSettled ==
    ASSUME NEW s \in Session
    PROVE  \/ ChecksumHorizon(s) = None
           \/ /\ ~RollbackPending(s)
              /\ ChecksumHorizon(s) \in Nat
              /\ Settled(s, ChecksumHorizon(s))
              /\ ChecksumHorizon(s) <= s.contiguous
<1> DEFINE T == {f \in 0 .. MutualInputHorizon(s) : Settled(s, f)}
<1>1. CASE RollbackPending(s) \/ T = {}
  BY <1>1 DEF ChecksumHorizon
<1>2. CASE ~RollbackPending(s) /\ T # {}
  <2>1. ChecksumHorizon(s) = Max(T)
    BY <1>2 DEF ChecksumHorizon
  <2>2. MutualInputHorizon(s) \in Int /\ MutualInputHorizon(s) <= s.contiguous
    BY MutualType
  <2>3. T \subseteq Int /\ \A x \in T : x <= MutualInputHorizon(s)
    BY <2>2
  <2>4. Max(T) \in T
    <3> HIDE DEF T
    <3> QED BY <1>2, <2>2, <2>3, MaxOfBounded
  <2>5. s.contiguous \in Int
    BY RingType DEF Session
  <2> QED BY <1>2, <2>1, <2>2, <2>4, <2>5
<1> QED BY <1>1, <1>2

\* A mispredicted frame, and the first one.
LEMMA FirstMispredicted ==
    ASSUME NEW s \in Session, RollbackPending(s)
    PROVE  /\ Min(Mispredicted(s)) \in Mispredicted(s)
           /\ \A f \in Mispredicted(s) : Min(Mispredicted(s)) <= f
<1>1. Mispredicted(s) \subseteq Int /\ \A f \in Mispredicted(s) : 0 <= f
  BY DEF Mispredicted
<1>2. Mispredicted(s) # {} /\ 0 \in Int
  BY DEF RollbackPending
<1> QED BY <1>1, <1>2, MinOfBounded

LEMMA MispredictedIs ==
    ASSUME NEW s \in Session, NEW f
    PROVE  f \in Mispredicted(s) <=>
              /\ f \in Nat /\ f <= s.contiguous /\ f < s.frame
              /\ Holds(s.history, f) /\ s.history[Slot(f)].guess = "wrong"
<1>1. s.contiguous \in Int /\ s.frame - 1 \in Int
  BY RingType DEF Session
<1>2. Min({s.contiguous, s.frame - 1}) = IF s.contiguous <= s.frame - 1
                                         THEN s.contiguous ELSE s.frame - 1
  BY <1>1, MinOfTwo
<1>3. s.frame \in Nat
  BY DEF Session
<1> QED BY <1>1, <1>2, <1>3 DEF Mispredicted


-----------------------------------------------------------------------------
(***************************************************************************)
(* What a consistent session says of its own frames.                       *)
(***************************************************************************)
\* A wrong guess about an input that has arrived waits for its rollback.
LEMMA WrongIsPending ==
    ASSUME NEW p \in Peer, NEW s, Consistent(p, s),
           NEW f \in Int, f <= s.contiguous, Wrong(s, f)
    PROVE  RollbackPending(s)
<1>1. PICK k \in Slots : s.history[k].guess = "wrong" /\ s.history[k].frame <= f
  BY DEF Wrong
<1> DEFINE e == s.history[k].frame
<1>2. e \in 0 .. (s.frame - 1)
  BY <1>1 DEF Consistent, Recorded
<1>3. s \in Session /\ s.contiguous \in Int /\ s.frame \in Nat
  BY RingType DEF Consistent, Session
<1>4. e # None
  BY <1>2, RingType
<1>5. Slot(e) = k
  BY <1>4 DEF Consistent, RingFull
<1>6. Holds(s.history, e) /\ s.history[Slot(e)].guess = "wrong"
  BY <1>1, <1>5 DEF Holds
<1>7. e \in Nat /\ e <= s.contiguous /\ e < s.frame
  BY <1>1, <1>2, <1>3
<1>8. e \in Mispredicted(s)
  BY <1>3, <1>6, <1>7, MispredictedIs
<1> QED BY <1>8 DEF RollbackPending

LEMMA FirmBelow ==
    ASSUME NEW s \in Session, NEW f \in Int, Firm(s, f), NEW g \in 0 .. f
    PROVE  Firm(s, g)
<1>1. s.contiguous \in Int /\ s.frame \in Nat
  BY RingType DEF Session
<1>2. g \in 0 .. (s.frame - 1) /\ g <= s.contiguous /\ g <= f
  BY <1>1 DEF Firm
<1>3. \A k \in Slots : s.history[k].guess = "wrong" => ~(s.history[k].frame <= f)
  BY DEF Firm, Wrong
<1>4. \A k \in Slots : s.history[k].frame \in Int
  BY RingType DEF Session, HistorySlot
<1>5. ~Wrong(s, g)
  BY <1>2, <1>3, <1>4 DEF Wrong
<1> QED BY <1>2, <1>5 DEF Firm

LEMMA HorizonFirm ==
    ASSUME NEW p \in Peer, NEW s, Consistent(p, s), ChecksumHorizon(s) # None
    PROVE  /\ ChecksumHorizon(s) \in Nat /\ ChecksumHorizon(s) < s.frame
           /\ Settled(s, ChecksumHorizon(s)) /\ Firm(s, ChecksumHorizon(s))
<1> DEFINE h == ChecksumHorizon(s)
<1>1. s \in Session
  BY DEF Consistent
<1>2. ~RollbackPending(s) /\ h \in Nat /\ Settled(s, h) /\ h <= s.contiguous
  BY <1>1, HorizonSettled
<1> HIDE DEF h
<1>3. ~Wrong(s, h)
  BY <1>2, WrongIsPending
<1>4. h \in 0 .. (s.frame - 1) /\ s.frame \in Nat
  BY <1>1, <1>2 DEF Settled, Session
<1>5. h < s.frame
  BY <1>4
<1>6. Firm(s, h)
  BY <1>2, <1>3, <1>4 DEF Firm
<1> QED BY <1>2, <1>5, <1>6 DEF h

\* The checksum kept for a firm frame is the true one.
LEMMA FirmSum ==
    ASSUME NEW p \in Peer, NEW s, Consistent(p, s), NEW f, Firm(s, f),
           Holds(s.history, f)
    PROVE  s.history[Slot(f)].sum = Result(p, f)
<1>1. f \in 0 .. (s.frame - 1) /\ ~Wrong(s, f)
  BY DEF Firm
<1>2. f \in Int
  BY <1>1
<1>3. Slot(f) \in Slots /\ s.history[Slot(f)].frame = f
  BY <1>2, SlotType DEF Holds
<1> QED BY <1>1, <1>3 DEF Consistent, Recorded

LEMMA PublicationsSound ==
    ASSUME NEW p \in Peer, NEW s, Consistent(p, s),
           NEW F \in Publications(s)
    PROVE  \A f \in F : Settled(s, f) /\ Firm(s, f)
<1> DEFINE live == ChecksumHorizon(s)
<1>1. F = Published(s, live)
  BY DEF Publications
<1>2. s \in Session /\ s.peerNext \in Nat
  BY DEF Consistent, Session
<1>3. CASE live = None
  <2>1. live < s.peerNext
    BY <1>2, <1>3, RingType
  <2>2. F = {}
    BY <1>1, <2>1 DEF Published
  <2> QED BY <2>2
<1>4. CASE live # None
  <2>1. live \in Nat /\ Settled(s, live) /\ Firm(s, live)
    BY <1>4, HorizonFirm
  <2> HIDE DEF live
  <2> DEFINE last == IF live - s.peerNext < HistoryFrames
                     THEN Min({live - 1, s.peerNext + PacketChecksums - 2}) ELSE None
  <2>2. last \in Int /\ last <= live - 1
    <3>1. live - 1 \in Int /\ s.peerNext + PacketChecksums - 2 \in Int
      BY <1>2, <2>1, RingType
    <3>2. Min({live - 1, s.peerNext + PacketChecksums - 2}) \in Int
          /\ Min({live - 1, s.peerNext + PacketChecksums - 2}) <= live - 1
      BY <3>1, MinOfTwo
    <3>3. None \in Int /\ None <= live - 1
      BY <2>1, RingType
    <3> QED BY <3>2, <3>3
  <2>3. F \subseteq {live} \cup {f \in s.peerNext .. last :
                                   \A g \in s.peerNext .. f : Settled(s, g)}
    BY <1>1 DEF Published
  <2> HIDE DEF last
  <2>4. ASSUME NEW f \in F, f # live PROVE Settled(s, f) /\ Firm(s, f)
    <3>1. f \in s.peerNext .. last /\ \A g \in s.peerNext .. f : Settled(s, g)
      BY <2>3, <2>4
    <3>2. f \in Int /\ f \in 0 .. live /\ f \in s.peerNext .. f
      BY <1>2, <2>1, <2>2, <3>1
    <3>3. Firm(s, f)
      BY <1>2, <2>1, <3>2, FirmBelow
    <3> QED BY <3>1, <3>2, <3>3
  <2> QED BY <2>1, <2>4
<1> QED BY <1>3, <1>4

(***************************************************************************)
(* What every operation keeps, for the session and for its peer.           *)
(***************************************************************************)
Kept(s, t) ==
    /\ s.remoteNext <= t.remoteNext
    /\ \A f \in Int : Firm(s, f) => Firm(t, f)
    /\ \A f \in Int : Issued(s, f) => Issued(t, f)

LEMMA KeptTransitive ==
    ASSUME NEW s \in Session, NEW t \in Session, NEW u \in Session,
           Kept(s, t), Kept(t, u)
    PROVE  Kept(s, u)
  BY DEF Kept, Session

\* Publishing firm frames.
LEMMA MarkPublishedKeeps ==
    ASSUME NEW p \in Peer, NEW s, Consistent(p, s), NEW F,
           \A f \in F : Settled(s, f) /\ Firm(s, f)
    PROVE  LET t == MarkPublished(s, F)
           IN  /\ Consistent(p, t) /\ Kept(s, t)
               /\ \A f \in F : Issued(t, f)
               /\ t.frame = s.frame /\ t.contiguous = s.contiguous
               /\ t.remote = s.remote /\ t.remoteNext = s.remoteNext
               /\ t.peerNext = s.peerNext /\ t.desync = s.desync
               /\ \A k \in Slots : /\ t.history[k].frame = s.history[k].frame
                                   /\ t.history[k].guess = s.history[k].guess
<1> DEFINE t == MarkPublished(s, F)
           H == [k \in Slots |->
                   [s.history[k] EXCEPT !.published = @ \/ s.history[k].frame \in F]]
<1>1. s \in Session
  BY DEF Consistent
<1>2. t = [s EXCEPT !.history = H]
  BY DEF MarkPublished
<1>3. s.history \in [Slots -> HistorySlot]
  BY <1>1 DEF Session
<1>4. \A k \in Slots :
         /\ H[k] \in HistorySlot
         /\ H[k].frame = s.history[k].frame /\ H[k].guess = s.history[k].guess
         /\ H[k].sum = s.history[k].sum
         /\ H[k].published <=> s.history[k].published \/ s.history[k].frame \in F
  BY <1>3 DEF HistorySlot
<1>5. H \in [Slots -> HistorySlot]
  BY <1>4
<1> HIDE DEF H
<1>6. /\ t \in Session /\ t.history = H
      /\ t.frame = s.frame /\ t.contiguous = s.contiguous
      /\ t.remote = s.remote /\ t.remoteNext = s.remoteNext
      /\ t.peerNext = s.peerNext /\ t.desync = s.desync
      /\ t.disconnected = s.disconnected
  BY <1>1, <1>2, <1>5 DEF Session
<1> HIDE DEF t
<1>7. \A f : Wrong(t, f) <=> Wrong(s, f)
  BY <1>4, <1>6 DEF Wrong
<1>8. \A f : Firm(t, f) <=> Firm(s, f)
  BY <1>6, <1>7 DEF Firm
<1>9. \A f \in Int : Holds(t.history, f) <=> Holds(s.history, f)
  BY <1>4, <1>6, SlotType DEF Holds
<1>10. \A f \in Int : Settled(t, f) <=> Settled(s, f)
  BY <1>4, <1>6, <1>9, SlotType DEF Settled
<1>11. RingFull(t)
  <2>1. RingFull(s)
    BY DEF Consistent
  <2>2. s.frame \in Nat
    BY <1>1 DEF Session
  <2> QED BY <2>1, <2>2, <1>4, <1>6, SlotType DEF RingFull
<1>12. ASSUME NEW k \in Slots PROVE Recorded(p, t, t.history[k])
  <2>1. Recorded(p, s, s.history[k])
    BY DEF Consistent
  <2>2. ASSUME s.history[k].frame \in F
        PROVE  Firm(s, s.history[k].frame) /\ s.history[k].guess = "none"
    <3> DEFINE f == s.history[k].frame
    <3>1. Settled(s, f) /\ Firm(s, f)
      BY <2>2
    <3>2. f # None
      BY <3>1, RingType DEF Settled
    <3>3. Slot(f) = k
      BY <3>2 DEF Consistent, RingFull
    <3> QED BY <3>1, <3>3 DEF Settled
  <2> QED BY <2>1, <2>2, <1>4, <1>6, <1>7, <1>8 DEF Recorded
<1>13. \A k \in Slots : Compares(p, t, t.remote[k])
  BY <1>6, <1>8 DEF Consistent, Compares
<1>14. \A f \in 0 .. (t.remoteNext - 1) : Firm(t, f) /\ f < divergence
  BY <1>6, <1>8 DEF Consistent
<1>15. t.desync # None =>
          /\ divergence <= t.desync /\ t.remoteNext <= t.desync
          /\ Settled(t, t.desync) /\ Holds(t.remote, t.desync)
  <2>1. s.desync \in Int
    BY <1>1, RingType DEF Session
  <2> QED BY <2>1, <1>6, <1>10 DEF Consistent
<1>16. Consistent(p, t)
  BY <1>6, <1>11, <1>12, <1>13, <1>14, <1>15 DEF Consistent
<1>17. \A f \in Int : Issued(s, f) => Issued(t, f)
  BY <1>4, <1>6, <1>9, SlotType DEF Issued
<1>18. Kept(s, t)
  BY <1>1, <1>6, <1>8, <1>17 DEF Kept, Session
<1>19. ASSUME NEW f \in F PROVE Issued(t, f)
  <2>1. Settled(s, f) /\ f \in Int
    BY DEF Settled
  <2>2. Slot(f) \in Slots /\ s.history[Slot(f)].frame = f
    BY <2>1, SlotType DEF Settled, Holds
  <2>3. Holds(t.history, f) /\ t.history[Slot(f)].published
    BY <2>1, <2>2, <1>4, <1>6, <1>9 DEF Settled
  <2> QED BY <2>1, <2>3, <1>6 DEF Issued, Settled
<1> QED BY <1>4, <1>6, <1>16, <1>18, <1>19 DEF t

\* A change of none of the fields the stream speaks of.
SameStream(s, t) ==
    /\ t.frame = s.frame /\ t.contiguous = s.contiguous
    /\ t.history = s.history /\ t.remote = s.remote
    /\ t.remoteNext = s.remoteNext /\ t.peerNext = s.peerNext
    /\ t.desync = s.desync /\ t.disconnected = s.disconnected

LEMMA SameStreamKeeps ==
    ASSUME NEW p \in Peer, NEW s, Consistent(p, s), NEW t \in Session,
           SameStream(s, t)
    PROVE  Consistent(p, t) /\ Kept(s, t)
<1>1. s \in Session
  BY DEF Consistent
<1>2. \A f : Wrong(t, f) <=> Wrong(s, f)
  BY DEF SameStream, Wrong
<1>3. \A f : (Firm(t, f) <=> Firm(s, f)) /\ (Issued(t, f) <=> Issued(s, f))
  BY <1>2 DEF SameStream, Firm, Issued
<1>4. \A f : Settled(t, f) <=> Settled(s, f)
  BY DEF SameStream, Settled
<1>5. \A k \in Slots : Recorded(p, t, t.history[k])
  BY <1>2, <1>3 DEF Consistent, SameStream, Recorded
<1>6. \A k \in Slots : Compares(p, t, t.remote[k])
  BY <1>3 DEF Consistent, SameStream, Compares
<1>7. RingFull(t)
  BY DEF Consistent, SameStream, RingFull
<1>8. Kept(s, t)
  BY <1>1, <1>3 DEF Kept, SameStream, Session
<1>9. \A f \in 0 .. (t.remoteNext - 1) : Firm(t, f) /\ f < divergence
  BY <1>3 DEF Consistent, SameStream
<1>10. t.desync # None =>
          /\ divergence <= t.desync /\ t.remoteNext <= t.desync
          /\ Settled(t, t.desync) /\ Holds(t.remote, t.desync)
  BY <1>4 DEF Consistent, SameStream
<1> QED BY <1>5, <1>6, <1>7, <1>8, <1>9, <1>10 DEF Consistent, SameStream

\* A replay rewrites no firm frame, and what it rewrites is right up to the
\* first guess that will turn out wrong.
LEMMA RollbackKeeps ==
    ASSUME NEW p \in Peer, NEW s, Consistent(p, s), s.desync = None,
           NEW wrong \in SUBSET ((s.contiguous + 1) .. (s.frame - 1))
    PROVE  LET t == Rollback(p, s, wrong)
           IN  /\ Consistent(p, t) /\ Kept(s, t) /\ t.desync = None
               /\ t.remote = s.remote /\ t.remoteNext = s.remoteNext
               /\ t.peerNext = s.peerNext
<1> DEFINE t == Rollback(p, s, wrong)
<1>1. s \in Session
  BY DEF Consistent
<1>2. CASE ~RollbackPending(s)
  <2>1. t = s
    BY <1>2 DEF Rollback
  <2>2. Kept(s, s)
    BY <1>1 DEF Kept, Session
  <2> QED BY <2>1, <2>2
<1>3. CASE RollbackPending(s)
  <2> DEFINE start == Min(Mispredicted(s))
             H == [k \in Slots |->
                     IF s.history[k].frame \in start .. (s.frame - 1)
                     THEN Simulated(p, s, s.history[k].frame, wrong)
                     ELSE s.history[k]]
  <2>1. t = [s EXCEPT !.history = H]
    BY <1>3 DEF Rollback
  <2>2. start \in Mispredicted(s) /\ \A f \in Mispredicted(s) : start <= f
    BY <1>1, <1>3, FirstMispredicted
  <2> HIDE DEF start
  <2>3. /\ start \in Nat /\ start <= s.contiguous /\ start < s.frame
        /\ Holds(s.history, start) /\ s.history[Slot(start)].guess = "wrong"
    BY <1>1, <2>2, MispredictedIs
  <2>4. /\ s.frame \in Nat /\ s.contiguous \in Int /\ s.remoteNext \in Nat
        /\ s.history \in [Slots -> HistorySlot]
    BY <1>1, RingType DEF Session
  <2>5. \A f \in Int : start <= f => Wrong(s, f)
    <3>1. Slot(start) \in Slots /\ s.history[Slot(start)].frame = start
      BY <2>3, SlotType DEF Holds
    <3> QED BY <2>3, <3>1 DEF Wrong
  <2>6. s.frame < start + HistoryFrames
    <3>1. ~(start < s.remoteNext)
      <4> SUFFICES ASSUME start < s.remoteNext PROVE FALSE
        OBVIOUS
      <4>1. start \in 0 .. (s.remoteNext - 1)
        BY <2>3, <2>4
      <4> QED BY <2>3, <2>5, <4>1 DEF Consistent, Firm
    <3>2. s.frame < s.remoteNext + HistoryFrames
      BY DEF Consistent
    <3> QED BY <2>3, <2>4, <3>1, <3>2, RingType
  \* Before the first mispredicted frame no guess is wrong.
  <2>7. ASSUME NEW k \in Slots, s.history[k].guess = "wrong"
        PROVE  s.history[k].frame \in start .. (s.frame - 1)
    <3> DEFINE e == s.history[k].frame
    <3>1. e \in 0 .. (s.frame - 1)
      BY <2>7 DEF Consistent, Recorded
    <3>2. e # None
      BY <3>1, RingType
    <3>3. Slot(e) = k
      BY <3>2 DEF Consistent, RingFull
    <3>4. Holds(s.history, e) /\ s.history[Slot(e)].guess = "wrong"
      BY <2>7, <3>3 DEF Holds
    <3> HIDE DEF e
    <3>5. e \in Nat /\ e < s.frame
      BY <2>4, <3>1
    <3>6. CASE e <= s.contiguous
      <4>1. e \in Mispredicted(s)
        BY <1>1, <3>4, <3>5, <3>6, MispredictedIs
      <4>2. start <= e
        BY <2>2, <4>1
      <4> QED BY <2>3, <2>4, <3>1, <4>2 DEF e
    <3>7. CASE ~(e <= s.contiguous)
      BY <2>3, <2>4, <3>1, <3>7 DEF e
    <3> QED BY <3>6, <3>7
  <2>8. ASSUME NEW k \in Slots, s.history[k].frame \in start .. (s.frame - 1)
        PROVE  /\ H[k] = Simulated(p, s, s.history[k].frame, wrong)
               /\ H[k] \in HistorySlot /\ H[k].frame = s.history[k].frame
               /\ H[k].guess = "wrong" <=> s.history[k].frame \in wrong
               /\ H[k].guess = "none" => s.history[k].frame <= s.contiguous
               /\ H[k].sum = IF \E g \in wrong : g <= s.history[k].frame
                             THEN Guessed ELSE Result(p, s.history[k].frame)
               /\ ~H[k].published
    <3> DEFINE e == s.history[k].frame
    <3>1. H[k] = Simulated(p, s, e, wrong)
      BY <2>8
    <3>2. e \in Nat /\ (e \in wrong => ~(e <= s.contiguous))
      BY <2>3, <2>4, <2>8
    <3>3. Result(p, e) \in Checksum /\ Guessed \in Checksum
      BY DEF Result, Checksum
    <3> HIDE DEF e, H
    <3> QED BY <3>1, <3>2, <3>3 DEF Simulated, HistorySlot, e
  <2>9. ASSUME NEW k \in Slots, s.history[k].frame \notin start .. (s.frame - 1)
        PROVE  H[k] = s.history[k] /\ H[k].guess # "wrong"
    BY <2>7, <2>9
  <2>10. H \in [Slots -> HistorySlot]
    <3>1. \A k \in Slots : H[k] \in HistorySlot
      <4> HIDE DEF H
      <4> QED BY <2>4, <2>8, <2>9
    <3> QED BY <3>1
  <2> HIDE DEF H
  <2>11. /\ t \in Session /\ t.history = H
         /\ t.frame = s.frame /\ t.contiguous = s.contiguous
         /\ t.remote = s.remote /\ t.remoteNext = s.remoteNext
         /\ t.peerNext = s.peerNext /\ t.desync = s.desync
         /\ t.disconnected = s.disconnected
    BY <1>1, <2>1, <2>10 DEF Session
  <2> HIDE DEF t
  <2>12. \A k \in Slots : t.history[k].frame = s.history[k].frame
    BY <2>8, <2>9, <2>11
  \* Every frame misjudged now is still in the ring.
  <2>13. ASSUME NEW g \in wrong PROVE s.history[Slot(g)].frame = g
    <3>1. g \in 0 .. s.frame /\ s.frame < g + HistoryFrames
      BY <2>3, <2>4, <2>6, RingType
    <3> QED BY <3>1 DEF Consistent, RingFull
  <2>14. ASSUME NEW f \in Int
         PROVE  Wrong(t, f) <=> \E g \in wrong : g <= f
    <3>1. ASSUME NEW g \in wrong, g <= f PROVE Wrong(t, f)
      <4>1. Slot(g) \in Slots /\ s.history[Slot(g)].frame = g
        BY <2>4, <2>13, SlotType
      <4>2. g \in start .. (s.frame - 1)
        BY <2>3, <2>4
      <4>3. t.history[Slot(g)].guess = "wrong" /\ t.history[Slot(g)].frame = g
        BY <2>8, <2>11, <2>12, <4>1, <4>2
      <4> QED BY <3>1, <4>1, <4>3 DEF Wrong
    <3>2. ASSUME Wrong(t, f) PROVE \E g \in wrong : g <= f
      <4>1. PICK k \in Slots : t.history[k].guess = "wrong" /\ t.history[k].frame <= f
        BY <3>2 DEF Wrong
      <4>2. s.history[k].frame \in start .. (s.frame - 1)
        BY <2>9, <2>11, <4>1
      <4>3. s.history[k].frame \in wrong
        BY <2>8, <2>11, <4>1, <4>2
      <4> QED BY <2>12, <4>1, <4>3
    <3> QED BY <3>1, <3>2
  <2>15. ASSUME NEW f \in Int, f <= s.contiguous PROVE ~Wrong(t, f)
    <3>1. \A g \in wrong : ~(g <= f)
      BY <2>4, <2>15
    <3> QED BY <2>14, <3>1
  <2>16. ASSUME NEW f \in Int, Firm(s, f) PROVE f < start /\ Firm(t, f)
    <3>1. f < start
      BY <2>3, <2>5, <2>16 DEF Firm
    <3> QED BY <2>11, <2>15, <2>16, <3>1 DEF Firm
  <2>17. RingFull(t)
    <3>1. RingFull(s)
      BY DEF Consistent
    <3> QED BY <2>4, <2>11, <2>12, <3>1, SlotType DEF RingFull
  <2>18. ASSUME NEW k \in Slots PROVE Recorded(p, t, t.history[k])
    <3> DEFINE e == s.history[k].frame
    <3>1. Recorded(p, s, s.history[k])
      BY DEF Consistent
    <3>2. CASE e \in start .. (s.frame - 1)
      <4>1. e \in Int /\ e \in 0 .. (s.frame - 1)
        BY <2>3, <2>4, <3>2
      <4>2. Wrong(t, e) <=> \E g \in wrong : g <= e
        BY <2>14, <4>1
      <4> QED BY <2>8, <2>11, <3>2, <4>1, <4>2 DEF Recorded
    <3>3. CASE e \notin start .. (s.frame - 1)
      <4>1. t.history[k] = s.history[k] /\ t.history[k].guess # "wrong"
        BY <2>9, <2>11, <3>3
      <4>2. ASSUME e \in 0 .. (s.frame - 1)
            PROVE  ~Wrong(s, e) /\ ~Wrong(t, e)
        <5>1. e \in Int /\ e < start
          BY <2>3, <2>4, <3>3, <4>2
        <5>2. ~Wrong(s, e)
          <6>1. \A j \in Slots : s.history[j].guess = "wrong" => start <= s.history[j].frame
                                   /\ s.history[j].frame \in Int
            BY <2>7, <2>3
          <6>2. \A j \in Slots : s.history[j].guess = "wrong" => ~(s.history[j].frame <= e)
            <7> HIDE DEF e
            <7> QED BY <2>3, <5>1, <6>1
          <6> QED BY <6>2 DEF Wrong
        <5>3. e <= s.contiguous
          BY <2>3, <2>4, <5>1
        <5> QED BY <2>15, <5>1, <5>2, <5>3
      <4>3. t.history[k].published => Firm(t, e)
        <5>1. e \in Int
          BY <2>4, RingType DEF HistorySlot
        <5> QED BY <2>16, <3>1, <4>1, <5>1 DEF Recorded
      <4> QED BY <2>11, <3>1, <4>1, <4>2, <4>3 DEF Recorded
    <3> QED BY <3>2, <3>3
  <2>19. \A k \in Slots : Compares(p, t, t.remote[k])
    <3>1. \A k \in Slots : Compares(p, s, s.remote[k]) /\ s.remote[k].frame \in Int
      BY <1>1, RingType DEF Consistent, Session, RemoteSlot
    <3> QED BY <2>11, <2>16, <3>1 DEF Compares
  <2>20. \A f \in 0 .. (t.remoteNext - 1) : Firm(t, f) /\ f < divergence
    BY <2>11, <2>16 DEF Consistent
  <2>21. Consistent(p, t)
    BY <2>11, <2>17, <2>18, <2>19, <2>20 DEF Consistent
  <2>22. ASSUME NEW f \in Int, Issued(s, f) PROVE Issued(t, f)
    <3>1. ASSUME s.peerNext <= f
          PROVE  t.history[Slot(f)] = s.history[Slot(f)]
      <4>1. /\ Slot(f) \in Slots /\ s.history[Slot(f)].frame = f
            /\ s.history[Slot(f)].published
        BY <2>22, <3>1, SlotType DEF Issued, Holds
      <4>2. Firm(s, f)
        BY <4>1 DEF Consistent, Recorded
      <4>3. f < start
        BY <2>16, <4>2
      <4>4. f \notin start .. (s.frame - 1)
        BY <2>3, <4>3
      <4> QED BY <2>9, <2>11, <4>1, <4>4
    <3> QED BY <2>11, <2>22, <3>1 DEF Issued, Holds
  <2>23. Kept(s, t)
    BY <2>4, <2>11, <2>16, <2>22 DEF Kept
  <2> QED BY <2>11, <2>21, <2>23 DEF t
<1> QED BY <1>2, <1>3

\* The end of a comparison: the first stored checksum that differs, if any.
LEMMA MismatchIs ==
    ASSUME NEW p \in Peer, NEW s, Consistent(p, s), NEW h \in Int, h < s.frame
    PROVE  LET stop == Mismatch(s, h)
           IN  /\ stop \in Nat /\ stop <= s.frame
               /\ stop < s.frame => /\ stop \in s.remoteNext .. h
                                    /\ Stored(s, stop) /\ Differs(s, stop)
               /\ \A f \in s.remoteNext .. h :
                     f < stop => ~(Stored(s, f) /\ Differs(s, f))
               /\ ~Outlived(s, stop)
<1> DEFINE D == {f \in s.remoteNext .. h :
                    Stored(s, f) /\ (Outlived(s, f) \/ Differs(s, f))}
           T == {s.frame} \cup D
           stop == Mismatch(s, h)
<1>1. /\ s.frame \in Nat /\ s.remoteNext \in Nat
      /\ s.frame < s.remoteNext + HistoryFrames
  BY DEF Consistent, Session
<1>2. T \subseteq Int /\ T # {} /\ 0 \in Int /\ \A x \in T : 0 <= x
  BY <1>1
<1>3. stop \in T /\ \A x \in T : stop <= x
  <2>1. stop = Min(T)
    BY DEF Mismatch
  <2> HIDE DEF T, stop
  <2> QED BY <1>2, <2>1, MinOfBounded
<1>4. stop = s.frame \/ stop \in D
  BY <1>3
<1>5. \A f \in D : stop <= f /\ ~Outlived(s, f)
  <2>1. \A f \in s.remoteNext .. h : ~Outlived(s, f)
    BY <1>1, RingType DEF Outlived
  <2> QED BY <1>3, <2>1
<1>6. ~Outlived(s, s.frame)
  BY <1>1, RingType DEF Outlived
<1>7. stop <= s.frame
  BY <1>3
<1>8. stop \in Nat
  BY <1>2, <1>3
<1>9. ASSUME NEW f \in s.remoteNext .. h, f < stop
      PROVE  ~(Stored(s, f) /\ Differs(s, f))
  <2>1. ~(stop <= f)
    BY <1>8, <1>9, <1>1
  <2> QED BY <1>5, <2>1
<1>10. stop \in D => stop \in s.remoteNext .. h /\ Stored(s, stop) /\ Differs(s, stop)
  BY <1>5
<1>11. ~Outlived(s, stop)
  BY <1>4, <1>5, <1>6
<1>12. stop < s.frame => stop \in D
  BY <1>1, <1>4
<1> HIDE DEF D, stop
<1> QED BY <1>7, <1>8, <1>9, <1>10, <1>11, <1>12 DEF stop

\* Both games' results of a firm frame, compared.
LEMMA CompareFirm ==
    ASSUME NEW p \in Peer, NEW s, Consistent(p, s), divergence \in Nat,
           NEW f \in Int, Firm(s, f), Settled(s, f), Holds(s.remote, f)
    PROVE  Differs(s, f) <=> divergence <= f
<1>1. s.history[Slot(f)].sum = Result(p, f)
  BY FirmSum DEF Settled
<1>2. s.remote[Slot(f)].sum = Result(Other(p), f)
  <2>1. Slot(f) \in Slots /\ s.remote[Slot(f)].frame = f
    BY SlotType DEF Holds
  <2>2. f # None
    BY RingType DEF Firm
  <2> QED BY <2>1, <2>2 DEF Consistent, Compares
<1>3. Other(p) # p
  BY OtherPeer
<1> QED BY <1>1, <1>2, <1>3 DEF Differs, Result

\* What is counted as verified is equal on both sides, and what is called a
\* mismatch is one.
LEMMA ComparedKeeps ==
    ASSUME NEW p \in Peer, NEW s, Consistent(p, s), s.desync = None,
           divergence \in Nat, NEW h, h = ChecksumHorizon(s)
    PROVE  LET t == Compared(s, h, Mismatch(s, h))
           IN  /\ Consistent(p, t) /\ Kept(s, t)
               /\ t.peerNext = s.peerNext
               /\ \A k \in Slots : t.remote[k].frame = s.remote[k].frame
               /\ \A f \in 0 .. (t.remoteNext - 1) :
                     f < s.remoteNext \/ Holds(s.remote, f)
<1> DEFINE stop == Mismatch(s, h)
           Verified(f) ==
               /\ Holds(s.remote, f)
               /\ \/ s.remote[Slot(f)].verified
                  \/ f \in s.remoteNext .. Min({h, stop - 1}) /\ Settled(s, f)
           V == {f \in s.remoteNext .. (s.remoteNext + HistoryFrames) : Verified(f)}
           next == 1 + RunEnd(V, s.remoteNext - 1)
           R == [k \in Slots |->
                   [s.remote[k] EXCEPT !.verified = s.remote[k].frame # None
                                                    /\ Verified(s.remote[k].frame)]]
           u == IF next = s.remoteNext THEN s ELSE Progress(s)
           t == Compared(s, h, stop)
<1>1. /\ s \in Session /\ s.frame \in Nat /\ s.remoteNext \in Nat
      /\ s.remote \in [Slots -> RemoteSlot] /\ s.contiguous \in Int
  BY RingType DEF Consistent, Session
<1>2. h \in Int /\ h < s.frame
  <2>1. CASE h = None
    BY <1>1, <2>1, RingType
  <2>2. CASE h # None
    BY <1>1, <2>2, HorizonFirm
  <2> QED BY <2>1, <2>2
<1>3. /\ stop \in Nat /\ stop <= s.frame
      /\ stop < s.frame => /\ stop \in s.remoteNext .. h
                           /\ Stored(s, stop) /\ Differs(s, stop)
      /\ \A f \in s.remoteNext .. h : f < stop => ~(Stored(s, f) /\ Differs(s, f))
      /\ ~Outlived(s, stop)
  BY <1>2, MismatchIs
<1>4. t = [u EXCEPT !.remote = R, !.remoteNext = next,
                    !.desync = IF stop < s.frame /\ ~Outlived(s, stop) THEN stop ELSE @,
                    !.disconnected = @ \/ (stop < s.frame /\ Outlived(s, stop))]
  <2> DEFINE Q == [k \in Slots |->
                     [u.remote[k] EXCEPT !.verified = s.remote[k].frame # None
                                                      /\ Verified(s.remote[k].frame)]]
  <2>1. t = [u EXCEPT !.remote = Q, !.remoteNext = next,
                      !.desync = IF stop < s.frame /\ ~Outlived(s, stop) THEN stop ELSE @,
                      !.disconnected = @ \/ (stop < s.frame /\ Outlived(s, stop))]
    BY DEF Compared
  <2>2. u.remote = s.remote
    <3> HIDE DEF next
    <3> QED BY <1>1 DEF Progress, Session
  <2>3. Q = R
    <3> HIDE DEF u, Verified
    <3> QED BY <2>2
  <2> HIDE DEF Q, R, u, t, next, stop
  <2> QED BY <2>1, <2>3
<1> HIDE DEF stop
<1>5. \A f \in Int : f \in 0 .. h => Firm(s, f)
  <2> SUFFICES ASSUME NEW f \in 0 .. h PROVE Firm(s, f)
    OBVIOUS
  <2>1. h # None
    BY <1>2, RingType
  <2>2. Firm(s, h)
    BY <2>1, HorizonFirm
  <2> QED BY <1>1, <1>2, <2>2, FirmBelow
<1>6. ASSUME NEW f \in Nat, Verified(f)
      PROVE  Firm(s, f) /\ f < divergence /\ Holds(s.remote, f) /\ f # stop
  <2>1. Slot(f) \in Slots /\ s.remote[Slot(f)].frame = f
    BY <1>6, SlotType DEF Holds
  <2>2. CASE s.remote[Slot(f)].verified
    <3>1. Firm(s, f) /\ f < divergence
      BY <2>1, <2>2 DEF Consistent, Compares
    <3>2. f # stop
      <4> SUFFICES ASSUME f = stop PROVE FALSE
        OBVIOUS
      <4>1. stop < s.frame
        BY <3>1, <1>1 DEF Firm
      <4> QED BY <1>3, <2>2, <4>1 DEF Stored
    <3> QED BY <1>6, <3>1, <3>2
  <2>3. CASE ~s.remote[Slot(f)].verified
    <3>1. f \in s.remoteNext .. Min({h, stop - 1}) /\ Settled(s, f)
      BY <1>6, <2>3
    <3>2. stop - 1 \in Int
      BY <1>3
    <3>3. Min({h, stop - 1}) \in Int /\ Min({h, stop - 1}) <= h
          /\ Min({h, stop - 1}) <= stop - 1
      BY <1>2, <3>2, MinOfTwo
    <3>4. f \in s.remoteNext .. h /\ f < stop /\ f \in 0 .. h
      BY <1>1, <1>2, <1>3, <3>1, <3>3
    <3>5. Firm(s, f) /\ Stored(s, f)
      BY <1>5, <1>6, <2>3, <3>4 DEF Stored
    <3>6. ~Differs(s, f)
      BY <1>3, <3>4, <3>5
    <3>7. ~(divergence <= f)
      BY <1>6, <3>1, <3>5, <3>6, CompareFirm
    <3> QED BY <1>3, <1>6, <3>4, <3>5, <3>7
  <2> QED BY <2>2, <2>3
<1>7. /\ next \in Int /\ s.remoteNext <= next
      /\ \A f \in s.remoteNext .. (next - 1) : f \in Nat /\ Verified(f)
  <2>1. s.remoteNext - 1 \in Int
    BY <1>1
  <2>2. /\ RunEnd(V, s.remoteNext - 1) \in Int
        /\ s.remoteNext - 1 <= RunEnd(V, s.remoteNext - 1)
        /\ \A f \in (s.remoteNext - 1 + 1) .. RunEnd(V, s.remoteNext - 1) : f \in V
    BY <2>1, RunEndProperties
  <2>3. \A f \in V : f \in Nat /\ Verified(f)
    BY <1>1, RingType
  <2> HIDE DEF V, Verified
  <2>4. next \in Int /\ s.remoteNext <= next
    BY <2>2, <1>1
  <2>5. ASSUME NEW f \in s.remoteNext .. (next - 1) PROVE f \in V
    <3>1. f \in (s.remoteNext - 1 + 1) .. RunEnd(V, s.remoteNext - 1)
      BY <2>2, <1>1
    <3> QED BY <2>2, <3>1
  <2> QED BY <2>3, <2>4, <2>5
<1>8. \A k \in Slots :
         /\ R[k] \in RemoteSlot /\ R[k].frame = s.remote[k].frame
         /\ R[k].sum = s.remote[k].sum
         /\ R[k].verified => s.remote[k].frame # None /\ Verified(s.remote[k].frame)
  <2> SUFFICES ASSUME NEW k \in Slots
               PROVE  /\ R[k] \in RemoteSlot /\ R[k].frame = s.remote[k].frame
                      /\ R[k].sum = s.remote[k].sum
                      /\ R[k].verified =>
                           s.remote[k].frame # None /\ Verified(s.remote[k].frame)
    OBVIOUS
  <2>1. (s.remote[k].frame # None /\ Verified(s.remote[k].frame)) \in BOOLEAN
    OBVIOUS
  <2>2. R[k] = [s.remote[k] EXCEPT !.verified = s.remote[k].frame # None
                                                /\ Verified(s.remote[k].frame)]
    OBVIOUS
  <2> HIDE DEF R, Verified
  <2> QED BY <1>1, <2>1, <2>2 DEF RemoteSlot
<1>9. R \in [Slots -> RemoteSlot]
  BY <1>8
<1> HIDE DEF R, next, Verified
<1>10. /\ u \in Session /\ u.frame = s.frame /\ u.contiguous = s.contiguous
       /\ u.history = s.history /\ u.peerNext = s.peerNext
       /\ u.desync = s.desync /\ u.disconnected = s.disconnected
  BY <1>1, RingType DEF Progress, Session
<1> HIDE DEF u
<1>11. next \in Nat
  BY <1>1, <1>7
<1>12. /\ t \in Session /\ t.frame = s.frame /\ t.contiguous = s.contiguous
       /\ t.history = s.history /\ t.peerNext = s.peerNext
       /\ t.remote = R /\ t.remoteNext = next
       /\ t.desync = (IF stop < s.frame THEN stop ELSE None)
       /\ ~t.disconnected
  BY <1>3, <1>4, <1>9, <1>10, <1>11, RingType DEF Session, Consistent
<1> HIDE DEF t
<1>13. \A f : (Wrong(t, f) <=> Wrong(s, f)) /\ (Firm(t, f) <=> Firm(s, f))
              /\ (Issued(t, f) <=> Issued(s, f)) /\ (Settled(t, f) <=> Settled(s, f))
  <2>1. \A f : Wrong(t, f) <=> Wrong(s, f)
    BY <1>12 DEF Wrong
  <2> QED BY <2>1, <1>12 DEF Firm, Issued, Settled
<1>14. Kept(s, t)
  BY <1>7, <1>12, <1>13 DEF Kept
<1>15. ASSUME NEW f \in 0 .. (t.remoteNext - 1)
       PROVE  /\ Firm(t, f) /\ f < divergence
              /\ f < s.remoteNext \/ Holds(s.remote, f)
  <2>1. CASE f < s.remoteNext
    <3>1. f \in 0 .. (s.remoteNext - 1)
      BY <1>1, <2>1
    <3> QED BY <1>13, <2>1, <3>1 DEF Consistent
  <2>2. CASE ~(f < s.remoteNext)
    <3>1. f \in s.remoteNext .. (next - 1)
      BY <1>1, <1>7, <1>12, <2>2
    <3>2. f \in Nat /\ Verified(f)
      BY <1>7, <3>1
    <3> QED BY <1>6, <1>13, <3>2
  <2> QED BY <2>1, <2>2
<1>16. ASSUME NEW k \in Slots
       PROVE  Compares(p, t, t.remote[k]) /\ t.remote[k].frame = s.remote[k].frame
  <2>1. Compares(p, s, s.remote[k])
    BY DEF Consistent
  <2>2. s.remote[k].frame # None => s.remote[k].frame \in Nat
    BY <1>1 DEF RemoteSlot
  <2>3. R[k].verified => /\ s.remote[k].frame # None
                         /\ Firm(s, s.remote[k].frame) /\ s.remote[k].frame < divergence
    BY <1>6, <1>8, <2>2
  <2>4. t.remote[k] = R[k] /\ R[k].frame = s.remote[k].frame
        /\ R[k].sum = s.remote[k].sum
    BY <1>8, <1>12
  <2>5. R[k].verified => Firm(t, s.remote[k].frame)
    BY <1>13, <2>3
  <2> HIDE DEF Compares
  <2> QED BY <2>1, <2>3, <2>4, <2>5 DEF Compares
<1>17. RingFull(t)
  BY <1>12 DEF Consistent, RingFull
<1>18. \A k \in Slots : Recorded(p, t, t.history[k])
  BY <1>12, <1>13 DEF Consistent, Recorded
<1>19. ASSUME t.desync # None
       PROVE  /\ divergence <= t.desync /\ t.remoteNext <= t.desync
              /\ Settled(t, t.desync) /\ Holds(t.remote, t.desync)
  <2>1. stop < s.frame /\ t.desync = stop
    BY <1>12, <1>19
  <2>2. /\ stop \in s.remoteNext .. h /\ Stored(s, stop) /\ Differs(s, stop)
    BY <1>3, <2>1
  <2>3. Settled(s, stop) /\ Holds(s.remote, stop)
    BY <2>2 DEF Differs, Stored
  <2>4. stop \in 0 .. h
    BY <1>1, <1>2, <2>2
  <2>5. divergence <= stop
    BY <1>3, <1>5, <2>2, <2>3, <2>4, CompareFirm
  <2>6. next <= stop
    <3> SUFFICES ASSUME stop <= next - 1 PROVE FALSE
      BY <1>3, <1>7
    <3>1. stop \in s.remoteNext .. (next - 1)
      BY <1>1, <1>3, <1>7, <2>2
    <3> QED BY <1>6, <1>7, <3>1
  <2>7. Holds(t.remote, stop)
    BY <1>3, <1>16, <2>3, SlotType DEF Holds
  <2> QED BY <1>12, <1>13, <2>1, <2>3, <2>5, <2>6, <2>7
<1>20. t.frame < t.remoteNext + HistoryFrames
  <2>1. s.frame < s.remoteNext + HistoryFrames
    BY DEF Consistent
  <2> QED BY <1>1, <1>7, <1>12, <2>1, RingType
<1>21. Consistent(p, t)
  BY <1>12, <1>15, <1>16, <1>17, <1>18, <1>19, <1>20 DEF Consistent
<1> QED BY <1>12, <1>14, <1>15, <1>16, <1>21 DEF t, stop

LEMMA ProcessDeferredKeeps ==
    ASSUME NEW p \in Peer, NEW s, Consistent(p, s), s.desync = None,
           divergence \in Nat, NEW t \in ProcessDeferred(s)
    PROVE  /\ Consistent(p, t) /\ Kept(s, t)
           /\ t.peerNext = s.peerNext
           /\ \A k \in Slots : t.remote[k].frame = s.remote[k].frame
           /\ \A f \in 0 .. (t.remoteNext - 1) :
                 f < s.remoteNext \/ Holds(s.remote, f)
<1> DEFINE h == ChecksumHorizon(s)
<1>1. t = IF h - s.remoteNext >= HistoryFrames
          THEN [s EXCEPT !.disconnected = TRUE]
          ELSE Compared(s, h, Mismatch(s, h))
  BY DEF ProcessDeferred
<1>2. /\ s.frame \in Nat /\ s.remoteNext \in Nat
      /\ s.frame < s.remoteNext + HistoryFrames
  BY DEF Consistent, Session
<1>3. h \in Int /\ h < s.frame
  <2>1. CASE h = None
    BY <1>2, <2>1, RingType
  <2>2. CASE h # None
    BY <1>2, <2>2, HorizonFirm
  <2> QED BY <2>1, <2>2
<1>4. ~(h - s.remoteNext >= HistoryFrames)
  <2> HIDE DEF h
  <2> QED BY <1>2, <1>3, RingType
<1>5. t = Compared(s, h, Mismatch(s, h))
  BY <1>1, <1>4
<1> QED BY <1>5, ComparedKeeps

\* The boundary of the next frame falls into the slot of the oldest one kept.
LEMMA OldestSlot ==
    ASSUME NEW s, RingFull(s), s.frame \in Nat, HistoryFrames <= s.frame + 1
    PROVE  s.history[Slot(s.frame + 1)].frame = s.frame + 1 - HistoryFrames
<1>1. PICK n \in Int : n = s.frame + 1
  OBVIOUS
<1>2. PICK e \in Int : e = n - HistoryFrames
  BY RingType
<1>3. Slot(n) = Slot(e)
  BY <1>2, SlotShift
<1>4. e \in 0 .. s.frame /\ s.frame < e + HistoryFrames
  BY <1>1, <1>2, RingType
<1>5. s.history[Slot(e)].frame = e
  BY <1>4 DEF RingFull
<1>6. e = s.frame + 1 - HistoryFrames
  BY <1>1, <1>2, RingType
<1>7. s.history[Slot(s.frame + 1)].frame = e
  BY <1>1, <1>3, <1>5, Zenon
<1> QED BY <1>6, <1>7, Zenon

\* A new frame takes the place of one that both sides have verified.
LEMMA TickKeeps ==
    ASSUME NEW p \in Peer, NEW s, Consistent(p, s), s.desync = None,
           NEW miss \in SUBSET {s.frame}, s.frame <= s.contiguous => miss = {}
    PROVE  LET t == Tick(p, s, Misjudged(s) \cup miss)
           IN  /\ Consistent(p, t) /\ Kept(s, t) /\ t.remote = s.remote
               /\ t.remoteNext = s.remoteNext /\ t.peerNext = s.peerNext
<1> DEFINE t == Tick(p, s, Misjudged(s) \cup miss)
<1>1. /\ s \in Session /\ s.frame \in Nat /\ s.contiguous \in Int
      /\ s.remoteNext \in Nat /\ s.peerNext \in Nat
      /\ s.history \in [Slots -> HistorySlot]
  BY RingType DEF Consistent, Session
<1>2. CASE ~BoundaryFree(s)
  <2>1. t = [s EXCEPT !.failed = TRUE]
    BY <1>2 DEF Tick
  <2>2. t \in Session /\ SameStream(s, t)
    BY <1>1, <2>1 DEF Session, SameStream
  <2>3. Consistent(p, t) /\ Kept(s, t)
    <3> HIDE DEF t
    <3> QED BY <2>2, SameStreamKeeps
  <2> QED BY <2>2, <2>3 DEF SameStream
<1>3. CASE BoundaryFree(s)
  <2> DEFINE a == Slot(s.frame)
             b == Slot(s.frame + 1)
             old == s.history[b]
             new == Simulated(p, s, s.frame, Misjudged(s) \cup miss)
             H == [[s.history EXCEPT ![a] = new] EXCEPT ![b] = Boundary(s.frame + 1)]
  <2>1. a \in Slots /\ b \in Slots
    BY <1>1, SlotType
  <2>2. s.history[a].frame = s.frame
    <3>1. s.frame \in 0 .. s.frame /\ s.frame < s.frame + HistoryFrames
      BY <1>1, RingType
    <3> QED BY <3>1 DEF Consistent, RingFull
  <2>3. old.frame # None => old.frame \in Nat /\ old.frame <= s.frame /\ Slot(old.frame) = b
    BY <1>1, <2>1 DEF Consistent, RingFull, HistorySlot
  \* The frame that goes is verified, in both directions.
  <2>4. old.frame # None => old.frame < s.peerNext /\ old.frame < s.remoteNext
    <3>1. old.frame # s.frame + 1
      BY <1>1, <2>3, RingType
    <3> QED BY <1>3, <3>1 DEF BoundaryFree, Retirable
  <2>5. s.remoteNext <= s.frame
    <3> SUFFICES ASSUME s.remoteNext - 1 >= s.frame PROVE FALSE
      BY <1>1
    <3>1. s.remoteNext - 1 \in 0 .. (s.remoteNext - 1)
      BY <1>1
    <3>2. s.remoteNext - 1 \in 0 .. (s.frame - 1)
      BY <3>1 DEF Consistent, Firm
    <3> QED BY <1>1, <3>2
  <2>6. a # b
    <3> SUFFICES ASSUME a = b PROVE FALSE
      OBVIOUS
    <3>1. old.frame = s.frame
      BY <2>2
    <3>2. old.frame # None
      BY <1>1, <3>1, RingType
    <3> QED BY <1>1, <2>4, <2>5, <3>1, <3>2
  <2>7. s.frame + 1 < s.remoteNext + HistoryFrames
    <3>1. CASE old.frame = None
      <4>1. ~(HistoryFrames <= s.frame + 1)
        <5> SUFFICES ASSUME HistoryFrames <= s.frame + 1 PROVE FALSE
          OBVIOUS
        <5>1. old.frame = s.frame + 1 - HistoryFrames
          BY <1>1, OldestSlot DEF Consistent
        <5>2. old.frame = -1
          BY <3>1, RingType
        <5> HIDE DEF old
        <5> QED BY <1>1, <5>1, <5>2, RingType
      <4> QED BY <1>1, <4>1, RingType
    <3>2. CASE old.frame # None
      <4>1. old.frame \in Nat /\ old.frame < s.frame + 1 /\ Slot(old.frame) = Slot(s.frame + 1)
        BY <1>1, <2>3, <3>2
      <4>2. old.frame + HistoryFrames <= s.frame + 1
        BY <1>1, <4>1, SlotsApart
      <4>3. old.frame = s.frame + 1 - HistoryFrames
        <5>1. HistoryFrames <= s.frame + 1
          <6> HIDE DEF old
          <6> QED BY <1>1, <4>1, <4>2, RingType
        <5> QED BY <1>1, <5>1, OldestSlot DEF Consistent
      <4>4. old.frame < s.remoteNext
        BY <2>4, <3>2
      <4> HIDE DEF old
      <4> QED BY <1>1, <4>1, <4>2, <4>3, <4>4, RingType
    <3> QED BY <3>1, <3>2
  <2>8. old.guess # "wrong"
    <3> SUFFICES ASSUME old.guess = "wrong" PROVE FALSE
      OBVIOUS
    <3>1. old.frame \in 0 .. (s.frame - 1)
      BY <2>1 DEF Consistent, Recorded
    <3>2. old.frame # None /\ old.frame \in Int
      BY <3>1, RingType
    <3>3. old.frame \in 0 .. (s.remoteNext - 1)
      BY <1>1, <2>4, <3>1, <3>2
    <3>4. ~Wrong(s, old.frame)
      BY <3>3 DEF Consistent, Firm
    <3>5. Wrong(s, old.frame)
      BY <2>1, <3>2 DEF Wrong
    <3> QED BY <3>4, <3>5
  <2>9. \A k \in Slots : s.history[k].guess = "wrong" =>
            s.history[k].frame \in 0 .. (s.frame - 1) /\ k # a /\ k # b
    <3>1. \A k \in Slots : s.history[k].guess = "wrong" => s.history[k].frame \in 0 .. (s.frame - 1)
      BY DEF Consistent, Recorded
    <3>2. ~(s.frame \in 0 .. (s.frame - 1))
      BY <1>1
    <3> QED BY <2>2, <2>8, <3>1, <3>2
  <2>10. Misjudged(s) = {s.history[k].frame : k \in {j \in Slots : s.history[j].guess = "wrong"}}
    BY DEF Misjudged
  <2>11. \A f : (\E g \in Misjudged(s) : g <= f) <=> Wrong(s, f)
    BY <2>10 DEF Wrong
  <2>12. s.frame \notin Misjudged(s)
    <3>1. ~(s.frame \in 0 .. (s.frame - 1))
      BY <1>1
    <3> QED BY <2>9, <2>10, <3>1
  <2>13. /\ new \in HistorySlot /\ new.frame = s.frame /\ ~new.published
         /\ new.guess = "wrong" <=> s.frame \in miss
         /\ new.guess = "none" => s.frame <= s.contiguous
         /\ new.sum = IF (\E g \in Misjudged(s) \cup miss : g <= s.frame)
                      THEN Guessed ELSE Result(p, s.frame)
    <3>1. Result(p, s.frame) \in Checksum /\ Guessed \in Checksum
      BY DEF Result, Checksum
    <3>2. s.frame \in Misjudged(s) \cup miss <=> s.frame \in miss
      BY <2>12
    <3>3. new = [frame |-> s.frame,
                 guess |-> IF s.frame <= s.contiguous THEN "none"
                           ELSE IF s.frame \in Misjudged(s) \cup miss THEN "wrong" ELSE "right",
                 sum |-> IF \E g \in Misjudged(s) \cup miss : g <= s.frame
                         THEN Guessed ELSE Result(p, s.frame),
                 published |-> FALSE]
      BY DEF Simulated
    <3> HIDE DEF new
    <3> QED BY <1>1, <3>1, <3>2, <3>3 DEF HistorySlot
  <2> HIDE DEF new
  <2>14. /\ Boundary(s.frame + 1).frame = s.frame + 1
         /\ Boundary(s.frame + 1).guess = "none"
         /\ Boundary(s.frame + 1).published = FALSE
    BY DEF Boundary, NoHistory
  <2>15. Boundary(s.frame + 1) \in HistorySlot
    <3>1. PICK n \in Nat : n = s.frame + 1
      BY <1>1
    <3>2. NoHistory \in HistorySlot
      BY RingType DEF NoHistory, HistorySlot, Checksum
    <3>3. Boundary(n) \in HistorySlot
      BY <3>2 DEF Boundary, HistorySlot
    <3> QED BY <3>1, <3>3
  <2>16. t = [s EXCEPT !.frame = @ + 1, !.history = H]
    BY <1>1, <1>3, <2>1 DEF Tick, Session, new
  <2>17. /\ H \in [Slots -> HistorySlot] /\ H[a] = new /\ H[b] = Boundary(s.frame + 1)
         /\ \A k \in Slots : k # a /\ k # b => H[k] = s.history[k]
    BY <1>1, <2>1, <2>6, <2>13, <2>15
  <2> HIDE DEF H
  <2>18. /\ t \in Session /\ t.history = H /\ t.frame = s.frame + 1
         /\ t.contiguous = s.contiguous /\ t.remote = s.remote
         /\ t.remoteNext = s.remoteNext /\ t.peerNext = s.peerNext
         /\ t.desync = s.desync /\ t.disconnected = s.disconnected
    <3>1. PICK n \in Nat : n = s.frame + 1
      BY <1>1
    <3>2. t = [s EXCEPT !.frame = n, !.history = H]
      BY <2>16, <3>1
    <3> HIDE DEF t, a, b, old
    <3> QED BY <1>1, <2>17, <3>1, <3>2 DEF Session
  <2> HIDE DEF t, a, b
  <2>19. ASSUME NEW f \in Int
         PROVE  Wrong(t, f) <=> Wrong(s, f) \/ (s.frame \in miss /\ s.frame <= f)
    <3>1. ASSUME Wrong(s, f) PROVE Wrong(t, f)
      BY <2>9, <2>17, <2>18, <3>1 DEF Wrong
    <3>2. ASSUME s.frame \in miss, s.frame <= f PROVE Wrong(t, f)
      BY <2>1, <2>13, <2>17, <2>18, <3>2 DEF Wrong
    <3>3. ASSUME Wrong(t, f) PROVE Wrong(s, f) \/ (s.frame \in miss /\ s.frame <= f)
      <4>1. PICK k \in Slots : H[k].guess = "wrong" /\ H[k].frame <= f
        BY <2>18, <3>3 DEF Wrong
      <4>2. k # b
        BY <2>14, <2>17, <4>1
      <4>3. CASE k = a
        BY <2>13, <2>17, <4>1, <4>3
      <4>4. CASE k # a
        BY <2>17, <4>1, <4>2, <4>4 DEF Wrong
      <4> QED BY <4>3, <4>4
    <3> QED BY <3>1, <3>2, <3>3
  <2>20. ASSUME NEW f \in Int, f < s.frame PROVE Wrong(t, f) <=> Wrong(s, f)
    <3>1. ~(s.frame <= f)
      BY <1>1, <2>20
    <3> QED BY <2>19, <3>1
  <2>21. ASSUME NEW f \in Int, Firm(s, f) PROVE Firm(t, f) /\ f < s.frame
    <3>1. f < s.frame /\ f \in 0 .. (t.frame - 1)
      BY <1>1, <2>18, <2>21 DEF Firm
    <3> QED BY <2>18, <2>20, <2>21, <3>1 DEF Firm
  <2>22. RingFull(t)
    <3>1. ASSUME NEW f \in 0 .. t.frame, t.frame < f + HistoryFrames
          PROVE  H[Slot(f)].frame = f
      <4>1. f \in Int /\ s.frame < f + HistoryFrames
        BY <1>1, <2>18, <3>1, RingType
      <4>2. CASE f = s.frame + 1
        BY <2>14, <2>17, <4>2 DEF b
      <4>3. CASE f = s.frame
        BY <2>13, <2>17, <4>3 DEF a
      <4>4. CASE f \in 0 .. (s.frame - 1)
        <5>1. f \in 0 .. s.frame
          BY <1>1, <4>4
        <5>2. s.history[Slot(f)].frame = f
          BY <4>1, <5>1 DEF Consistent, RingFull
        <5>3. Slot(f) # a
          <6> SUFFICES ASSUME Slot(f) = a PROVE FALSE
            OBVIOUS
          <6> QED BY <1>1, <2>2, <4>4, <5>2
        <5>4. Slot(f) # b
          <6> SUFFICES ASSUME Slot(f) = b PROVE FALSE
            OBVIOUS
          <6>1. f < s.frame + 1
            BY <1>1, <4>4
          <6>2. f + HistoryFrames <= s.frame + 1
            BY <1>1, <4>1, <6>1, SlotsApart DEF b
          <6> QED BY <1>1, <2>18, <3>1, <4>1, <6>2, RingType
        <5> QED BY <2>17, <4>1, <5>2, <5>3, <5>4, SlotType
      <4> QED BY <1>1, <2>18, <3>1, <4>2, <4>3, <4>4
    <3>2. ASSUME NEW k \in Slots, H[k].frame # None
          PROVE  H[k].frame <= t.frame /\ Slot(H[k].frame) = k
      <4>1. CASE k = b
        BY <1>1, <2>14, <2>17, <2>18, <4>1 DEF b
      <4>2. CASE k = a
        BY <1>1, <2>6, <2>13, <2>17, <2>18, <4>2 DEF a
      <4>3. CASE k # a /\ k # b
        <5>1. s.history[k].frame <= s.frame /\ Slot(s.history[k].frame) = k
          BY <2>17, <3>2, <4>3 DEF Consistent, RingFull
        <5>2. s.history[k].frame \in Int
          BY <1>1, RingType DEF HistorySlot
        <5> QED BY <1>1, <2>17, <2>18, <4>3, <5>1, <5>2
      <4> QED BY <4>1, <4>2, <4>3
    <3> QED BY <2>18, <3>1, <3>2 DEF RingFull
  <2>23. ASSUME NEW k \in Slots PROVE Recorded(p, t, H[k])
    <3>1. CASE k = b
      <4>1. ~(s.frame + 1 \in 0 .. (t.frame - 1))
        BY <1>1, <2>18
      <4> QED BY <2>14, <2>17, <3>1, <4>1 DEF Recorded
    <3>2. CASE k = a
      <4>1. s.frame \in 0 .. (t.frame - 1) /\ s.frame \in Int /\ s.frame <= s.frame
        BY <1>1, <2>18
      <4>2. Wrong(t, s.frame) <=> Wrong(s, s.frame) \/ s.frame \in miss
        BY <2>19, <4>1
      <4>3. (\E g \in Misjudged(s) \cup miss : g <= s.frame)
               <=> Wrong(s, s.frame) \/ s.frame \in miss
        BY <2>11, <4>1
      <4> QED BY <2>6, <2>13, <2>17, <2>18, <3>2, <4>1, <4>2, <4>3 DEF Recorded
    <3>3. CASE k # a /\ k # b
      <4> DEFINE h == s.history[k]
      <4>1. H[k] = h /\ Recorded(p, s, h)
        BY <2>17, <3>3 DEF Consistent
      <4>2. h.frame # s.frame
        <5> SUFFICES ASSUME h.frame = s.frame PROVE FALSE
          OBVIOUS
        <5>1. h.frame # None
          BY <1>1, RingType
        <5> QED BY <3>3, <5>1 DEF Consistent, RingFull, a
      <4>3. h.frame \in Int
        BY <1>1, RingType DEF HistorySlot
      <4> HIDE DEF h
      <4>4. h.frame \in 0 .. (t.frame - 1) => h.frame \in 0 .. (s.frame - 1)
        BY <1>1, <2>18, <4>2, <4>3
      <4>5. h.frame \in 0 .. (s.frame - 1) =>
               /\ h.frame \in 0 .. (t.frame - 1)
               /\ Wrong(t, h.frame) <=> Wrong(s, h.frame)
        BY <1>1, <2>18, <2>20, <4>3
      <4>6. h.published => Firm(t, h.frame) /\ h.guess = "none"
        BY <2>21, <4>1, <4>3 DEF Recorded
      <4> QED BY <2>18, <4>1, <4>4, <4>5, <4>6 DEF Recorded
    <3> QED BY <3>1, <3>2, <3>3
  <2>24. \A k \in Slots : Compares(p, t, t.remote[k])
    <3>1. \A k \in Slots : Compares(p, s, s.remote[k]) /\ s.remote[k].frame \in Int
      BY <1>1, RingType DEF Consistent, Session, RemoteSlot
    <3> QED BY <2>18, <2>21, <3>1 DEF Compares
  <2>25. \A f \in 0 .. (t.remoteNext - 1) : Firm(t, f) /\ f < divergence
    BY <2>18, <2>21 DEF Consistent
  <2>26. t.frame < t.remoteNext + HistoryFrames
    BY <2>7, <2>18
  <2>27. Consistent(p, t)
    BY <2>18, <2>22, <2>23, <2>24, <2>25, <2>26 DEF Consistent
  <2>28. ASSUME NEW f \in Int, Issued(s, f) PROVE Issued(t, f)
    <3>1. f \in 0 .. (s.frame - 1) /\ f \in 0 .. (t.frame - 1)
      BY <1>1, <2>18, <2>28 DEF Issued
    <3>2. ASSUME s.peerNext <= f PROVE H[Slot(f)] = s.history[Slot(f)]
      <4>1. s.history[Slot(f)].frame = f /\ Slot(f) \in Slots
        BY <2>28, <3>2, SlotType DEF Issued, Holds
      <4>2. Slot(f) # a
        <5> SUFFICES ASSUME Slot(f) = a PROVE FALSE
          OBVIOUS
        <5> QED BY <1>1, <2>2, <3>1, <4>1
      <4>3. Slot(f) # b
        <5> SUFFICES ASSUME Slot(f) = b PROVE FALSE
          OBVIOUS
        <5>1. old.frame = f
          BY <4>1
        <5>2. f # None
          BY <3>1, RingType
        <5> HIDE DEF old
        <5> QED BY <1>1, <2>4, <3>2, <5>1, <5>2
      <4> QED BY <2>17, <4>1, <4>2, <4>3
    <3> QED BY <2>18, <2>28, <3>1, <3>2 DEF Issued, Holds
  <2>29. Kept(s, t)
    BY <1>1, <2>18, <2>21, <2>28 DEF Kept
  <2> QED BY <2>18, <2>27, <2>29 DEF t
<1> QED BY <1>2, <1>3

-----------------------------------------------------------------------------
(***************************************************************************)
(* What a packet brings.                                                   *)
(***************************************************************************)
LEMMA ResultType ==
    ASSUME NEW p \in Peer, NEW f PROVE Result(p, f) \in Checksum
  BY DEF Result, Checksum

\* Inputs that arrive make guesses firm and no firm frame wrong.
LEMMA NoteInputsKeeps ==
    ASSUME NEW p \in Peer, NEW s, Consistent(p, s), s.desync = None,
           NEW m, m.queued \in Nat, m.base \in Nat \cup {None}
    PROVE  LET t == NoteInputs(s, m)
           IN  /\ Consistent(p, t) /\ Kept(s, t) /\ t.desync = None
               /\ t.remote = s.remote /\ t.remoteNext = s.remoteNext
               /\ t.peerNext = s.peerNext
<1> DEFINE known == Max({s.contiguous, m.queued})
           H == [k \in Slots |->
                   IF s.history[k].guess = "right" /\ s.history[k].frame <= known
                   THEN [s.history[k] EXCEPT !.guess = "none"] ELSE s.history[k]]
           acked == Max({s.peerAcked, m.base})
           t == NoteInputs(s, m)
<1>1. /\ s \in Session /\ s.frame \in Nat /\ s.contiguous \in Nat \cup {None}
      /\ s.history \in [Slots -> HistorySlot] /\ s.peerAcked \in Nat \cup {None}
  BY DEF Consistent, Session
<1>2. /\ known \in Nat \cup {None} /\ known \in Int
      /\ s.contiguous \in Int /\ s.contiguous <= known
  <2>1. s.contiguous \in Int /\ m.queued \in Int
    BY <1>1, RingType
  <2>2. known = IF s.contiguous >= m.queued THEN s.contiguous ELSE m.queued
    BY <2>1, MaxOfTwo
  <2> HIDE DEF known
  <2> QED BY <1>1, <2>1, <2>2
<1>3. acked \in Nat \cup {None}
  <2>1. s.peerAcked \in Int /\ m.base \in Int
    BY <1>1, RingType
  <2>2. acked = IF s.peerAcked >= m.base THEN s.peerAcked ELSE m.base
    BY <2>1, MaxOfTwo
  <2> HIDE DEF acked
  <2> QED BY <1>1, <2>2
<1>4. t = [s EXCEPT !.contiguous = known, !.peerAcked = acked, !.history = H]
  BY DEF NoteInputs
<1> HIDE DEF known, acked
<1>5. \A k \in Slots :
         /\ H[k] \in HistorySlot
         /\ H[k].frame = s.history[k].frame /\ H[k].sum = s.history[k].sum
         /\ H[k].published = s.history[k].published
         /\ H[k].guess = "wrong" <=> s.history[k].guess = "wrong"
         /\ s.history[k].guess = "none" => H[k].guess = "none"
         /\ H[k].guess = "none" => \/ s.history[k].guess = "none"
                                   \/ s.history[k].frame <= known
  BY <1>1 DEF HistorySlot
<1>6. H \in [Slots -> HistorySlot]
  BY <1>5
<1> HIDE DEF H
<1>7. /\ t \in Session /\ t.history = H /\ t.frame = s.frame
      /\ t.contiguous = known /\ t.remote = s.remote
      /\ t.remoteNext = s.remoteNext /\ t.peerNext = s.peerNext
      /\ t.desync = s.desync /\ t.disconnected = s.disconnected
  BY <1>1, <1>2, <1>3, <1>4, <1>6 DEF Session
<1> HIDE DEF t
<1>8. \A f : Wrong(t, f) <=> Wrong(s, f)
  BY <1>5, <1>7 DEF Wrong
<1>9. \A f \in Int : Firm(s, f) => Firm(t, f)
  BY <1>2, <1>7, <1>8 DEF Firm
<1>10. \A f \in Int : Issued(s, f) => Issued(t, f)
  BY <1>5, <1>7, SlotType DEF Issued, Holds
<1>11. RingFull(t)
  <2>1. RingFull(s)
    BY DEF Consistent
  <2> QED BY <2>1, <1>1, <1>5, <1>7, SlotType DEF RingFull
<1>12. ASSUME NEW k \in Slots PROVE Recorded(p, t, t.history[k])
  <2> DEFINE h == s.history[k]
             g == H[k]
  <2>1. Recorded(p, s, h)
    BY DEF Consistent
  <2>2. h.frame \in Int
    BY <1>1, RingType DEF HistorySlot
  <2>3. /\ g.frame = h.frame /\ g.sum = h.sum /\ g.published = h.published
        /\ g.guess = "wrong" <=> h.guess = "wrong"
        /\ h.guess = "none" => g.guess = "none"
        /\ g.guess = "none" => h.guess = "none" \/ h.frame <= known
    BY <1>5
  <2> HIDE DEF h, g
  <2>4. h.frame \in 0 .. (s.frame - 1) /\ g.guess = "none" => h.frame <= known
    BY <1>2, <2>1, <2>2, <2>3 DEF Recorded
  <2>5. g.published => Firm(t, g.frame) /\ g.guess = "none"
    BY <1>9, <2>1, <2>2, <2>3 DEF Recorded
  <2>6. Recorded(p, t, g)
    BY <1>7, <1>8, <2>1, <2>3, <2>4, <2>5 DEF Recorded
  <2> QED BY <1>7, <2>6 DEF g
<1>13. \A k \in Slots : Compares(p, t, t.remote[k])
  <2>1. \A k \in Slots : Compares(p, s, s.remote[k]) /\ s.remote[k].frame \in Int
    BY <1>1, RingType DEF Consistent, Session, RemoteSlot
  <2> QED BY <1>7, <1>9, <2>1 DEF Compares
<1>14. \A f \in 0 .. (t.remoteNext - 1) : Firm(t, f) /\ f < divergence
  BY <1>7, <1>9 DEF Consistent
<1>15. Consistent(p, t)
  BY <1>7, <1>11, <1>12, <1>13, <1>14 DEF Consistent
<1>16. Kept(s, t)
  BY <1>1, <1>7, <1>9, <1>10 DEF Kept, Session
<1> QED BY <1>7, <1>15, <1>16 DEF t

LEMMA NoteChecksumAckKeeps ==
    ASSUME NEW p \in Peer, NEW s, Consistent(p, s), s.desync = None,
           NEW m, m.checksumNext \in Nat
    PROVE  LET t == NoteChecksumAck(s, m)
           IN  /\ Consistent(p, t) /\ Kept(s, t) /\ t.desync = None
               /\ t.remote = s.remote /\ t.remoteNext = s.remoteNext
               /\ t.peerNext \in {s.peerNext, m.checksumNext}
<1> DEFINE t == NoteChecksumAck(s, m)
<1>1. s \in Session /\ s.peerNext \in Nat /\ s.remoteNext \in Nat
  BY DEF Consistent, Session
<1>2. CASE ~(m.checksumNext > s.peerNext)
  <2>1. t = s
    BY <1>2 DEF NoteChecksumAck
  <2>2. Kept(s, s)
    BY <1>1 DEF Kept
  <2> QED BY <2>1, <2>2
<1>3. CASE m.checksumNext > s.peerNext
  <2>1. t = [s EXCEPT !.waited = 0, !.blocked = None, !.peerNext = m.checksumNext]
    BY <1>1, <1>3 DEF NoteChecksumAck, Progress, Session
  <2>2. /\ t \in Session /\ t.peerNext = m.checksumNext
        /\ t.frame = s.frame /\ t.contiguous = s.contiguous
        /\ t.history = s.history /\ t.remote = s.remote
        /\ t.remoteNext = s.remoteNext /\ t.desync = s.desync
        /\ t.disconnected = s.disconnected
    <3>1. PICK n \in Nat : n = m.checksumNext
      OBVIOUS
    <3>2. t = [s EXCEPT !.waited = 0, !.blocked = None, !.peerNext = n]
      BY <2>1, <3>1
    <3> HIDE DEF t
    <3> QED BY <1>1, <3>1, <3>2 DEF Session
  <2> HIDE DEF t
  <2>3. \A f : Wrong(t, f) <=> Wrong(s, f)
    BY <2>2 DEF Wrong
  <2>4. \A f : Firm(t, f) <=> Firm(s, f)
    BY <2>2, <2>3 DEF Firm
  <2>5. \A f \in Int : Issued(s, f) => Issued(t, f)
    <3> SUFFICES ASSUME NEW f \in Int, Issued(s, f) PROVE Issued(t, f)
      OBVIOUS
    <3>1. t.peerNext <= f => s.peerNext <= f
      BY <1>1, <1>3, <2>2
    <3> QED BY <2>2, <3>1 DEF Issued
  <2>6. \A k \in Slots : Recorded(p, t, t.history[k])
    BY <2>2, <2>3, <2>4 DEF Consistent, Recorded
  <2>7. \A k \in Slots : Compares(p, t, t.remote[k])
    BY <2>2, <2>4 DEF Consistent, Compares
  <2>8. RingFull(t)
    BY <2>2 DEF Consistent, RingFull
  <2>9. \A f \in 0 .. (t.remoteNext - 1) : Firm(t, f) /\ f < divergence
    BY <2>2, <2>4 DEF Consistent
  <2>10. Consistent(p, t)
    BY <2>2, <2>6, <2>7, <2>8, <2>9 DEF Consistent
  <2>11. Kept(s, t)
    BY <1>1, <2>2, <2>4, <2>5 DEF Kept
  <2> QED BY <2>2, <2>10, <2>11 DEF t
<1> QED BY <1>2, <1>3

\* A stored checksum is one the packet carried.
LEMMA StoreChecksumsKeeps ==
    ASSUME NEW p \in Peer, NEW s, Consistent(p, s), s.desync = None, NEW m,
           \A c \in m.sums : c.frame \in Nat /\ c.sum = Result(Other(p), c.frame)
    PROVE  LET t == StoreChecksums(s, m)
           IN  /\ Consistent(p, t) /\ Kept(s, t) /\ t.desync = None
               /\ t.remoteNext = s.remoteNext /\ t.peerNext = s.peerNext
               /\ \A k \in Slots : \/ t.remote[k].frame = s.remote[k].frame
                                   \/ \E c \in m.sums : t.remote[k].frame = c.frame
<1> DEFINE new == {c \in m.sums : /\ c.frame >= s.remoteNext
                                  /\ s.remote[Slot(c.frame)].frame < c.frame}
           Fresh(c) == [frame |-> c.frame, sum |-> c.sum, verified |-> FALSE]
           R == [k \in Slots |->
                   IF \E c \in new : Slot(c.frame) = k
                   THEN Fresh(CHOOSE c \in new : Slot(c.frame) = k)
                   ELSE s.remote[k]]
           t == StoreChecksums(s, m)
<1>1. s \in Session /\ s.remote \in [Slots -> RemoteSlot] /\ s.remoteNext \in Nat
  BY DEF Consistent, Session
<1>2. t = [s EXCEPT !.remote = R]
  BY DEF StoreChecksums
<1>3. \A k \in Slots : R[k] = s.remote[k] \/ \E c \in m.sums : R[k] = Fresh(c)
  <2> TAKE k \in Slots
  <2>1. CASE \E c \in new : Slot(c.frame) = k
    <3>1. (CHOOSE c \in new : Slot(c.frame) = k) \in new
      BY <2>1
    <3>2. R[k] = Fresh(CHOOSE c \in new : Slot(c.frame) = k)
      BY <2>1
    <3> QED BY <3>1, <3>2
  <2>2. CASE ~\E c \in new : Slot(c.frame) = k
    BY <2>2
  <2> QED BY <2>1, <2>2
<1>4. \A c \in m.sums : Fresh(c) \in RemoteSlot
  <2> TAKE c \in m.sums
  <2>1. c.frame \in Nat /\ c.sum \in Checksum
    BY OtherPeer, ResultType
  <2> QED BY <2>1 DEF RemoteSlot
<1>5. R \in [Slots -> RemoteSlot]
  <2>1. \A k \in Slots : R[k] \in RemoteSlot
    <3> HIDE DEF R, Fresh
    <3> QED BY <1>1, <1>3, <1>4
  <2> QED BY <2>1
<1> HIDE DEF R
<1>6. /\ t \in Session /\ t.remote = R
      /\ t.frame = s.frame /\ t.contiguous = s.contiguous
      /\ t.history = s.history /\ t.remoteNext = s.remoteNext
      /\ t.peerNext = s.peerNext /\ t.desync = s.desync
      /\ t.disconnected = s.disconnected
  BY <1>1, <1>2, <1>5 DEF Session
<1> HIDE DEF t
<1>7. \A f : Wrong(t, f) <=> Wrong(s, f)
  BY <1>6 DEF Wrong
<1>8. \A f : (Firm(t, f) <=> Firm(s, f)) /\ (Issued(t, f) <=> Issued(s, f))
  BY <1>6, <1>7 DEF Firm, Issued
<1>9. \A k \in Slots : Recorded(p, t, t.history[k])
  BY <1>6, <1>7, <1>8 DEF Consistent, Recorded
<1>10. ASSUME NEW k \in Slots PROVE Compares(p, t, t.remote[k])
  <2>1. CASE R[k] = s.remote[k]
    BY <1>6, <1>8, <2>1 DEF Consistent, Compares
  <2>2. CASE \E c \in m.sums : R[k] = Fresh(c)
    BY <1>6, <2>2 DEF Compares
  <2> QED BY <1>3, <2>1, <2>2
<1>11. RingFull(t)
  BY <1>6 DEF Consistent, RingFull
<1>12. \A f \in 0 .. (t.remoteNext - 1) : Firm(t, f) /\ f < divergence
  BY <1>6, <1>8 DEF Consistent
<1>13. Consistent(p, t)
  BY <1>6, <1>9, <1>10, <1>11, <1>12 DEF Consistent
<1>14. Kept(s, t)
  BY <1>1, <1>6, <1>8 DEF Kept
<1>15. \A k \in Slots : \/ t.remote[k].frame = s.remote[k].frame
                          \/ \E c \in m.sums : t.remote[k].frame = c.frame
  <2> TAKE k \in Slots
  <2>1. CASE R[k] = s.remote[k]
    BY <1>6, <2>1
  <2>2. CASE \E c \in m.sums : R[k] = Fresh(c)
    BY <1>6, <2>2
  <2> QED BY <1>3, <2>1, <2>2
<1> QED BY <1>6, <1>13, <1>14, <1>15 DEF t

\* Everything a packet carries is well-formed: what it acknowledges was
\* published, and a checksum that comes twice is the same.
LEMMA EnvelopeIsValid ==
    ASSUME NEW p \in Peer, NEW s, Consistent(p, s), NEW t, Heard(t, s),
           NEW m, Genuine(Other(p), t, m), t.remoteNext \in Nat
    PROVE  ValidEnvelope(s, m)
<1>1. s.peerNext \in Nat /\ m.checksumNext \in Nat /\ m.checksumNext <= t.remoteNext
  BY DEF Consistent, Session, Genuine
<1>2. ASSUME NEW f \in s.peerNext .. (m.checksumNext - 1)
      PROVE  Settled(s, f) /\ s.history[Slot(f)].published
  <2>1. f \in 0 .. (t.remoteNext - 1) /\ s.peerNext <= f /\ f \in Int
    BY <1>1
  <2>2. Issued(s, f)
    BY <2>1 DEF Heard
  <2>3. Holds(s.history, f) /\ s.history[Slot(f)].published
    BY <2>1, <2>2 DEF Issued
  <2>4. Slot(f) \in Slots
    BY <2>1, SlotType
  <2>5. s.history[Slot(f)].guess = "none"
    BY <2>3, <2>4 DEF Consistent, Recorded
  <2> QED BY <2>2, <2>3, <2>5 DEF Settled, Issued
<1>3. ASSUME NEW c \in m.sums, Holds(s.remote, c.frame)
      PROVE  s.remote[Slot(c.frame)].sum = c.sum
  <2>1. Issued(t, c.frame) /\ c.sum = Result(Other(p), c.frame)
    BY DEF Genuine
  <2>2. c.frame \in Int /\ c.frame # None
    BY <2>1, RingType DEF Issued
  <2>3. Slot(c.frame) \in Slots /\ s.remote[Slot(c.frame)].frame = c.frame
    BY <1>3, <2>2, SlotType DEF Holds
  <2> QED BY <2>1, <2>2, <2>3 DEF Consistent, Compares
<1> QED BY <1>2, <1>3 DEF ValidEnvelope

-----------------------------------------------------------------------------
(***************************************************************************)
(* Two sessions, and the packets between them.                             *)
(***************************************************************************)
LEMMA HeardKept ==
    ASSUME NEW s \in Session, NEW t \in Session, Heard(s, t),
           NEW u \in Session, Kept(t, u), u.peerNext <= s.remoteNext
    PROVE  Heard(s, u)
<1>1. \A k \in Slots : s.remote[k].frame \in Int
  BY RingType DEF Session, RemoteSlot
<1>2. s.remoteNext \in Nat
  BY DEF Session
<1> QED BY <1>1, <1>2 DEF Heard, Kept

LEMMA GenuineKept ==
    ASSUME NEW p, NEW s \in Session, NEW t \in Session, Kept(s, t),
           NEW m, Genuine(p, s, m)
    PROVE  Genuine(p, t, m)
<1>1. \A c \in m.sums : c.frame \in Int
  BY DEF Genuine, Issued
<1>2. s.remoteNext \in Nat /\ t.remoteNext \in Nat
  BY DEF Session
<1> QED BY <1>1, <1>2 DEF Genuine, Kept

\* What is compared was heard of.
LEMMA HeardCompared ==
    ASSUME NEW s \in Session, NEW t, Heard(s, t), NEW u \in Session,
           s.remoteNext <= u.remoteNext,
           \A k \in Slots : u.remote[k].frame = s.remote[k].frame,
           \A f \in 0 .. (u.remoteNext - 1) : f < s.remoteNext \/ Holds(s.remote, f),
           t.peerNext \in Nat
    PROVE  Heard(u, t)
<1>1. s.remoteNext \in Nat /\ u.remoteNext \in Nat
  BY DEF Session
<1>2. ASSUME NEW f \in 0 .. (u.remoteNext - 1) PROVE Issued(t, f)
  <2>1. CASE f < s.remoteNext
    <3>1. f \in 0 .. (s.remoteNext - 1)
      BY <1>1, <1>2, <2>1
    <3> QED BY <3>1 DEF Heard
  <2>2. CASE Holds(s.remote, f)
    <3>1. f \in Int /\ f # None
      BY <1>2, RingType
    <3>2. Slot(f) \in Slots /\ s.remote[Slot(f)].frame = f
      BY <2>2, <3>1, SlotType DEF Holds
    <3> QED BY <3>1, <3>2 DEF Heard
  <2> QED BY <2>1, <2>2
<1>3. t.peerNext <= u.remoteNext
  BY <1>1 DEF Heard
<1> QED BY <1>2, <1>3 DEF Heard

\* A packet says what its sender knows; the frames it publishes are marked by
\* the time it is on the way.
LEMMA PacketIsGenuine ==
    ASSUME NEW p \in Peer, NEW s, Consistent(p, s), NEW F \in Publications(s),
           NEW queued \in Nat, NEW t \in Session, s.remoteNext <= t.remoteNext,
           \A f \in F : Issued(t, f)
    PROVE  /\ Packet(p, s, queued, F).to = Other(p)
           /\ Genuine(p, t, Packet(p, s, queued, F))
<1> DEFINE m == Packet(p, s, queued, F)
<1>1. /\ m.to = Other(p) /\ m.queued = queued /\ m.base = s.contiguous
      /\ m.checksumNext = s.remoteNext
      /\ m.sums = {[frame |-> f, sum |-> s.history[Slot(f)].sum] : f \in F}
  BY DEF Packet
<1> HIDE DEF m
<1>2. s.contiguous \in Nat \cup {None} /\ s.remoteNext \in Nat
  BY DEF Consistent, Session
<1>3. ASSUME NEW f \in F PROVE s.history[Slot(f)].sum = Result(p, f)
  <2>1. Settled(s, f) /\ Firm(s, f)
    BY PublicationsSound
  <2> QED BY <2>1, FirmSum DEF Settled
<1>4. \A c \in m.sums : Issued(t, c.frame) /\ c.sum = Result(p, c.frame)
  BY <1>1, <1>3
<1> QED BY <1>1, <1>2, <1>4 DEF Genuine, m

LEMMA SentWithin ==
    ASSUME NEW links, NEW m, NEW after \in Sent(links, m)
    PROVE  after \subseteq links \cup {m}
<1> DEFINE waiting == {n \in links : n.to = m.to} \cup {m}
<1>1. \/ after \in {links \cup {m}}
      \/ after \in {(links \cup {m}) \ {lost} : lost \in waiting}
  BY DEF Sent
<1> QED BY <1>1

\* A peer moves on to session s: the invariant holds again if the session is
\* consistent, keeps what its peer relies on, and was told what it knows.
LEMMA PeerMoves ==
    ASSUME StreamInv, NEW p \in Peer, NEW s, Consistent(p, s), Kept(peer[p], s),
           s.peerNext <= peer[Other(p)].remoteNext, Heard(s, peer[Other(p)]),
           peer' = [peer EXCEPT ![p] = s], UNCHANGED divergence,
           \A m \in net' : m \in net \/ (m.to = Other(p) /\ Genuine(p, s, m))
    PROVE  StreamInv'
<1> DEFINE q == Other(p)
<1>1. q \in Peer /\ q # p /\ Other(q) = p /\ \A x \in Peer : x = p \/ x = q
  BY OtherPeer
<1>2. /\ DOMAIN peer' = Peer /\ peer'[p] = s /\ peer'[q] = peer[q]
      /\ divergence' \in Nat /\ divergence' = divergence
  BY <1>1 DEF StreamInv
<1>3. /\ s \in Session /\ peer[p] \in Session /\ peer[q] \in Session
      /\ Consistent(q, peer[q]) /\ Heard(peer[q], peer[p])
  BY <1>1 DEF StreamInv, Consistent
<1>4. Heard(peer[q], s)
  BY <1>3, HeardKept
<1> HIDE DEF q
<1>5. \A m \in net' : m.to \in Peer /\ Genuine(Other(m.to), peer'[Other(m.to)], m)
  <2> TAKE m \in net'
  <2>1. CASE m.to = q /\ Genuine(p, s, m)
    BY <1>1, <1>2, <2>1
  <2>2. CASE m \in net
    <3>1. m.to \in Peer /\ Genuine(Other(m.to), peer[Other(m.to)], m)
      BY <2>2 DEF StreamInv, Truthful
    <3>2. CASE m.to = p
      BY <1>2, <3>1, <3>2 DEF q
    <3>3. CASE m.to = q
      <4>1. Genuine(p, s, m)
        BY <1>1, <1>3, <3>1, <3>3, GenuineKept
      <4> QED BY <1>1, <1>2, <3>3, <4>1
    <3> QED BY <1>1, <3>1, <3>2, <3>3
  <2> QED BY <2>1, <2>2 DEF q
<1>6. \A x \in Peer : Heard(peer'[x], peer'[Other(x)])
  BY <1>1, <1>2, <1>4 DEF q
<1>7. \A x \in Peer : Consistent(x, peer'[x])
  BY <1>1, <1>2, <1>3
<1>8. \A x, u : Consistent(x, u)' <=> Consistent(x, u)
  BY <1>2 DEF Consistent, Recorded, Compares, Result
<1>9. \A x, u, m : Genuine(x, u, m)' <=> Genuine(x, u, m)
  BY <1>2 DEF Genuine, Result
<1> QED BY <1>2, <1>5, <1>6, <1>7, <1>8, <1>9 DEF StreamInv, Truthful

-----------------------------------------------------------------------------
(***************************************************************************)
(* The steps of the specification.                                         *)
(***************************************************************************)
LEMMA InitialConsistent ==
    ASSUME NEW p \in Peer
    PROVE  Consistent(p, InitialPeer) /\ Heard(InitialPeer, InitialPeer)
<1> DEFINE s == InitialPeer
           H == [k \in Slots |-> IF k = 0 THEN Boundary(0) ELSE NoHistory]
           R == [k \in Slots |-> NoRemote]
<1>1. /\ s.frame = 0 /\ s.contiguous = None /\ s.peerAcked = None
      /\ s.history = H /\ s.remote = R /\ s.remoteNext = 0 /\ s.peerNext = 0
      /\ s.desync = None /\ s.disconnected = FALSE
  BY DEF InitialPeer
<1>2. NoHistory \in HistorySlot /\ Boundary(0) \in HistorySlot /\ NoRemote \in RemoteSlot
  BY RingType DEF NoHistory, NoRemote, Boundary, HistorySlot, RemoteSlot, Checksum
<1>3. H \in [Slots -> HistorySlot] /\ R \in [Slots -> RemoteSlot]
  BY <1>2
<1>4. s \in Session
  <2> HIDE DEF H, R
  <2>1. s = [frame |-> 0, contiguous |-> None, peerAcked |-> None,
             history |-> H, remote |-> R, remoteNext |-> 0, peerNext |-> 0,
             waited |-> 0, blocked |-> None, desync |-> None,
             disconnected |-> FALSE, timedOut |-> FALSE, failed |-> FALSE]
    BY DEF InitialPeer, H, R
  <2> QED BY <1>3, <2>1, RingType DEF Session
<1>5. \A k \in Slots :
         /\ H[k].guess = "none" /\ ~H[k].published
         /\ H[k].frame = IF k = 0 THEN 0 ELSE None
  BY DEF Boundary, NoHistory
<1>6. \A k \in Slots : R[k].frame = None /\ ~R[k].verified
  BY DEF NoRemote
<1> HIDE DEF H, R, s
<1>7. Slot(0) = 0 /\ 0 \in Slots
  <2>1. HistoryFrames \in Nat \ {0} /\ 0 = HistoryFrames * 0 + 0
        /\ 0 \in 0 .. (HistoryFrames - 1)
    BY RingType
  <2>2. 0 % HistoryFrames = 0
    BY <2>1, ModUnique
  <2> QED BY <2>1, <2>2, RingType DEF Slot
<1>8. RingFull(s)
  BY <1>1, <1>5, <1>7, RingType DEF RingFull
<1>9. \A k \in Slots : Recorded(p, s, s.history[k])
  BY <1>1, <1>5, RingType DEF Recorded
<1>10. \A k \in Slots : Compares(p, s, s.remote[k])
  BY <1>1, <1>6 DEF Compares
<1>11. Consistent(p, s)
  BY <1>1, <1>4, <1>8, <1>9, <1>10, RingType DEF Consistent
<1>12. Heard(s, s)
  BY <1>1, <1>6, RingType DEF Heard
<1> QED BY <1>11, <1>12 DEF s

LEMMA StreamInit == Init => StreamInv
<1> SUFFICES ASSUME Init PROVE StreamInv
  OBVIOUS
<1>1. divergence \in Nat
  BY StreamAssumption DEF Init
<1>2. DOMAIN peer = Peer /\ \A p \in Peer : peer[p] = InitialPeer
  BY DEF Init
<1>3. \A p \in Peer : Consistent(p, peer[p]) /\ Heard(peer[p], peer[Other(p)])
  BY <1>2, InitialConsistent, OtherPeer
<1> QED BY <1>1, <1>2, <1>3 DEF Init, StreamInv

\* A packet arrives: it is well-formed, and everything in it is taken in
\* before anything is compared.
LEMMA ReceiveKeeps ==
    ASSUME StreamInv, NEW p \in Peer, Receive(p)
    PROVE  StreamInv'
<1> DEFINE q == Other(p)
           s == peer[p]
<1>1. /\ Consistent(p, s) /\ Heard(s, peer[q]) /\ Heard(peer[q], s)
      /\ s \in Session /\ peer[q] \in Session /\ divergence \in Nat
  BY OtherPeer DEF StreamInv, Consistent
<1>2. PICK m \in net : /\ m.to = p
                       /\ Malformed(p, m) \/ Accept(p, m)
                       /\ net' = net \ {m}
  BY DEF Receive
<1>3. s.desync = None /\ UNCHANGED divergence
  BY DEF Receive, Running
<1>4. Genuine(q, peer[q], m)
  BY <1>2 DEF StreamInv, Truthful
<1>5. ValidEnvelope(s, m)
  <2>1. peer[q].remoteNext \in Nat
    BY <1>1 DEF Session
  <2> QED BY <1>1, <1>4, <2>1, EnvelopeIsValid
<1>6. Accept(p, m)
  BY <1>2, <1>5 DEF Malformed
<1> DEFINE a == NoteInputs(s, m)
           b == NoteChecksumAck(a, m)
           c == StoreChecksums(b, m)
<1>7. PICK d \in ProcessDeferred(c) : peer' = [peer EXCEPT ![p] = d]
  BY <1>6 DEF Accept
<1>8. /\ m.queued \in Nat /\ m.base \in Nat \cup {None} /\ m.checksumNext \in Nat
      /\ m.checksumNext <= peer[q].remoteNext
      /\ \A x \in m.sums : /\ Issued(peer[q], x.frame) /\ x.frame \in Nat
                           /\ x.sum = Result(q, x.frame)
  BY <1>4 DEF Genuine, Issued
<1>9. /\ Consistent(p, a) /\ Kept(s, a) /\ a.desync = None
      /\ a.remote = s.remote /\ a.remoteNext = s.remoteNext /\ a.peerNext = s.peerNext
  BY <1>1, <1>3, <1>8, NoteInputsKeeps
<1> HIDE DEF a
<1>10. /\ Consistent(p, b) /\ Kept(a, b) /\ b.desync = None
       /\ b.remote = a.remote /\ b.remoteNext = a.remoteNext
       /\ b.peerNext \in {a.peerNext, m.checksumNext}
  BY <1>8, <1>9, NoteChecksumAckKeeps
<1> HIDE DEF b
<1>11. /\ Consistent(p, c) /\ Kept(b, c) /\ c.desync = None
       /\ c.remoteNext = b.remoteNext /\ c.peerNext = b.peerNext
       /\ \A k \in Slots : \/ c.remote[k].frame = b.remote[k].frame
                           \/ \E x \in m.sums : c.remote[k].frame = x.frame
  BY <1>8, <1>10, StoreChecksumsKeeps
<1> HIDE DEF c
<1>12. /\ Consistent(p, d) /\ Kept(c, d) /\ d.peerNext = c.peerNext
       /\ \A k \in Slots : d.remote[k].frame = c.remote[k].frame
       /\ \A f \in 0 .. (d.remoteNext - 1) : f < c.remoteNext \/ Holds(c.remote, f)
  BY <1>1, <1>11, ProcessDeferredKeeps
<1>13. a \in Session /\ b \in Session /\ c \in Session /\ d \in Session
  BY <1>9, <1>10, <1>11, <1>12 DEF Consistent
<1>14. Kept(s, d)
  <2>1. Kept(s, b)
    BY <1>1, <1>9, <1>10, <1>13, KeptTransitive
  <2>2. Kept(s, c)
    BY <1>1, <1>11, <1>13, <2>1, KeptTransitive
  <2> QED BY <1>1, <1>12, <1>13, <2>2, KeptTransitive
<1>15. d.peerNext <= peer[q].remoteNext
  <2>1. s.peerNext <= peer[q].remoteNext
    BY <1>1 DEF Heard
  <2> QED BY <1>8, <1>9, <1>10, <1>11, <1>12, <2>1
<1>16. Heard(c, peer[q])
  <2>1. c.remoteNext = s.remoteNext
    BY <1>9, <1>10, <1>11
  <2>2. \A k \in Slots : c.remote[k].frame # None => Issued(peer[q], c.remote[k].frame)
    <3> TAKE k \in Slots
    <3>1. CASE c.remote[k].frame = b.remote[k].frame
      BY <1>1, <1>9, <1>10, <3>1 DEF Heard
    <3>2. CASE \E x \in m.sums : c.remote[k].frame = x.frame
      BY <1>8, <3>2
    <3> QED BY <1>11, <3>1, <3>2
  <2> QED BY <1>1, <2>1, <2>2 DEF Heard
<1>17. Heard(d, peer[q])
  <2>1. c.remoteNext <= d.remoteNext
    BY <1>12 DEF Kept
  <2>2. peer[q].peerNext \in Nat
    BY <1>1 DEF Session
  <2> QED BY <1>12, <1>13, <1>16, <2>1, <2>2, HeardCompared
<1>18. \A n \in net' : n \in net \/ (n.to = Other(p) /\ Genuine(p, d, n))
  <2>1. net' = net \ {m}
    BY <1>2
  <2>2. \A n \in net' : n \in net
    BY <2>1
  <2> QED BY <2>2
<1> QED BY <1>3, <1>7, <1>12, <1>14, <1>15, <1>17, <1>18, PeerMoves

\* The heartbeat, the rollback and the comparison every tick begins with.
LEMMA ReplaysKeeps ==
    ASSUME NEW p \in Peer, NEW s, Consistent(p, s), s.desync = None,
           NEW t \in Replays(p, s)
    PROVE  /\ Consistent(p, t) /\ Kept(s, t) /\ t.desync = None
           /\ t.remote = s.remote /\ t.remoteNext = s.remoteNext
           /\ t.peerNext = s.peerNext
<1>1. PICK wrong \in SUBSET ((s.contiguous + 1) .. (s.frame - 1)) :
         t = Rollback(p, s, wrong)
  <2>1. CASE RollbackPending(s)
    BY <2>1 DEF Replays
  <2>2. CASE ~RollbackPending(s)
    <3>1. t = Rollback(p, s, {})
      BY <2>2 DEF Replays
    <3> QED BY <3>1
  <2> QED BY <2>1, <2>2
<1> QED BY <1>1, RollbackKeeps

\* What waiting for the peer's checksums changes is no part of the stream.
LEMMA AwaitKeeps ==
    ASSUME NEW p \in Peer, NEW s, Consistent(p, s), NEW links,
           AwaitChecksums(p, s, links), DOMAIN peer = Peer
    PROVE  \E t : /\ Consistent(p, t) /\ Kept(s, t) /\ SameStream(s, t)
                  /\ peer' = [peer EXCEPT ![p] = t] /\ net' = links
<1> DEFINE blocked == s.history[Slot(s.frame + 1)].frame
           waited == IF s.blocked = blocked
                     THEN Min({s.waited + 1, StallTimeout}) ELSE 0
           timed == StallTimeout > 0 /\ waited = StallTimeout
           t == [s EXCEPT !.blocked = blocked, !.waited = waited, !.timedOut = timed]
<1>1. /\ s \in Session /\ s.frame \in Nat /\ s.waited \in Nat
      /\ s.history \in [Slots -> HistorySlot]
  BY DEF Consistent, Session
<1>2. blocked \in Nat \cup {None}
  <2>1. s.frame + 1 \in Int
    BY <1>1
  <2>2. Slot(s.frame + 1) \in Slots
    BY <2>1, SlotType
  <2> QED BY <1>1, <2>2 DEF HistorySlot
<1>3. waited \in Nat
  <2>1. s.waited + 1 \in Int /\ StallTimeout \in Int /\ StallTimeout \in Nat
    BY <1>1, RingType
  <2>2. Min({s.waited + 1, StallTimeout}) \in Nat
    BY <1>1, <2>1, MinOfTwo
  <2> QED BY <2>2
<1>4. peer' = [peer EXCEPT ![p] = t] /\ net' = links
  BY DEF AwaitChecksums
<1> HIDE DEF blocked, waited
<1>5. t \in Session /\ SameStream(s, t)
  BY <1>1, <1>2, <1>3 DEF Session, SameStream
<1> HIDE DEF t
<1>6. Consistent(p, t) /\ Kept(s, t)
  BY <1>5, SameStreamKeeps
<1> QED BY <1>4, <1>5, <1>6

\* Simulating a frame, after publishing.
LEMMA SimulateKeeps ==
    ASSUME NEW p \in Peer, NEW s, Consistent(p, s), NEW links,
           Simulate(p, s, links)
    PROVE  \E t, m :
              /\ Consistent(p, t) /\ Kept(s, t)
              /\ t.remote = s.remote /\ t.remoteNext = s.remoteNext
              /\ t.peerNext = s.peerNext
              /\ m.to = Other(p) /\ Genuine(p, t, m)
              /\ peer' = [peer EXCEPT ![p] = t] /\ net' \subseteq links \cup {m}
<1>1. PICK miss \in IF s.frame <= s.contiguous THEN {{}} ELSE {{}, {s.frame}} :
      \E frames \in Publications(s) :
      \E published \in {MarkPublished(Progress(s), frames)} :
         /\ peer' = [peer EXCEPT ![p] =
                       Tick(p, published, Misjudged(s) \cup miss)]
         /\ \E fresh \in {Packet(p, s, s.frame + InputDelay, frames)} :
               net' \in Sent(links, fresh)
  BY DEF Simulate
<1>2. PICK F \in Publications(s) :
      \E published \in {MarkPublished(Progress(s), F)} :
         /\ peer' = [peer EXCEPT ![p] =
                       Tick(p, published, Misjudged(s) \cup miss)]
         /\ \E fresh \in {Packet(p, s, s.frame + InputDelay, F)} :
               net' \in Sent(links, fresh)
  BY <1>1
<1> DEFINE u == MarkPublished(Progress(s), F)
           t == Tick(p, u, Misjudged(u) \cup miss)
           m == Packet(p, s, s.frame + InputDelay, F)
<1>3. peer' = [peer EXCEPT ![p] = Tick(p, u, Misjudged(s) \cup miss)]
      /\ net' \in Sent(links, m)
  BY <1>2
<1>4. s \in Session /\ s.frame \in Nat /\ s.desync = None
  BY DEF Simulate, Ready, Goes, Consistent, Session
<1>5. Progress(s) \in Session /\ SameStream(s, Progress(s))
  BY <1>4, RingType DEF Progress, Session, SameStream
<1>6. Consistent(p, Progress(s)) /\ Kept(s, Progress(s))
  BY <1>5, SameStreamKeeps
<1>7. \A f \in F : Settled(Progress(s), f) /\ Firm(Progress(s), f)
  <2>1. \A f \in F : Settled(s, f) /\ Firm(s, f)
    BY PublicationsSound
  <2> QED BY <1>5, <2>1 DEF SameStream, Settled, Firm, Wrong
<1>8. /\ Consistent(p, u) /\ Kept(Progress(s), u) /\ \A f \in F : Issued(u, f)
      /\ u.frame = Progress(s).frame /\ u.contiguous = Progress(s).contiguous
      /\ u.remote = Progress(s).remote /\ u.remoteNext = Progress(s).remoteNext
      /\ u.peerNext = Progress(s).peerNext /\ u.desync = Progress(s).desync
      /\ \A k \in Slots : /\ u.history[k].frame = Progress(s).history[k].frame
                          /\ u.history[k].guess = Progress(s).history[k].guess
  BY <1>6, <1>7, MarkPublishedKeeps
<1>9. Misjudged(u) = Misjudged(s)
  BY <1>5, <1>8 DEF Misjudged, SameStream
<1>10. /\ u.frame = s.frame /\ u.contiguous = s.contiguous /\ u.desync = None
       /\ u.remote = s.remote /\ u.remoteNext = s.remoteNext
       /\ u.peerNext = s.peerNext
  BY <1>4, <1>5, <1>8 DEF SameStream
<1> HIDE DEF u
<1>11. miss \in SUBSET {u.frame} /\ (u.frame <= u.contiguous => miss = {})
  BY <1>1, <1>10
<1>12. /\ Consistent(p, t) /\ Kept(u, t) /\ t.remote = u.remote
       /\ t.remoteNext = u.remoteNext /\ t.peerNext = u.peerNext
  BY <1>8, <1>10, <1>11, TickKeeps
<1>13. peer' = [peer EXCEPT ![p] = t]
  BY <1>3, <1>9
<1> HIDE DEF t
<1>14. u \in Session /\ t \in Session /\ Progress(s) \in Session
  BY <1>6, <1>8, <1>12 DEF Consistent
<1>15. Kept(s, t)
  <2>1. Kept(s, u)
    BY <1>4, <1>6, <1>8, <1>14, KeptTransitive
  <2> QED BY <1>4, <1>12, <1>14, <2>1, KeptTransitive
<1>16. \A f \in F : Issued(t, f)
  <2>1. \A f \in F : f \in Int
    BY <1>8 DEF Issued
  <2> QED BY <1>8, <1>12, <2>1 DEF Kept
<1>17. m.to = Other(p) /\ Genuine(p, t, m)
  <2>1. s.frame + InputDelay \in Nat
    BY <1>4, RingType
  <2>2. s.remoteNext <= t.remoteNext
    BY <1>15 DEF Kept
  <2> QED BY <1>14, <1>16, <2>1, <2>2, PacketIsGenuine
<1> HIDE DEF m
<1>18. net' \subseteq links \cup {m}
  BY <1>3, SentWithin
<1> QED BY <1>10, <1>12, <1>13, <1>15, <1>17, <1>18

\* A tick ends in one of four ways; in each the peer's promises are kept.
LEMMA AdvanceKeeps ==
    ASSUME StreamInv, NEW p \in Peer, Advance(p)
    PROVE  StreamInv'
<1> DEFINE q == Other(p)
           s == peer[p]
<1>1. /\ Consistent(p, s) /\ Heard(s, peer[q]) /\ Heard(peer[q], s)
      /\ s \in Session /\ peer[q] \in Session /\ divergence \in Nat
      /\ DOMAIN peer = Peer
  BY OtherPeer DEF StreamInv, Consistent
<1>2. s.desync = None /\ UNCHANGED divergence
  BY DEF Advance, Running
<1>3. PICK F \in Publications(s) :
      \E heartbeat \in {Packet(p, s, s.frame - 1 + InputDelay, F)} :
      \E links \in Sent(net, heartbeat) :
      \E replayed \in Replays(p, MarkPublished(s, F)) :
      \E v \in ProcessDeferred(replayed) :
         \/ EndStream(p, v, links) \/ Stall(p, v, links)
         \/ AwaitChecksums(p, v, links) \/ Simulate(p, v, links)
  BY DEF Advance
<1> DEFINE hb == Packet(p, s, s.frame - 1 + InputDelay, F)
           a == MarkPublished(s, F)
<1>4. PICK links \in Sent(net, hb) :
      \E replayed \in Replays(p, a) :
      \E v \in ProcessDeferred(replayed) :
         \/ EndStream(p, v, links) \/ Stall(p, v, links)
         \/ AwaitChecksums(p, v, links) \/ Simulate(p, v, links)
  BY <1>3
<1>5. PICK b \in Replays(p, a) :
      \E v \in ProcessDeferred(b) :
         \/ EndStream(p, v, links) \/ Stall(p, v, links)
         \/ AwaitChecksums(p, v, links) \/ Simulate(p, v, links)
  BY <1>4
<1>6. PICK v \in ProcessDeferred(b) :
         \/ EndStream(p, v, links) \/ Stall(p, v, links)
         \/ AwaitChecksums(p, v, links) \/ Simulate(p, v, links)
  BY <1>5
<1>7. /\ Consistent(p, a) /\ Kept(s, a) /\ \A f \in F : Issued(a, f)
      /\ a.remote = s.remote /\ a.remoteNext = s.remoteNext
      /\ a.peerNext = s.peerNext /\ a.desync = None
  <2>1. \A f \in F : Settled(s, f) /\ Firm(s, f)
    BY <1>1, PublicationsSound
  <2> QED BY <1>1, <1>2, <2>1, MarkPublishedKeeps
<1> HIDE DEF a
<1>8. /\ Consistent(p, b) /\ Kept(a, b) /\ b.desync = None
      /\ b.remote = a.remote /\ b.remoteNext = a.remoteNext
      /\ b.peerNext = a.peerNext
  BY <1>7, ReplaysKeeps
<1>9. /\ Consistent(p, v) /\ Kept(b, v) /\ v.peerNext = b.peerNext
      /\ \A k \in Slots : v.remote[k].frame = b.remote[k].frame
      /\ \A f \in 0 .. (v.remoteNext - 1) : f < b.remoteNext \/ Holds(b.remote, f)
  BY <1>1, <1>8, ProcessDeferredKeeps
<1>10. a \in Session /\ b \in Session /\ v \in Session
  BY <1>7, <1>8, <1>9 DEF Consistent
<1>11. Kept(a, v) /\ Kept(s, v)
  <2>1. Kept(a, v)
    BY <1>8, <1>9, <1>10, KeptTransitive
  <2> QED BY <1>1, <1>7, <1>10, <2>1, KeptTransitive
<1>12. Heard(b, peer[q])
  BY <1>1, <1>7, <1>8 DEF Heard
<1>13. Heard(v, peer[q])
  <2>1. b.remoteNext <= v.remoteNext
    BY <1>9 DEF Kept
  <2>2. peer[q].peerNext \in Nat
    BY <1>1 DEF Session
  <2> QED BY <1>9, <1>10, <1>12, <2>1, <2>2, HeardCompared
<1>14. v.peerNext <= peer[q].remoteNext
  BY <1>1, <1>7, <1>8, <1>9 DEF Heard
\* The heartbeat stays true of whatever session the tick ends in.
<1>15. ASSUME NEW t \in Session, Kept(v, t)
       PROVE  hb.to = Other(p) /\ Genuine(p, t, hb)
  <2>1. Kept(a, t) /\ Kept(s, t)
    BY <1>1, <1>10, <1>11, <1>15, KeptTransitive
  <2>2. \A f \in F : Issued(t, f)
    <3>1. \A f \in F : f \in Int
      BY <1>7 DEF Issued
    <3> QED BY <1>7, <2>1, <3>1 DEF Kept
  <2>3. s.frame - 1 + InputDelay \in Nat
    <3>1. s.frame \in Nat /\ InputDelay \in Nat /\ InputDelay >= 1
      BY <1>1, RingType DEF Session
    <3> HIDE DEF s
    <3> QED BY <3>1
  <2>4. s.remoteNext <= t.remoteNext
    BY <2>1 DEF Kept
  <2> QED BY <1>1, <2>2, <2>3, <2>4, PacketIsGenuine
<1>16. links \subseteq net \cup {hb}
  BY <1>4, SentWithin
<1> HIDE DEF hb, q, s
\* The tick ends in session t, and sends at most one more packet.
<1>17. ASSUME NEW t, Consistent(p, t), Kept(v, t),
              t.remote = v.remote, t.remoteNext = v.remoteNext,
              t.peerNext = v.peerNext, peer' = [peer EXCEPT ![p] = t],
              \A m \in net' : m \in links \/ (m.to = Other(p) /\ Genuine(p, t, m))
       PROVE  StreamInv'
  <2>1. t \in Session
    BY <1>17 DEF Consistent
  <2>2. Kept(s, t)
    BY <1>1, <1>10, <1>11, <1>17, <2>1, KeptTransitive
  <2>3. Heard(t, peer[q])
    BY <1>13, <1>17 DEF Heard
  <2>4. t.peerNext <= peer[q].remoteNext
    BY <1>14, <1>17
  <2>5. hb.to = Other(p) /\ Genuine(p, t, hb)
    BY <1>15, <1>17, <2>1
  <2>6. \A m \in net' : m \in net \/ (m.to = Other(p) /\ Genuine(p, t, m))
    BY <1>16, <1>17, <2>5
  <2> QED BY <1>2, <1>17, <2>2, <2>3, <2>4, <2>6, PeerMoves DEF q, s
<1>18. Kept(v, v)
  BY <1>10 DEF Kept, Session
<1>19. CASE EndStream(p, v, links) \/ Stall(p, v, links)
  <2>1. peer' = [peer EXCEPT ![p] = v] /\ net' = links
    BY <1>19 DEF EndStream, Stall
  <2> QED BY <1>9, <1>17, <1>18, <2>1
<1>20. CASE AwaitChecksums(p, v, links)
  <2>1. PICK t : /\ Consistent(p, t) /\ Kept(v, t) /\ SameStream(v, t)
                 /\ peer' = [peer EXCEPT ![p] = t] /\ net' = links
    BY <1>1, <1>9, <1>20, AwaitKeeps
  <2> QED BY <1>17, <2>1 DEF SameStream
<1>21. CASE Simulate(p, v, links)
  <2>1. PICK t, m :
           /\ Consistent(p, t) /\ Kept(v, t)
           /\ t.remote = v.remote /\ t.remoteNext = v.remoteNext
           /\ t.peerNext = v.peerNext
           /\ m.to = Other(p) /\ Genuine(p, t, m)
           /\ peer' = [peer EXCEPT ![p] = t] /\ net' \subseteq links \cup {m}
    BY <1>9, <1>21, SimulateKeeps
  <2>2. \A n \in net' : n \in links \/ (n.to = Other(p) /\ Genuine(p, t, n))
    BY <2>1
  <2> QED BY <1>17, <2>1, <2>2
<1> QED BY <1>6, <1>19, <1>20, <1>21

LEMMA StreamStep == StreamInv /\ [Next]_vars => StreamInv'
<1> SUFFICES ASSUME StreamInv, [Next]_vars PROVE StreamInv'
  OBVIOUS
<1>1. CASE Next
  BY <1>1, ReceiveKeeps, AdvanceKeeps DEF Next
<1>2. CASE UNCHANGED vars
  <2>1. peer' = peer /\ net' = net /\ divergence' = divergence
    BY <1>2 DEF vars
  <2>2. \A x, u : Consistent(x, u)' <=> Consistent(x, u)
    BY <2>1 DEF Consistent, Recorded, Compares, Result
  <2>3. \A x, u, m : Genuine(x, u, m)' <=> Genuine(x, u, m)
    BY <2>1 DEF Genuine, Result
  <2> QED BY <2>1, <2>2, <2>3 DEF StreamInv, Truthful
<1> QED BY <1>1, <1>2

\* In every reachable state each session is consistent, knows of its peer's
\* only what is so, and so does every packet on the way.
THEOREM StreamInvHolds == Spec => []StreamInv
<1>1. Init => StreamInv
  BY StreamInit
<1>2. StreamInv /\ [Next]_vars => StreamInv'
  BY StreamStep
<1> QED BY <1>1, <1>2, PTL DEF Spec

(***************************************************************************)
(* What the stream promises, of whatever ring, window and link.            *)
(***************************************************************************)
\* ggpo_net_process_deferred_checksums never counts a frame as verified that
\* the two games computed differently.
THEOREM VerifiedIsEqual == Spec => []VerifiedMeansEqual
<1>1. StreamInv => VerifiedMeansEqual
  <2> SUFFICES ASSUME StreamInv, NEW p \in Peer
               PROVE  peer[p].remoteNext <= divergence
    BY DEF VerifiedMeansEqual
  <2>1. Consistent(p, peer[p]) /\ peer[p].remoteNext \in Nat /\ divergence \in Nat
    BY DEF StreamInv, Consistent, Session
  <2>2. CASE peer[p].remoteNext = 0
    BY <2>1, <2>2
  <2>3. CASE peer[p].remoteNext # 0
    <3>1. peer[p].remoteNext - 1 \in 0 .. (peer[p].remoteNext - 1)
      BY <2>1, <2>3
    <3>2. peer[p].remoteNext - 1 < divergence
      BY <2>1, <3>1 DEF Consistent
    <3> QED BY <2>1, <3>2
  <2> QED BY <2>2, <2>3
<1> QED BY <1>1, StreamInvHolds, PTL

\* A desynchronisation that is reported is one: no checksum taken on a wrong
\* guess, or due to be computed again, is compared.
THEOREM DesyncIsReal == Spec => []NoFalseDesync
<1>1. StreamInv => NoFalseDesync
  <2> SUFFICES ASSUME StreamInv, NEW p \in Peer, peer[p].desync # None
               PROVE  peer[p].desync >= divergence
    BY DEF NoFalseDesync
  <2>1. divergence <= peer[p].desync
    BY DEF StreamInv, Consistent
  <2>2. peer[p].desync \in Int /\ divergence \in Int
    BY RingType DEF StreamInv, Consistent, Session
  <2> QED BY <2>1, <2>2
<1> QED BY <1>1, StreamInvHolds, PTL

\* No packet that comes late, overtaken or after lost ones, and no retired
\* frame, makes ggpo_net_handle_packet or the comparison drop the peer.
THEOREM DisconnectIsReal == Spec => []NoFalseDisconnect
<1>1. StreamInv => NoFalseDisconnect
  BY DEF StreamInv, Consistent, NoFalseDisconnect
<1> QED BY <1>1, StreamInvHolds, PTL

\* When a mismatch is found, both sides still hold its frame, settled: the
\* correction can be built from it, whichever side is asked.
THEOREM CorrectionIsPossible == Spec => []CorrectionPossible
<1>1. StreamInv => CorrectionPossible
  <2> SUFFICES ASSUME StreamInv, NEW p \in Peer, peer[p].desync # None,
                      NEW q \in Peer
               PROVE  Settled(peer[q], peer[p].desync)
    BY DEF CorrectionPossible
  <2> DEFINE f == peer[p].desync
  <2>1. /\ Consistent(p, peer[p]) /\ Consistent(Other(p), peer[Other(p)])
        /\ Heard(peer[p], peer[Other(p)])
    BY OtherPeer DEF StreamInv
  <2>2. /\ peer[p].remoteNext <= f /\ Settled(peer[p], f)
        /\ Holds(peer[p].remote, f)
    BY <2>1 DEF Consistent
  <2>3. CASE q = p
    BY <2>2, <2>3
  <2>4. CASE q = Other(p)
    <3>1. f \in Int /\ Slot(f) \in Slots
      BY <2>2, SlotType DEF Settled
    <3>2. Issued(peer[q], f)
      BY <2>1, <2>2, <2>4, <3>1 DEF Heard, Holds
    <3>3. peer[q].peerNext <= f
      <4>1. peer[q].peerNext <= peer[p].remoteNext
        BY <2>1, <2>4 DEF Heard
      <4>2. peer[q].peerNext \in Nat /\ peer[p].remoteNext \in Nat
        BY <2>1, <2>4 DEF Consistent, Session
      <4> QED BY <2>2, <3>1, <4>1, <4>2
    <3>4. Holds(peer[q].history, f) /\ peer[q].history[Slot(f)].published
      BY <3>2, <3>3 DEF Issued
    <3>5. peer[q].history[Slot(f)].guess = "none"
      BY <2>1, <2>4, <3>1, <3>4 DEF Consistent, Recorded
    <3> QED BY <3>2, <3>4, <3>5 DEF Settled, Issued
  <2> QED BY <2>3, <2>4, OtherPeer
<1> QED BY <1>1, StreamInvHolds, PTL
=============================================================================
